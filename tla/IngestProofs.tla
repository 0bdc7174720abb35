---------------------------- MODULE IngestProofs ----------------------------
(* Proofs about Ingest, for any batch size, channel capacity and number of   *)
(* records.                                                                  *)
EXTENDS Ingest, SequenceTheorems, DataInduction, TLAPS

LEMMA OtherKind ==
  ASSUME NEW k \in Kinds
  PROVE  Other(k) \in Kinds /\ Other(k) # k /\ \A j \in Kinds : j = k \/ j = Other(k)
BY DEF Kinds, Other

LEMMA ConcatLength ==
  ASSUME NEW s \in Seq(Records), NEW t \in Seq(Records)
  PROVE  s \o t \in Seq(Records)
BY ConcatProperties

LEMMA HeadOfAppend ==
  ASSUME NEW s \in Seq(Records), NEW r \in Records
  PROVE  /\ Append(s, r) \in Seq(Records)
         /\ Len(Append(s, r)) = Len(s) + 1
         /\ s # <<>> => Head(Append(s, r)) = Head(s)
         /\ s = <<>> => Head(Append(s, r)) = r
<1>1. /\ Append(s, r) \in Seq(Records)
      /\ Len(Append(s, r)) = Len(s) + 1
      /\ \A i \in 1 .. Len(s) : Append(s, r)[i] = s[i]
      /\ Append(s, r)[Len(s) + 1] = r
  BY AppendProperties
<1>2. Head(Append(s, r)) = Append(s, r)[1] /\ Head(s) = s[1]
  OBVIOUS
<1>3. s # <<>> => 1 \in 1 .. Len(s)
  BY EmptySeq
<1>4. s = <<>> => Len(s) + 1 = 1
  BY EmptySeq
<1>. QED  BY <1>1, <1>2, <1>3, <1>4

(* Taking a record off a channel, whatever poll does it. *)
LEMMA TakeType ==
  ASSUME TypeOK, NEW k \in Kinds, Take(k), Len(items) < BatchSize
  PROVE  TypeOK'
<1>. USE IngestAssumption DEF IngestAssumption
<1>1. /\ Head(chan[k]) \in Records /\ Tail(chan[k]) \in Seq(Records)
      /\ Len(Tail(chan[k])) <= ChanCap
  <2>1. chan[k] \in Seq(Records) /\ chan[k] # <<>> /\ Len(chan[k]) <= ChanCap
    BY DEF TypeOK, Take
  <2>2. /\ Head(chan[k]) \in Records /\ Tail(chan[k]) \in Seq(Records)
        /\ Len(Tail(chan[k])) = Len(chan[k]) - 1 /\ Len(chan[k]) \in Nat
    BY <2>1, HeadTailProperties, LenProperties
  <2>. QED  BY <2>1, <2>2
<1>2. /\ chan \in [Kinds -> Seq(Records)]
      /\ \A j \in Kinds : Len(chan[j]) <= ChanCap
      /\ items \in Seq(Records) /\ chunk \in Seq(Records) /\ buffer \in Seq(Records)
      /\ next \in 1 .. BatchSize + 1
      /\ deadline \in {"off", "running", "elapsed"}
      /\ armedFor \in Records \cup {<<>>}
      /\ passed \in [Kinds -> Nat]
  BY DEF TypeOK
<1>3. chan' \in [Kinds -> Seq(Records)] /\ \A j \in Kinds : Len(chan'[j]) <= ChanCap
  <2>1. chan' = [chan EXCEPT ![k] = Tail(chan[k])]
    BY DEF Take
  <2>. QED  BY <1>1, <1>2, <2>1
<1>. DEFINE batch == Append(items, Head(chan[k]))
<1>4. batch \in Seq(Records)
  BY <1>1, <1>2, AppendProperties
<1>5. /\ items' \in Seq(Records) /\ chunk' \in Seq(Records) /\ buffer' \in Seq(Records)
      /\ next' \in 1 .. BatchSize + 1 /\ pc' \in {"first", "convert"}
  <2>0. \/ StartBatch(batch)
        \/ pc' = "first" /\ items' = batch /\ UNCHANGED <<chunk, next, buffer>>
    BY DEF Take
  <2>1. <<>> \in Seq(Records) /\ 1 \in 1 .. BatchSize + 1
    BY EmptySeq
  <2>2. CASE StartBatch(batch)
    BY <1>4, <2>1, <2>2 DEF StartBatch
  <2>3. CASE pc' = "first" /\ items' = batch /\ UNCHANGED <<chunk, next, buffer>>
    BY <1>2, <1>4, <2>3
  <2>. QED  BY <2>0, <2>2, <2>3
<1>6. /\ deadline' \in {"off", "running", "elapsed"}
      /\ armedFor' \in Records \cup {<<>>}
  BY <1>1, <1>2 DEF Take
<1>7. turn' \in Kinds
  BY OtherKind DEF Take, TypeOK
<1>8. passed' \in [Kinds -> Nat]
  <2>1. passed' = [passed EXCEPT ![k] = 0,
                    ![Other(k)] = IF chan[Other(k)] = <<>> THEN 0
                                  ELSE passed[Other(k)] + 1]
    BY OtherKind, <1>2 DEF Take
  <2>. QED  BY <1>2, <2>1, OtherKind
<1>9. closed' = closed /\ stored' = stored /\ sent' = sent
  BY DEF Take
<1>. QED  BY <1>3, <1>5, <1>6, <1>7, <1>8, <1>9 DEF TypeOK

LEMMA EndType ==
  ASSUME TypeOK, End, UNCHANGED <<closed, deadline, stored, sent, armedFor, passed>>,
         turn' \in Kinds
  PROVE  TypeOK'
<1>1. <<>> \in Seq(Records) /\ Len(<<>>) = 0
  BY EmptySeq
<1>2. chan' \in [Kinds -> Seq(Records)] /\ \A j \in Kinds : Len(chan'[j]) <= ChanCap
  BY <1>1, IngestAssumption DEF End, IngestAssumption
<1>. QED  BY <1>1, <1>2 DEF TypeOK, End

-----------------------------------------------------------------------------
(* The inductive invariant.  FairTurn says where the merge's turn must stand *)
(* for a waiting record to have been passed over so often: after a poll that *)
(* preferred its source and took another's record, its channel was empty.    *)
FairTurn ==
  \A k \in Kinds :
    /\ chan[k] = <<>> /\ pc # "ended" => passed[k] = 0
    /\ turn = k => passed[k] <= 2
    /\ turn # k => passed[k] <= 1
    /\ turn = k /\ PollsSecond => passed[k] = 0

IInv ==
  /\ TypeOK
  /\ BatchBound
  /\ TimerCoversBatch
  /\ FairTurn

LEMMA TypeInit == Init => TypeOK
<1>. SUFFICES ASSUME Init PROVE TypeOK
  OBVIOUS
<1>1. <<>> \in Seq(Records) /\ Len(<<>>) = 0
  BY EmptySeq
<1>2. chan \in [Kinds -> Seq(Records)] /\ \A j \in Kinds : Len(chan[j]) <= ChanCap
  BY <1>1, IngestAssumption DEF Init, IngestAssumption
<1>. QED  BY <1>1, <1>2, IngestAssumption DEF Init, TypeOK, IngestAssumption, Kinds

LEMMA InvInit == Init => IInv
<1>. SUFFICES ASSUME Init PROVE IInv
  OBVIOUS
<1>1. TypeOK
  BY TypeInit
<1>2. Len(items) = 0
  BY EmptySeq DEF Init
<1>3. BatchBound
  BY <1>2, IngestAssumption DEF Init, BatchBound, IngestAssumption
<1>4. TimerCoversBatch
  BY DEF Init, TimerCoversBatch
<1>5. FairTurn
  BY DEF Init, FairTurn, PollsSecond, Kinds
<1>. QED  BY <1>1, <1>3, <1>4, <1>5 DEF IInv

LEMMA TypeStep ==
  ASSUME IInv, [Next]_vars
  PROVE  TypeOK'
<1>. USE IngestAssumption DEF IngestAssumption
<1>0. TypeOK /\ Len(items) < BatchSize
  BY DEF IInv, BatchBound
<1>1. ASSUME NEW k \in Kinds, NEW valid \in BOOLEAN, Accept(k, valid)
      PROVE  TypeOK'
  <2>1. sent' \in [Kinds -> 0 .. MaxSent] /\ sent'[k] \in 1 .. MaxSent
    <3>1. sent \in [Kinds -> 0 .. MaxSent]
      BY <1>0 DEF TypeOK
    <3>2. sent[k] < MaxSent /\ sent' = [sent EXCEPT ![k] = sent[k] + 1]
      BY <1>1 DEF Accept, MaySend
    <3>. QED  BY <3>1, <3>2
  <2>. DEFINE r == [kind |-> k, n |-> sent'[k], valid |-> valid]
  <2>2. r \in Records
    BY <2>1 DEF Records
  <2>3. chan' = [chan EXCEPT ![k] = Append(chan[k], r)]
    BY <1>1 DEF Accept
  <2>4. chan[k] \in Seq(Records) /\ Len(chan[k]) < ChanCap /\ Len(chan[k]) \in Nat
    BY <1>0, <1>1, LenProperties DEF TypeOK, Accept
  <2>5. Append(chan[k], r) \in Seq(Records) /\ Len(Append(chan[k], r)) = Len(chan[k]) + 1
    BY <2>2, <2>4, AppendProperties
  <2>6. chan' \in [Kinds -> Seq(Records)] /\ \A j \in Kinds : Len(chan'[j]) <= ChanCap
    <3>1. chan \in [Kinds -> Seq(Records)] /\ \A j \in Kinds : Len(chan[j]) <= ChanCap
      BY <1>0 DEF TypeOK
    <3>. HIDE DEF r
    <3>. QED  BY <2>3, <2>4, <2>5, <3>1
  <2>. QED  BY <1>0, <1>1, <2>1, <2>6 DEF TypeOK, Accept
<1>2. ASSUME NEW k \in Kinds, SenderGone(k)
      PROVE  TypeOK'
  BY <1>0, <1>2 DEF TypeOK, SenderGone
<1>3. CASE TakeFirst
  BY <1>0, <1>3, TakeType DEF TakeFirst, TypeOK
<1>4. CASE FirstEmpty
  BY <1>0, <1>4 DEF TypeOK, FirstEmpty
<1>5. CASE TakeSecond
  BY <1>0, <1>5, TakeType, OtherKind DEF TakeSecond, TypeOK
<1>6. CASE SecondEmpty
  <2>1. turn' \in Kinds
    BY <1>0, <1>6, OtherKind DEF SecondEmpty, TypeOK
  <2>2. UNCHANGED <<closed, deadline, stored, sent, armedFor, passed>>
    BY <1>6 DEF SecondEmpty
  <2>3. \/ StartBatch(items) /\ UNCHANGED chan
        \/ End
        \/ pc' = "wait" /\ UNCHANGED <<chan, items, chunk, next, buffer>>
    BY <1>6 DEF SecondEmpty
  <2>4. CASE StartBatch(items) /\ UNCHANGED chan
    <3>1. <<>> \in Seq(Records) /\ items \in Seq(Records)
      BY <1>0, EmptySeq DEF TypeOK
    <3>2. /\ items' \in Seq(Records) /\ chunk' \in Seq(Records)
          /\ buffer' \in Seq(Records) /\ next' \in 1 .. BatchSize + 1
          /\ pc' = "convert" /\ chan' = chan
      BY <2>4, <3>1 DEF StartBatch
    <3>. QED  BY <1>0, <2>1, <2>2, <3>2 DEF TypeOK
  <2>5. CASE End
    BY <1>0, <2>1, <2>2, <2>5, EndType
  <2>6. CASE pc' = "wait" /\ UNCHANGED <<chan, items, chunk, next, buffer>>
    BY <1>0, <2>1, <2>2, <2>6 DEF TypeOK
  <2>. QED  BY <2>3, <2>4, <2>5, <2>6
<1>7. CASE Wake
  BY <1>0, <1>7 DEF TypeOK, Wake
<1>8. CASE Elapse
  BY <1>0, <1>8 DEF TypeOK, Elapse
<1>9. CASE Convert
  <2>1. Len(chunk) \in 1 .. BatchSize
    BY <1>9 DEF IInv, BatchBound, Convert
  <2>2. next \in 1 .. Len(chunk) /\ next' \in 1 .. BatchSize + 1
    BY <1>0, <1>9, <2>1 DEF Convert, TypeOK
  <2>3. chunk[next] \in Records
    <3>1. chunk \in Seq(Records)
      BY <1>0 DEF TypeOK
    <3>. QED  BY <2>2, <3>1, ElementOfSeq
  <2>4. buffer' \in Seq(Records)
    BY <1>0, <1>9, <2>3, AppendProperties DEF Convert, TypeOK
  <2>. QED  BY <1>0, <1>9, <2>2, <2>4 DEF TypeOK, Convert
<1>10. CASE Post
  BY <1>0, <1>10 DEF TypeOK, Post
<1>11. CASE Stored \/ Refused \/ Failed
  <2>1. stored \o buffer \in Seq(Records) /\ <<>> \in Seq(Records)
    BY <1>0, ConcatLength, EmptySeq DEF TypeOK
  <2>2. stored' \in Seq(Records)
    BY <1>0, <1>11, <2>1 DEF Stored, Refused, Failed, TypeOK
  <2>. QED  BY <1>0, <1>11, <2>1, <2>2 DEF Stored, Refused, Failed, NextBatch, TypeOK
<1>12. CASE RefusedUnread
  BY <1>0, <1>12, EndType DEF RefusedUnread, TypeOK
<1>13. CASE UNCHANGED vars
  BY <1>0, <1>13 DEF TypeOK, vars
<1>. QED
  BY <1>1, <1>2, <1>3, <1>4, <1>5, <1>6, <1>7, <1>8, <1>9, <1>10, <1>11, <1>12, <1>13
     DEF Next

LEMMA TakeBound ==
  ASSUME IInv, NEW k \in Kinds, Take(k), pc \notin {"convert", "post"}
  PROVE  BatchBound' /\ TimerCoversBatch'
<1>. USE IngestAssumption DEF IngestAssumption
<1>1. /\ items \in Seq(Records) /\ Len(items) \in Nat /\ Len(items) < BatchSize
      /\ deadline # "off" \/ items = <<>>
  BY LenProperties DEF IInv, TypeOK, BatchBound, TimerCoversBatch
<1>2. Head(chan[k]) \in Records
  <2>1. chan[k] \in Seq(Records) /\ chan[k] # <<>>
    BY DEF IInv, TypeOK, Take
  <2>. QED  BY <2>1, HeadTailProperties
<1>. DEFINE batch == Append(items, Head(chan[k]))
<1>3. /\ Len(batch) = Len(items) + 1
      /\ items # <<>> => Head(batch) = Head(items)
      /\ items = <<>> => Head(batch) = Head(chan[k])
  BY <1>1, <1>2, HeadOfAppend
<1>4. CASE Len(batch) >= BatchSize
  <2>1. StartBatch(batch)
    BY <1>4 DEF Take
  <2>2. pc' = "convert" /\ chunk' = batch /\ items' = <<>>
    BY <2>1 DEF StartBatch
  <2>3. Len(chunk') \in 1 .. BatchSize /\ Len(items') = 0
    BY <1>1, <1>3, <1>4, <2>2, EmptySeq
  <2>. QED  BY <2>2, <2>3 DEF BatchBound, TimerCoversBatch
<1>5. CASE ~(Len(batch) >= BatchSize)
  <2>1. pc' = "first" /\ items' = batch
    BY <1>5 DEF Take
  <2>2. BatchBound'
    BY <1>1, <1>3, <1>5, <2>1 DEF BatchBound
  <2>3. /\ items = <<>> => deadline' = "running" /\ armedFor' = Head(chan[k])
        /\ items # <<>> => UNCHANGED <<deadline, armedFor>>
    BY DEF Take
  <2>4. TimerCoversBatch'
    BY <1>3, <2>1, <2>3 DEF IInv, TimerCoversBatch
  <2>. QED  BY <2>2, <2>4
<1>. QED  BY <1>4, <1>5

LEMMA BoundStep ==
  ASSUME IInv, [Next]_vars
  PROVE  BatchBound' /\ TimerCoversBatch'
<1>. USE IngestAssumption DEF IngestAssumption
<1>0. BatchBound /\ TimerCoversBatch /\ Len(<<>>) = 0
  BY EmptySeq DEF IInv
<1>1. CASE TakeFirst
  BY <1>1, TakeBound DEF TakeFirst, IInv, TypeOK
<1>2. CASE TakeSecond
  BY <1>2, TakeBound, OtherKind DEF TakeSecond, PollsSecond, IInv, TypeOK
<1>3. CASE SecondEmpty
  <2>1. CASE items # <<>> /\ StartBatch(items)
    <3>1. Len(items) \in 1 .. BatchSize
      <4>1. items \in Seq(Records)
        BY DEF IInv, TypeOK
      <4>. QED  BY <1>0, <2>1, <4>1, EmptySeq DEF BatchBound
    <3>. QED  BY <1>0, <2>1, <3>1 DEF StartBatch, BatchBound, TimerCoversBatch
  <2>2. CASE End
    BY <1>0, <2>2 DEF End, BatchBound, TimerCoversBatch
  <2>3. CASE pc' = "wait" /\ UNCHANGED items
    BY <1>0, <1>3, <2>3 DEF SecondEmpty, BatchBound, TimerCoversBatch
  <2>. QED  BY <1>3, <2>1, <2>2, <2>3 DEF SecondEmpty
<1>4. CASE Stored \/ Refused \/ Failed
  BY <1>0, <1>4 DEF Stored, Refused, Failed, NextBatch, BatchBound, TimerCoversBatch
<1>5. CASE RefusedUnread
  BY <1>0, <1>5 DEF RefusedUnread, End, BatchBound, TimerCoversBatch
<1>6. CASE Elapse
  BY <1>0, <1>6 DEF Elapse, BatchBound, TimerCoversBatch
<1>7. CASE \/ FirstEmpty \/ Wake \/ Convert \/ Post \/ UNCHANGED vars
           \/ \E k \in Kinds, valid \in BOOLEAN : Accept(k, valid)
           \/ \E k \in Kinds : SenderGone(k)
  <2>1. /\ UNCHANGED <<items, chunk, deadline, armedFor>>
        /\ pc' \in {"convert", "post"} => pc \in {"convert", "post"}
    BY <1>7 DEF FirstEmpty, Wake, Convert, Post, vars, Accept, SenderGone
  <2>. QED  BY <1>0, <2>1 DEF BatchBound, TimerCoversBatch
<1>. QED
  BY <1>1, <1>2, <1>3, <1>4, <1>5, <1>6, <1>7 DEF Next

(* A record taken from one source counts against the other's only if that    *)
(* one has a record waiting, and the turn has moved on.                      *)
LEMMA TakeFair ==
  ASSUME IInv, NEW k \in Kinds, Take(k),
         (TakeFirst /\ k = turn) \/ (TakeSecond /\ k = Other(turn))
  PROVE  FairTurn'
<1>. DEFINE o == Other(k)
<1>1. /\ o \in Kinds /\ o # k /\ \A j \in Kinds : j = k \/ j = o
      /\ Other(o) = k
  BY OtherKind DEF Other, Kinds
<1>2. passed \in [Kinds -> Nat] /\ chan \in [Kinds -> Seq(Records)]
  BY DEF IInv, TypeOK
<1>3. passed' = [passed EXCEPT ![k] = 0,
                               ![o] = IF chan[o] = <<>> THEN 0 ELSE passed[o] + 1]
  BY DEF Take
<1>4. passed'[k] = 0 /\ passed'[o] = IF chan[o] = <<>> THEN 0 ELSE passed[o] + 1
  BY <1>1, <1>2, <1>3
<1>5. chan'[o] = chan[o]
  BY <1>1, <1>2 DEF Take
<1>6. turn' = Other(turn) /\ pc' \in {"first", "convert"}
  BY DEF Take, StartBatch
<1>7. ~PollsSecond'
  BY <1>6 DEF PollsSecond
<1>8. CASE TakeFirst /\ k = turn
  <2>1. passed[o] <= 1 /\ turn' = o
    BY <1>1, <1>6, <1>8 DEF IInv, FairTurn
  <2>2. passed'[o] <= 2 /\ (chan'[o] = <<>> => passed'[o] = 0)
    BY <1>1, <1>2, <1>4, <1>5, <2>1
  <2>. QED  BY <1>1, <1>4, <1>7, <2>1, <2>2 DEF FairTurn
<1>9. CASE TakeSecond /\ k = Other(turn)
  <2>1. turn = o
    BY <1>1, <1>9 DEF IInv, TypeOK, Other, Kinds
  <2>2. passed[o] = 0 /\ turn' = k
    BY <1>1, <1>6, <1>9, <2>1 DEF IInv, FairTurn, TakeSecond
  <2>3. passed'[o] <= 1 /\ (chan'[o] = <<>> => passed'[o] = 0)
    BY <1>4, <1>5, <2>2
  <2>4. turn' # o
    BY <1>1, <2>2
  <2>. QED  BY <1>1, <1>4, <1>7, <2>2, <2>3, <2>4 DEF FairTurn
<1>. QED  BY <1>8, <1>9

LEMMA FairStep ==
  ASSUME IInv, [Next]_vars
  PROVE  FairTurn'
<1>0. FairTurn /\ turn \in Kinds /\ passed \in [Kinds -> Nat]
      /\ chan \in [Kinds -> Seq(Records)]
  BY DEF IInv, TypeOK
<1>1. CASE TakeFirst
  BY <1>0, <1>1, TakeFair DEF TakeFirst
<1>2. CASE TakeSecond
  BY <1>0, <1>2, TakeFair, OtherKind DEF TakeSecond
<1>3. CASE FirstEmpty
  BY <1>0, <1>3 DEF FirstEmpty, FairTurn, PollsSecond
<1>4. CASE SecondEmpty
  <2>1. /\ turn' = Other(turn) /\ passed' = passed /\ chan[Other(turn)] = <<>>
        /\ PollsSecond /\ pc' \in {"convert", "ended", "wait"}
        /\ chan' = chan \/ pc' = "ended"
    BY <1>4 DEF SecondEmpty, StartBatch, End
  <2>2. passed[turn] = 0 /\ passed[Other(turn)] = 0
    BY <1>0, <2>1, OtherKind DEF FairTurn, PollsSecond
  <2>3. \A j \in Kinds : passed'[j] = 0
    BY <1>0, <2>1, <2>2, OtherKind
  <2>4. ~PollsSecond'
    BY <2>1 DEF PollsSecond
  <2>. QED  BY <2>3, <2>4 DEF FairTurn
<1>5. ASSUME NEW k \in Kinds, NEW valid \in BOOLEAN, Accept(k, valid)
      PROVE  FairTurn'
  <2>1. \A j \in Kinds : chan'[j] = <<>> => chan[j] = <<>>
    <3>1. chan' = [chan EXCEPT ![k] =
                     Append(chan[k], [kind |-> k, n |-> sent'[k], valid |-> valid])]
      BY <1>5 DEF Accept
    <3>2. \A j \in Kinds : j # k => chan'[j] = chan[j]
      BY <1>0, <3>1
    <3>3. sent'[k] \in 1 .. MaxSent
      <4>1. sent \in [Kinds -> 0 .. MaxSent] /\ MaxSent \in Nat
        BY IngestAssumption DEF IInv, TypeOK, IngestAssumption
      <4>2. sent[k] < MaxSent /\ sent' = [sent EXCEPT ![k] = sent[k] + 1]
        BY <1>5 DEF Accept, MaySend
      <4>. QED  BY <4>1, <4>2
    <3>4. [kind |-> k, n |-> sent'[k], valid |-> valid] \in Records
      BY <3>3 DEF Records
    <3>5. chan'[k] # <<>>
      BY <1>0, <3>1, <3>4, AppendProperties
    <3>. QED  BY <3>2, <3>5
  <2>2. UNCHANGED <<pc, turn, passed>>
    BY <1>5 DEF Accept
  <2>. QED  BY <1>0, <2>1, <2>2 DEF FairTurn, PollsSecond
<1>6. CASE RefusedUnread
  BY <1>0, <1>6 DEF RefusedUnread, End, FairTurn, PollsSecond
<1>7. CASE \/ Wake \/ Elapse \/ Convert \/ Post \/ Stored \/ Refused \/ Failed
           \/ UNCHANGED vars \/ \E k \in Kinds : SenderGone(k)
  <2>1. /\ UNCHANGED <<chan, turn, passed>>
        /\ PollsSecond' => PollsSecond
        /\ pc = "ended" => pc' = "ended"
    BY <1>7 DEF Wake, Elapse, Convert, Post, Stored, Refused, Failed, NextBatch, vars,
       SenderGone, PollsSecond
  <2>. QED  BY <1>0, <2>1 DEF FairTurn
<1>. QED
  BY <1>1, <1>2, <1>3, <1>4, <1>5, <1>6, <1>7 DEF Next

THEOREM Invariance == Spec => []IInv
<1>1. IInv /\ [Next]_vars => IInv'
  BY TypeStep, BoundStep, FairStep DEF IInv
<1>. QED  BY <1>1, InvInit, PTL DEF Spec

(* The channels keep their bounds and the loop its stages, for any batch     *)
(* size and capacity (main.rs lines 135-215).                                *)
THEOREM TypeCorrect == Spec => []TypeOK
<1>1. IInv => TypeOK
  BY DEF IInv
<1>. QED  BY <1>1, Invariance, PTL

(* No batch is empty and none exceeds BATCH_SIZE (main.rs lines 148, 178). *)
THEOREM BatchesBounded == Spec => []BatchBound
<1>1. IInv => BatchBound
  BY DEF IInv
<1>. QED  BY <1>1, Invariance, PTL

(* Whatever is being gathered has the timer its oldest record set, so its    *)
(* age is what flushes it (main.rs lines 126 and 148).                       *)
THEOREM TimerIsOwn == Spec => []TimerCoversBatch
<1>1. IInv => TimerCoversBatch
  BY DEF IInv
<1>. QED  BY <1>1, Invariance, PTL

(* A waiting record is passed over by at most two of the other source, for   *)
(* every batch size and channel capacity (main.rs line 144).                 *)
THEOREM MergeFair == Spec => []MergeIsFair
<1>1. IInv => MergeIsFair
  <2>. SUFFICES ASSUME IInv, NEW k \in Kinds PROVE passed[k] <= 2
    BY DEF MergeIsFair
  <2>1. passed[k] \in Nat /\ (turn = k => passed[k] <= 2) /\ (turn # k => passed[k] <= 1)
    BY DEF IInv, FairTurn, TypeOK
  <2>. QED  BY <2>1
<1>. QED  BY <1>1, Invariance, PTL

-----------------------------------------------------------------------------
(* What Among selects, for a sequence of any length. *)

(* The recursion of Among, as far as N. *)
Defined(f, s, S, N) ==
  f = [n \in 0 .. N |-> IF n = 0 THEN <<>>
                        ELSE IF s[n] \in S THEN Append(f[n - 1], s[n]) ELSE f[n - 1]]

(* The recursion selects, however long the sequence is. *)
LEMMA AmongExists ==
  ASSUME NEW s, NEW S
  PROVE  \A N \in Nat : \E f : Defined(f, s, S, N)
<1>. DEFINE G == {N \in Nat : \E f : Defined(f, s, S, N)}
<1>1. 0 \in G
  <2>. DEFINE f == [n \in 0 .. 0 |-> <<>>]
  <2>1. Defined(f, s, S, 0)
    BY DEF Defined
  <2>. QED  BY <2>1
<1>2. ASSUME NEW N \in Nat, N \in G PROVE N + 1 \in G
  <2>1. PICK f : Defined(f, s, S, N)
    BY <1>2
  <2>. DEFINE g == [n \in 0 .. N + 1 |->
                      IF n = N + 1
                      THEN IF s[n] \in S THEN Append(f[N], s[n]) ELSE f[N]
                      ELSE f[n]]
  <2>2. \A n \in 0 .. N : f[n] = IF n = 0 THEN <<>>
                        ELSE IF s[n] \in S THEN Append(f[n - 1], s[n]) ELSE f[n - 1]
    BY <2>1 DEF Defined
  <2>3. \A n \in 0 .. N : g[n] = f[n]
    OBVIOUS
  <2>4. \A n \in 0 .. N + 1 : g[n] = IF n = 0 THEN <<>>
                        ELSE IF s[n] \in S THEN Append(g[n - 1], s[n]) ELSE g[n - 1]
    <3>1. CASE N + 1 = 0
      BY <3>1
    <3>. TAKE n \in 0 .. N + 1
    <3>2. CASE n = N + 1
      <4>1. n - 1 = N /\ N \in 0 .. N /\ n # 0 /\ g[N] = f[N]
        BY <3>2, <2>3
      <4>2. g[n] = IF s[n] \in S THEN Append(f[N], s[n]) ELSE f[N]
        BY <3>2
      <4>. QED  BY <4>1, <4>2
    <3>3. CASE n \in 0 .. N /\ n # 0
      <4>1. n - 1 \in 0 .. N
        BY <3>3
      <4>2. g[n] = f[n] /\ g[n - 1] = f[n - 1]
        BY <3>3, <4>1, <2>3
      <4>. QED  BY <2>2, <3>3, <4>2
    <3>4. CASE n = 0
      <4>1. 0 \in 0 .. N
        OBVIOUS
      <4>. QED  BY <2>2, <2>3, <3>4, <4>1
    <3>. QED  BY <3>2, <3>3, <3>4
  <2>5. g = [n \in 0 .. N + 1 |-> IF n = 0 THEN <<>>
                        ELSE IF s[n] \in S THEN Append(g[n - 1], s[n]) ELSE g[n - 1]]
    <3>. HIDE DEF g
    <3>1. g = [n \in 0 .. N + 1 |-> g[n]]
      BY DEF g
    <3>. QED  BY <2>4, <3>1
  <2>. HIDE DEF g
  <2>6. Defined(g, s, S, N + 1)
    BY <2>5 DEF Defined
  <2>. QED  BY <2>6
<1>3. Nat \subseteq G
  <2>. HIDE DEF G
  <2>. QED  BY <1>1, <1>2, Induct
<1>. QED  BY <1>3

LEMMA AmongUnfolds ==
  ASSUME NEW T, NEW s \in Seq(T), NEW S
  PROVE  \E f : /\ Defined(f, s, S, Len(s))
                /\ Among(s, S) = f[Len(s)]
<1>. DEFINE f == CHOOSE f : Defined(f, s, S, Len(s))
<1>1. Among(s, S) = f[Len(s)]
  BY DEF Among, Defined
<1>2. Defined(f, s, S, Len(s))
  <2>1. \E g : Defined(g, s, S, Len(s))
    BY AmongExists, LenProperties
  <2>. QED  BY <2>1
<1>. QED  BY <1>1, <1>2

LEMMA AmongEmpty == \A S : Among(<<>>, S) = <<>>
<1>. TAKE S
<1>1. PICK f : Defined(f, <<>>, S, 0) /\ Among(<<>>, S) = f[0]
  BY AmongUnfolds, EmptySeq
<1>2. 0 \in 0 .. 0
  OBVIOUS
<1>. QED  BY <1>1, <1>2 DEF Defined

LEMMA AmongAppend ==
  ASSUME NEW T, NEW s \in Seq(T), NEW x \in T, NEW S
  PROVE  Among(Append(s, x), S) =
           IF x \in S THEN Append(Among(s, S), x) ELSE Among(s, S)
<1>. DEFINE t == Append(s, x)
            N == Len(s)
<1>1. /\ t \in Seq(T) /\ Len(t) = N + 1 /\ N \in Nat /\ t[N + 1] = x
      /\ \A n \in 1 .. N : t[n] = s[n]
  BY AppendProperties, LenProperties
<1>2. PICK f : Defined(f, s, S, N) /\ Among(s, S) = f[N]
  BY AmongUnfolds
<1>. HIDE DEF t, N
<1>3. PICK g : Defined(g, t, S, N + 1) /\ Among(t, S) = g[N + 1]
  BY <1>1, AmongUnfolds
<1>4. \A n \in 0 .. N : f[n] = IF n = 0 THEN <<>>
                        ELSE IF s[n] \in S THEN Append(f[n - 1], s[n]) ELSE f[n - 1]
  BY <1>2 DEF Defined
<1>5. \A n \in 0 .. N + 1 : g[n] = IF n = 0 THEN <<>>
                        ELSE IF t[n] \in S THEN Append(g[n - 1], t[n]) ELSE g[n - 1]
  BY <1>3 DEF Defined
<1>. DEFINE G == {n \in Nat : n <= N => g[n] = f[n]}
<1>6. Nat \subseteq G
  <2>1. 0 \in G
    BY <1>1, <1>4, <1>5
  <2>2. ASSUME NEW n \in Nat, n \in G PROVE n + 1 \in G
    <3>. SUFFICES ASSUME n + 1 <= N PROVE g[n + 1] = f[n + 1]
      OBVIOUS
    <3>1. /\ n + 1 \in 1 .. N /\ n + 1 \in 0 .. N /\ n + 1 \in 0 .. N + 1
          /\ (n + 1) - 1 = n /\ n + 1 # 0 /\ g[n] = f[n]
      BY <1>1, <2>2
    <3>2. t[n + 1] = s[n + 1]
      BY <1>1, <3>1
    <3>3. f[n + 1] = IF s[n + 1] \in S THEN Append(f[n], s[n + 1]) ELSE f[n]
      BY <1>4, <3>1
    <3>4. g[n + 1] = IF t[n + 1] \in S THEN Append(g[n], t[n + 1]) ELSE g[n]
      BY <1>5, <3>1
    <3>. QED  BY <3>1, <3>2, <3>3, <3>4
  <2>. HIDE DEF G
  <2>. QED  BY <2>1, <2>2, Induct
<1>7. g[N] = f[N]
  BY <1>1, <1>6
<1>8. g[N + 1] = IF t[N + 1] \in S THEN Append(g[N], t[N + 1]) ELSE g[N]
  <2>1. N + 1 \in 0 .. N + 1 /\ N + 1 # 0 /\ (N + 1) - 1 = N
    BY <1>1
  <2>. QED  BY <1>5, <2>1
<1>. QED  BY <1>1, <1>2, <1>3, <1>7, <1>8 DEF t

(* What is selected is in the set, and nothing in the set is left out.       *)
LEMMA AmongSelects ==
  ASSUME NEW T, NEW S
  PROVE  \A s \in Seq(T) :
           /\ Among(s, S) \in Seq(T)
           /\ Len(Among(s, S)) <= Len(s)
           /\ \A i \in 1 .. Len(Among(s, S)) :
                Among(s, S)[i] \in S /\ \E j \in 1 .. Len(s) : s[j] = Among(s, S)[i]
           /\ \A j \in 1 .. Len(s) : s[j] \in S =>
                \E i \in 1 .. Len(Among(s, S)) : Among(s, S)[i] = s[j]
<1>. DEFINE P(s) == 
           /\ Among(s, S) \in Seq(T)
           /\ Len(Among(s, S)) <= Len(s)
           /\ \A i \in 1 .. Len(Among(s, S)) :
                Among(s, S)[i] \in S /\ \E j \in 1 .. Len(s) : s[j] = Among(s, S)[i]
           /\ \A j \in 1 .. Len(s) : s[j] \in S =>
                \E i \in 1 .. Len(Among(s, S)) : Among(s, S)[i] = s[j]
            G == {n \in Nat : \A s \in Seq(T) : Len(s) = n => P(s)}
<1>1. 0 \in G
  <2>. SUFFICES ASSUME NEW s \in Seq(T), Len(s) = 0 PROVE P(s)
    OBVIOUS
  <2>1. s = <<>> /\ Len(<<>>) = 0 /\ <<>> \in Seq(T)
    BY EmptySeq
  <2>2. Among(s, S) = <<>> /\ Len(Among(s, S)) = 0 /\ Among(s, S) \in Seq(T)
    BY <2>1, AmongEmpty
  <2>3. 1 .. 0 = {}
    OBVIOUS
  <2>. QED  BY <2>2, <2>3
<1>2. ASSUME NEW n \in Nat, n \in G PROVE n + 1 \in G
  <2>. SUFFICES ASSUME NEW t \in Seq(T), Len(t) = n + 1 PROVE P(t)
    OBVIOUS
  <2>1. PICK s \in Seq(T), x \in T : t = Append(s, x)
    <3>1. t # <<>>
      BY EmptySeq
    <3>. QED  BY <3>1, SequenceEmptyOrAppend
  <2>2. /\ Len(s) = n /\ t[n + 1] = x /\ \A j \in 1 .. n : t[j] = s[j]
    <3>1. /\ Len(t) = Len(s) + 1 /\ Len(s) \in Nat /\ t[Len(s) + 1] = x
          /\ \A j \in 1 .. Len(s) : t[j] = s[j]
      BY <2>1, AppendProperties, LenProperties
    <3>. QED  BY <3>1
  <2>3. P(s)
    BY <1>2, <2>2
  <2>4. Among(t, S) = IF x \in S THEN Append(Among(s, S), x) ELSE Among(s, S)
    BY <2>1, AmongAppend
  <2>. DEFINE a == Among(s, S)
              b == Among(t, S)
  <2>5. a \in Seq(T) /\ Len(a) \in Nat /\ Len(a) <= n
    BY <2>2, <2>3, LenProperties
  <2>6. CASE x \in S
    <3>1. /\ b \in Seq(T) /\ Len(b) = Len(a) + 1 /\ b[Len(a) + 1] = x
          /\ \A i \in 1 .. Len(a) : b[i] = a[i]
      BY <2>4, <2>5, <2>6, AppendProperties
    <3>2. Len(b) <= Len(t)
      BY <2>5, <3>1
    <3>3. ASSUME NEW i \in 1 .. Len(b)
          PROVE  b[i] \in S /\ \E j \in 1 .. Len(t) : t[j] = b[i]
      <4>1. CASE i = Len(a) + 1
        BY <2>2, <2>6, <3>1, <4>1
      <4>2. CASE i \in 1 .. Len(a)
        <5>1. PICK j \in 1 .. n : s[j] = a[i]
          BY <2>2, <2>3, <4>2
        <5>. QED  BY <2>2, <2>3, <3>1, <4>2, <5>1
      <4>. QED  BY <2>5, <3>1, <4>1, <4>2
    <3>4. ASSUME NEW j \in 1 .. Len(t), t[j] \in S
          PROVE  \E i \in 1 .. Len(b) : b[i] = t[j]
      <4>1. CASE j = n + 1
        <5>1. Len(a) + 1 \in 1 .. Len(b)
          BY <2>5, <3>1
        <5>. QED  BY <2>2, <3>1, <4>1, <5>1
      <4>2. CASE j \in 1 .. n
        <5>1. PICK i \in 1 .. Len(a) : a[i] = s[j]
          BY <2>2, <2>3, <3>4, <4>2
        <5>. QED  BY <2>2, <2>5, <3>1, <4>2, <5>1
      <4>. QED  BY <4>1, <4>2
    <3>. QED  BY <3>1, <3>2, <3>3, <3>4
  <2>7. CASE x \notin S
    <3>1. b = a
      BY <2>4, <2>7
    <3>2. \A i \in 1 .. Len(a) : a[i] \in S /\ \E j \in 1 .. Len(t) : t[j] = a[i]
      <4>. TAKE i \in 1 .. Len(a)
      <4>1. PICK j \in 1 .. n : s[j] = a[i]
        BY <2>2, <2>3
      <4>. QED  BY <2>2, <2>3, <4>1
    <3>3. ASSUME NEW j \in 1 .. Len(t), t[j] \in S
          PROVE  \E i \in 1 .. Len(a) : a[i] = t[j]
      <4>1. j \in 1 .. n
        BY <2>2, <2>7, <3>3
      <4>. QED  BY <2>2, <2>3, <3>3, <4>1
    <3>. QED  BY <2>5, <3>1, <3>2, <3>3
  <2>. QED  BY <2>6, <2>7
<1>3. Nat \subseteq G
  <2>. HIDE DEF G
  <2>. QED  BY <1>1, <1>2, Induct
<1>4. \A s \in Seq(T) : Len(s) \in Nat
  BY LenProperties
<1>. QED  BY <1>3, <1>4

-----------------------------------------------------------------------------
(* Ingest implements Relay.  Batched says where a record is that was taken:  *)
(* in the batch being gathered or in the one being settled, never in both,   *)
(* with as many of the valid ones serialised as were converted.              *)
ValidRecords == {r \in Records : r.valid}

Batched ==
  /\ pc \in {"convert", "post"} => items = <<>>
  /\ pc \notin {"convert", "post"} => chunk = <<>>
  /\ \A k \in Kinds : \A i \in 1 .. Len(chan[k]) : chan[k][i].kind = k
  /\ pc \in {"convert", "post"} =>
       /\ next \in 1 .. Len(chunk) + 1
       /\ buffer = Among(SubSeq(chunk, 1, next - 1), ValidRecords)
  /\ pc = "post" => next = Len(chunk) + 1

RInv == IInv /\ Batched

LEMMA StartsUnconverted ==
  ASSUME NEW batch \in Seq(Records), StartBatch(batch)
  PROVE  /\ next' \in 1 .. Len(chunk') + 1
         /\ buffer' = Among(SubSeq(chunk', 1, next' - 1), ValidRecords)
<1>1. next' = 1 /\ chunk' = batch /\ buffer' = <<>> /\ Len(batch) \in Nat
  BY LenProperties DEF StartBatch
<1>2. next' - 1 = 0 /\ 0 \in Int /\ 1 \in Int /\ 0 < 1
  BY <1>1
<1>3. SubSeq(chunk', 1, 0) = <<>>
  BY <1>2, SubSeqEmpty
<1>4. Among(SubSeq(chunk', 1, next' - 1), ValidRecords) = <<>>
  BY <1>2, <1>3, AmongEmpty
<1>. QED  BY <1>1, <1>4

LEMMA BatchedTake ==
  ASSUME RInv, NEW k \in Kinds, Take(k), pc \notin {"convert", "post"}
  PROVE  Batched'
<1>1. /\ chan \in [Kinds -> Seq(Records)] /\ items \in Seq(Records)
      /\ chan[k] \in Seq(Records) /\ chan[k] # <<>> /\ chunk = <<>>
  BY DEF RInv, IInv, TypeOK, Batched, Take
<1>2. /\ Head(chan[k]) \in Records /\ Len(Tail(chan[k])) = Len(chan[k]) - 1
      /\ \A i \in 1 .. Len(Tail(chan[k])) : Tail(chan[k])[i] = chan[k][i + 1]
      /\ Len(chan[k]) \in Nat
  BY <1>1, HeadTailProperties, LenProperties
<1>3. chan' = [chan EXCEPT ![k] = Tail(chan[k])]
  BY DEF Take
<1>4. \A j \in Kinds : \A i \in 1 .. Len(chan'[j]) : chan'[j][i].kind = j
  <2>. TAKE j \in Kinds
  <2>1. CASE j = k
    <3>1. chan'[j] = Tail(chan[k])
      BY <1>1, <1>3, <2>1
    <3>. TAKE i \in 1 .. Len(chan'[j])
    <3>2. i + 1 \in 1 .. Len(chan[k]) /\ chan'[j][i] = chan[k][i + 1]
      BY <1>2, <3>1
    <3>. QED  BY <2>1, <3>2 DEF RInv, Batched
  <2>2. CASE j # k
    <3>1. chan'[j] = chan[j]
      BY <1>1, <1>3, <2>2
    <3>. QED  BY <3>1 DEF RInv, Batched
  <2>. QED  BY <2>1, <2>2
<1>. DEFINE batch == Append(items, Head(chan[k]))
<1>5. batch \in Seq(Records)
  BY <1>1, <1>2, AppendProperties
<1>6. CASE StartBatch(batch)
  <2>1. pc' = "convert" /\ items' = <<>>
    BY <1>6 DEF StartBatch
  <2>2. /\ next' \in 1 .. Len(chunk') + 1
        /\ buffer' = Among(SubSeq(chunk', 1, next' - 1), ValidRecords)
    BY <1>5, <1>6, StartsUnconverted
  <2>. QED  BY <1>4, <2>1, <2>2 DEF Batched
<1>7. CASE pc' = "first" /\ UNCHANGED chunk
  BY <1>1, <1>4, <1>7 DEF Batched
<1>. QED  BY <1>6, <1>7 DEF Take

LEMMA EndBatched ==
  ASSUME End
  PROVE  Batched'
<1>1. Len(<<>>) = 0 /\ 1 .. 0 = {}
  BY EmptySeq
<1>2. \A k \in Kinds : chan'[k] = <<>>
  BY DEF End
<1>. QED  BY <1>1, <1>2 DEF End, Batched

LEMMA Accepted ==
  ASSUME TypeOK, NEW k \in Kinds, NEW valid \in BOOLEAN, Accept(k, valid)
  PROVE  [kind |-> k, n |-> sent'[k], valid |-> valid] \in Records
<1>1. sent \in [Kinds -> 0 .. MaxSent] /\ MaxSent \in Nat
  BY IngestAssumption DEF TypeOK, IngestAssumption
<1>2. sent[k] < MaxSent /\ sent' = [sent EXCEPT ![k] = sent[k] + 1]
  BY DEF Accept, MaySend
<1>3. sent'[k] \in 1 .. MaxSent
  BY <1>1, <1>2
<1>. QED  BY <1>3 DEF Records

LEMMA BatchedStep ==
  ASSUME RInv, [Next]_vars
  PROVE  Batched'
<1>0. TypeOK /\ Batched
  BY DEF RInv, IInv
<1>1. ASSUME NEW k \in Kinds, NEW valid \in BOOLEAN, Accept(k, valid)
      PROVE  Batched'
  <2>. DEFINE r == [kind |-> k, n |-> sent'[k], valid |-> valid]
  <2>1. /\ chan' = [chan EXCEPT ![k] = Append(chan[k], r)]
        /\ chan \in [Kinds -> Seq(Records)] /\ r \in Records
    BY <1>0, <1>1, Accepted DEF Accept, TypeOK
  <2>2. /\ Len(Append(chan[k], r)) = Len(chan[k]) + 1 /\ Len(chan[k]) \in Nat
        /\ \A i \in 1 .. Len(chan[k]) : Append(chan[k], r)[i] = chan[k][i]
        /\ Append(chan[k], r)[Len(chan[k]) + 1] = r
    BY <2>1, AppendProperties, LenProperties
  <2>3. r.kind = k
    OBVIOUS
  <2>. HIDE DEF r
  <2>4. \A j \in Kinds : \A i \in 1 .. Len(chan'[j]) : chan'[j][i].kind = j
    <3>. TAKE j \in Kinds
    <3>1. CASE j = k
      <4>1. chan'[j] = Append(chan[k], r)
        BY <2>1, <3>1
      <4>. TAKE i \in 1 .. Len(chan'[j])
      <4>2. CASE i = Len(chan[k]) + 1
        BY <2>2, <2>3, <3>1, <4>1, <4>2
      <4>3. CASE i \in 1 .. Len(chan[k])
        BY <1>0, <2>2, <3>1, <4>1, <4>3 DEF Batched
      <4>. QED  BY <2>2, <4>1, <4>2, <4>3
    <3>2. CASE j # k
      <4>1. chan'[j] = chan[j]
        BY <2>1, <3>2
      <4>. QED  BY <1>0, <4>1 DEF Batched
    <3>. QED  BY <3>1, <3>2
  <2>5. UNCHANGED <<pc, items, chunk, next, buffer>>
    BY <1>1 DEF Accept
  <2>. QED  BY <1>0, <2>4, <2>5 DEF Batched
<1>2. CASE TakeFirst
  BY <1>0, <1>2, BatchedTake DEF TakeFirst, TypeOK
<1>3. CASE TakeSecond
  BY <1>0, <1>3, BatchedTake, OtherKind DEF TakeSecond, PollsSecond, TypeOK
<1>4. CASE SecondEmpty
  <2>1. chunk = <<>> /\ items \in Seq(Records)
    BY <1>0, <1>4 DEF SecondEmpty, PollsSecond, Batched, TypeOK
  <2>2. CASE StartBatch(items) /\ UNCHANGED chan
    <3>1. pc' = "convert" /\ items' = <<>> /\ chan' = chan
      BY <2>2 DEF StartBatch
    <3>2. /\ next' \in 1 .. Len(chunk') + 1
          /\ buffer' = Among(SubSeq(chunk', 1, next' - 1), ValidRecords)
      BY <2>1, <2>2, StartsUnconverted
    <3>. QED  BY <1>0, <3>1, <3>2 DEF Batched
  <2>3. CASE End
    BY <2>3, EndBatched
  <2>4. CASE pc' = "wait" /\ UNCHANGED <<chan, chunk>>
    BY <1>0, <2>1, <2>4 DEF Batched
  <2>. QED  BY <1>4, <2>2, <2>3, <2>4 DEF SecondEmpty
<1>5. CASE Convert
  <2>1. /\ chunk \in Seq(Records) /\ Len(chunk) \in Nat
        /\ next \in 1 .. Len(chunk)
    BY <1>0, <1>5, LenProperties DEF Convert, Batched, TypeOK
  <2>. DEFINE done == SubSeq(chunk, 1, next - 1)
  <2>2. /\ chunk[next] \in Records /\ done \in Seq(Records)
        /\ SubSeq(chunk, 1, next) = Append(done, chunk[next])
    <3>1. \A i \in 1 .. Len(chunk) : chunk[i] \in Records
      BY <2>1, ElementOfSeq
    <3>2. done \in Seq(Records)
      BY <2>1, <3>1, SubSeqProperties
    <3>3. SubSeq(chunk, 1, next) = done \o <<chunk[next]>>
      BY <2>1, SubSeqRecursiveSecond
    <3>. QED  BY <2>1, <3>1, <3>2, <3>3, AppendIsConcat
  <2>3. buffer = Among(done, ValidRecords)
    BY <1>0, <1>5 DEF Batched, Convert
  <2>4. chunk[next].valid <=> chunk[next] \in ValidRecords
    BY <2>2 DEF ValidRecords
  <2>5. /\ buffer' = IF chunk[next].valid THEN Append(buffer, chunk[next]) ELSE buffer
        /\ next' = next + 1 /\ pc' = "convert" /\ UNCHANGED <<chan, items, chunk>>
    BY <1>5 DEF Convert
  <2>6. buffer' = Among(SubSeq(chunk', 1, next' - 1), ValidRecords)
    <3>1. next' - 1 = next
      BY <2>1, <2>5
    <3>2. Among(Append(done, chunk[next]), ValidRecords) =
            IF chunk[next] \in ValidRecords
            THEN Append(Among(done, ValidRecords), chunk[next])
            ELSE Among(done, ValidRecords)
      BY <2>2, AmongAppend
    <3>. HIDE DEF done
    <3>. QED  BY <2>2, <2>3, <2>4, <2>5, <3>1, <3>2
  <2>7. next' \in 1 .. Len(chunk') + 1
    BY <2>1, <2>5
  <2>. QED  BY <1>0, <1>5, <2>5, <2>6, <2>7 DEF Batched, Convert
<1>6. CASE Post
  BY <1>0, <1>6, LenProperties DEF Post, Batched, TypeOK
<1>7. CASE Stored \/ Refused \/ Failed
  BY <1>0, <1>7 DEF Stored, Refused, Failed, NextBatch, Batched
<1>8. CASE RefusedUnread
  BY <1>8, EndBatched DEF RefusedUnread
<1>9. CASE \/ FirstEmpty \/ Wake \/ Elapse \/ UNCHANGED vars
           \/ \E k \in Kinds : SenderGone(k)
  <2>1. /\ UNCHANGED <<chan, items, chunk, next, buffer>>
        /\ pc' \in {"convert", "post"} \/ pc \in {"convert", "post"} => pc' = pc
    BY <1>9 DEF FirstEmpty, Wake, Elapse, vars, SenderGone
  <2>. QED  BY <1>0, <2>1 DEF Batched
<1>. QED
  BY <1>1, <1>2, <1>3, <1>4, <1>5, <1>6, <1>7, <1>8, <1>9 DEF Next

THEOREM RelayInvariance == Spec => []RInv
<1>1. Init => Batched
  BY EmptySeq DEF Init, Batched
<1>2. RInv /\ [Next]_vars => RInv'
  BY TypeStep, BoundStep, FairStep, BatchedStep DEF RInv, IInv
<1>. QED  BY <1>1, <1>2, InvInit, PTL DEF Spec, RInv

LEMMA MoveHead ==
  ASSUME NEW T, NEW a \in Seq(T), NEW b \in Seq(T), b # <<>>
  PROVE  Append(a, Head(b)) \o Tail(b) = a \o b
<1>1. Head(b) \in T /\ Tail(b) \in Seq(T) /\ <<Head(b)>> \in Seq(T)
  BY HeadTailProperties
<1>2. <<Head(b)>> \o Tail(b) = b
  <2>1. Len(b) \in Nat \ {0}
    BY EmptySeq
  <2>2. /\ SubSeq(b, 1, Len(b)) = <<b[1]>> \o SubSeq(b, 2, Len(b))
        /\ Tail(b) = SubSeq(b, 2, Len(b)) /\ SubSeq(b, 1, Len(b)) = b
    BY <2>1, SubSeqRecursiveFirst, TailIsSubSeq, SubSeqFull
  <2>3. Head(b) = b[1]
    OBVIOUS
  <2>. QED  BY <2>2, <2>3
<1>3. Append(a, Head(b)) = a \o <<Head(b)>>
  BY <1>1, AppendIsConcat
<1>. QED  BY <1>1, <1>2, <1>3, ConcatAssociative

LEMMA AppendToConcat ==
  ASSUME NEW T, NEW a \in Seq(T), NEW b \in Seq(T), NEW e \in T
  PROVE  a \o Append(b, e) = Append(a \o b, e)
<1>1. a \o b \in Seq(T) /\ <<e>> \in Seq(T)
  BY ConcatProperties
<1>2. Append(b, e) = b \o <<e>> /\ Append(a \o b, e) = (a \o b) \o <<e>>
  BY <1>1, AppendIsConcat
<1>3. (a \o b) \o <<e>> = a \o (b \o <<e>>)
  BY <1>1, ConcatAssociative
<1>. QED  BY <1>2, <1>3

LEMMA TakeFront ==
  ASSUME NEW T, NEW a \in Seq(T), NEW b \in Seq(T)
  PROVE  /\ Len(a) <= Len(a \o b)
         /\ SubSeq(a, 1, Len(a)) = SubSeq(a \o b, 1, Len(a))
         /\ SubSeq(a \o b, Len(a) + 1, Len(a \o b)) = b
<1>1. /\ a \o b \in Seq(T) /\ Len(a \o b) = Len(a) + Len(b)
      /\ Len(a) \in Nat /\ Len(b) \in Nat
      /\ SubSeq(a, 1, Len(a)) = a /\ SubSeq(b, 1, Len(b)) = b
  BY ConcatProperties, LenProperties, SubSeqFull
<1>2. SubSeq(a \o b, 1, Len(a)) = SubSeq(a, 1, Len(a))
  <2>1. CASE Len(a) = 0
    <3>1. 0 < 1 /\ 0 \in Int /\ 1 \in Int
      OBVIOUS
    <3>. QED  BY <2>1, <3>1, SubSeqEmpty
  <2>2. CASE Len(a) # 0
    <3>1. 1 \in 1 .. Len(a) /\ Len(a) \in 1 .. Len(a)
      BY <1>1, <2>2
    <3>. QED  BY <3>1, SubSeqOfConcat1
  <2>. QED  BY <2>1, <2>2
<1>3. SubSeq(a \o b, Len(a) + 1, Len(a \o b)) = b
  <2>1. CASE Len(b) = 0
    <3>1. b = <<>>
      BY <2>1, EmptySeq
    <3>2. Len(a \o b) < Len(a) + 1 /\ Len(a \o b) \in Int /\ Len(a) + 1 \in Int
      BY <1>1, <2>1
    <3>. QED  BY <3>1, <3>2, SubSeqEmpty
  <2>2. CASE Len(b) # 0
    <3>1. /\ Len(a) + 1 \in Len(a) + 1 .. Len(a) + Len(b)
          /\ Len(a) + Len(b) \in Len(a) + 1 .. Len(a) + Len(b)
          /\ Len(a) + 1 - Len(a) = 1 /\ Len(a) + Len(b) - Len(a) = Len(b)
      BY <1>1, <2>2
    <3>2. SubSeq(a \o b, Len(a) + 1, Len(a) + Len(b)) = SubSeq(b, 1, Len(b))
      BY <3>1, SubSeqOfConcat2
    <3>. QED  BY <1>1, <3>2
  <2>. QED  BY <2>1, <2>2
<1>. QED  BY <1>1, <1>2, <1>3

LEMMA PromiseSelects ==
  /\ \A k, s : Promise!OfKind(k, s) = OfKind(k, s)
  /\ \A s : Promise!ValidOf(s) = Among(s, ValidRecords)
<1>1. \A s, S : Promise!Among(s, S) = Among(s, S)
  BY DEF Promise!Among, Among
<1>. QED  BY <1>1 DEF Promise!OfKind, OfKind, Promise!ValidOf, ValidRecords

LEMMA KindType ==
  ASSUME NEW k \in Kinds
  PROVE  /\ OfKind(k, <<>>) = <<>>
         /\ \A s \in Seq(Records) : OfKind(k, s) \in Seq(Records) /\ Len(OfKind(k, s)) <= Len(s)
         /\ \A s \in Seq(Records), r \in Records :
              OfKind(k, Append(s, r)) =
                IF r.kind = k THEN Append(OfKind(k, s), r) ELSE OfKind(k, s)
<1>. DEFINE S == {r \in Records : r.kind = k}
<1>1. \A s : OfKind(k, s) = Among(s, S)
  BY DEF OfKind
<1>2. \A r \in Records : r \in S <=> r.kind = k
  OBVIOUS
<1>. HIDE DEF S
<1>3. \A s \in Seq(Records) : Among(s, S) \in Seq(Records) /\ Len(Among(s, S)) <= Len(s)
  BY AmongSelects
<1>4. \A s \in Seq(Records), r \in Records :
        Among(Append(s, r), S) = IF r \in S THEN Append(Among(s, S), r) ELSE Among(s, S)
  BY AmongAppend
<1>. QED  BY <1>1, <1>2, <1>3, <1>4, AmongEmpty

LEMMA PendingType ==
  ASSUME TypeOK
  PROVE  /\ Pending \in [Kinds -> Seq(Records)]
         /\ \A k \in Kinds :
              /\ OfKind(k, chunk) \in Seq(Records) /\ OfKind(k, items) \in Seq(Records)
              /\ chan[k] \in Seq(Records)
              /\ OfKind(k, chunk) \o OfKind(k, items) \in Seq(Records)
              /\ Pending[k] = OfKind(k, chunk) \o OfKind(k, items) \o chan[k]
<1>1. ASSUME NEW k \in Kinds
      PROVE  /\ OfKind(k, chunk) \in Seq(Records) /\ OfKind(k, items) \in Seq(Records)
             /\ chan[k] \in Seq(Records)
             /\ OfKind(k, chunk) \o OfKind(k, items) \in Seq(Records)
             /\ OfKind(k, chunk) \o OfKind(k, items) \o chan[k] \in Seq(Records)
  <2>1. /\ OfKind(k, chunk) \in Seq(Records) /\ OfKind(k, items) \in Seq(Records)
        /\ chan[k] \in Seq(Records)
    BY KindType DEF TypeOK
  <2>. QED  BY <2>1, ConcatLength
<1>. QED  BY <1>1 DEF Pending

(* Taking a record moves it within what is pending. *)
LEMMA TakeStutters ==
  ASSUME RInv, NEW k \in Kinds, Take(k), pc \notin {"convert", "post", "ended"}
  PROVE  UNCHANGED Promise!vars
<1>1. /\ chan \in [Kinds -> Seq(Records)] /\ items \in Seq(Records)
      /\ chan[k] \in Seq(Records) /\ chan[k] # <<>> /\ chunk = <<>>
  BY DEF RInv, IInv, TypeOK, Batched, Take
<1>. DEFINE h == Head(chan[k])
            batch == Append(items, h)
<1>2. h \in Records /\ h.kind = k
  <2>1. h \in Records /\ h = chan[k][1] /\ Len(chan[k]) \in Nat \ {0}
    BY <1>1, HeadTailProperties, EmptySeq
  <2>2. 1 \in 1 .. Len(chan[k])
    BY <2>1
  <2>. QED  BY <2>1, <2>2 DEF RInv, Batched
<1>3. chan' = [chan EXCEPT ![k] = Tail(chan[k])]
  BY DEF Take
<1>4. \/ chunk' = batch /\ items' = <<>> /\ pc' = "convert"
      \/ chunk' = <<>> /\ items' = batch /\ pc' = "first"
  BY <1>1 DEF Take, StartBatch
<1>5. ASSUME NEW j \in Kinds
      PROVE  OfKind(j, chunk') \o OfKind(j, items') \o chan'[j] =
               OfKind(j, chunk) \o OfKind(j, items) \o chan[j]
  <2>1. /\ OfKind(j, <<>>) = <<>> /\ OfKind(j, items) \in Seq(Records)
        /\ batch \in Seq(Records) /\ OfKind(j, batch) \in Seq(Records)
        /\ OfKind(j, batch) = IF j = k THEN Append(OfKind(j, items), h) ELSE OfKind(j, items)
    <3>1. /\ OfKind(j, <<>>) = <<>> /\ OfKind(j, items) \in Seq(Records)
          /\ OfKind(j, batch) = IF h.kind = j THEN Append(OfKind(j, items), h)
                                ELSE OfKind(j, items)
      BY <1>1, <1>2, KindType
    <3>2. batch \in Seq(Records)
      BY <1>1, <1>2, AppendProperties
    <3>3. OfKind(j, batch) \in Seq(Records)
      BY <3>2, KindType
    <3>. QED  BY <1>2, <3>1, <3>2, <3>3
  <2>. HIDE DEF h, batch
  <2>2. /\ <<>> \o OfKind(j, items) = OfKind(j, items)
        /\ <<>> \o OfKind(j, batch) = OfKind(j, batch)
        /\ OfKind(j, batch) \o <<>> = OfKind(j, batch)
    BY <2>1, ConcatEmptySeq
  <2>3. OfKind(j, chunk') \o OfKind(j, items') = OfKind(j, batch)
    BY <1>4, <2>1, <2>2
  <2>4. OfKind(j, batch) \o chan'[j] = OfKind(j, items) \o chan[j]
    <3>1. CASE j = k
      <4>1. chan'[j] = Tail(chan[j]) /\ OfKind(j, batch) = Append(OfKind(j, items), Head(chan[j]))
        BY <1>1, <1>3, <2>1, <3>1 DEF h
      <4>. QED  BY <1>1, <2>1, <3>1, <4>1, MoveHead
    <3>2. CASE j # k
      BY <1>1, <1>3, <2>1, <3>2
    <3>. QED  BY <3>1, <3>2
  <2>. QED  BY <1>1, <2>1, <2>2, <2>3, <2>4
<1>6. Pending' = Pending
  BY <1>5, Zenon DEF Pending
<1>7. stored' = stored /\ (pc' # "ended") = (pc # "ended")
  BY <1>4 DEF Take
<1>. QED  BY <1>6, <1>7 DEF Promise!vars

LEMMA AcceptImplements ==
  ASSUME RInv, NEW k \in Kinds, NEW valid \in BOOLEAN, Accept(k, valid)
  PROVE  Pending' # Pending /\ Promise!Accept(k)
<1>. DEFINE r == [kind |-> k, n |-> sent'[k], valid |-> valid]
<1>1. r \in Records /\ r.kind = k
  BY Accepted DEF RInv, IInv
<1>2. /\ chan \in [Kinds -> Seq(Records)] /\ chan' = [chan EXCEPT ![k] = Append(chan[k], r)]
      /\ UNCHANGED <<pc, items, chunk, stored>> /\ pc # "ended" /\ Len(chan[k]) < ChanCap
  BY DEF RInv, IInv, TypeOK, Accept
<1>. HIDE DEF r
<1>. DEFINE front(j) == OfKind(j, chunk) \o OfKind(j, items)
<1>3. /\ Pending \in [Kinds -> Seq(Records)]
      /\ \A j \in Kinds : /\ front(j) \in Seq(Records) /\ chan[j] \in Seq(Records)
                          /\ Pending[j] = front(j) \o chan[j]
  BY PendingType DEF RInv, IInv
<1>4. Pending' = [Pending EXCEPT ![k] = Append(Pending[k], r)]
  <2>1. Pending' = [j \in Kinds |-> front(j) \o chan'[j]]
    BY <1>2, Zenon DEF Pending
  <2>2. front(k) \o chan'[k] = Append(Pending[k], r)
    <3>1. chan'[k] = Append(chan[k], r)
      BY <1>2
    <3>2. PICK f \in Seq(Records) : f = front(k)
      BY <1>3
    <3>3. chan[k] \in Seq(Records) /\ Pending[k] = f \o chan[k]
      BY <1>3, <3>2
    <3>4. f \o Append(chan[k], r) = Append(f \o chan[k], r)
      BY <1>1, <3>3, AppendToConcat
    <3>. QED  BY <3>1, <3>2, <3>3, <3>4
  <2>3. \A j \in Kinds : j # k => front(j) \o chan'[j] = Pending[j]
    BY <1>2, <1>3
  <2>. HIDE DEF front
  <2>. QED  BY <1>3, <2>1, <2>2, <2>3
<1>5. Len(Pending[k]) < ChanCap + BatchSize
  <2>1. /\ Len(Pending[k]) = Len(OfKind(k, chunk)) + Len(OfKind(k, items)) + Len(chan[k])
        /\ Len(OfKind(k, chunk)) \in Nat /\ Len(OfKind(k, items)) \in Nat
        /\ Len(chan[k]) \in Nat
    <3>1. /\ OfKind(k, chunk) \in Seq(Records) /\ OfKind(k, items) \in Seq(Records)
          /\ front(k) \in Seq(Records) /\ chan[k] \in Seq(Records)
          /\ Pending[k] = front(k) \o chan[k]
      BY PendingType DEF RInv, IInv
    <3>2. /\ Len(front(k)) = Len(OfKind(k, chunk)) + Len(OfKind(k, items))
          /\ Len(OfKind(k, chunk)) \in Nat /\ Len(OfKind(k, items)) \in Nat
          /\ Len(chan[k]) \in Nat
      BY <3>1, ConcatProperties, LenProperties
    <3>. HIDE DEF front
    <3>3. Len(Pending[k]) = Len(front(k)) + Len(chan[k])
      BY <3>1, ConcatProperties
    <3>. QED  BY <3>2, <3>3
  <2>2. /\ Len(OfKind(k, chunk)) <= Len(chunk) /\ Len(OfKind(k, items)) <= Len(items)
        /\ Len(chunk) \in Nat /\ Len(items) \in Nat
    BY KindType, LenProperties DEF RInv, IInv, TypeOK
  <2>3. Len(chunk) + Len(items) <= BatchSize
    <3>1. CASE pc \in {"convert", "post"}
      BY <3>1, <2>2, EmptySeq DEF RInv, IInv, BatchBound, Batched
    <3>2. CASE pc \notin {"convert", "post"}
      <4>1. Len(chunk) = 0 /\ Len(items) < BatchSize
        BY <3>2, EmptySeq DEF RInv, IInv, BatchBound, Batched
      <4>. QED  BY <2>2, <4>1, IngestAssumption DEF IngestAssumption
    <3>. QED  BY <3>1, <3>2
  <2>. QED  BY <1>2, <2>1, <2>2, <2>3, IngestAssumption DEF IngestAssumption
<1>6. Pending' # Pending
  <2>1. Len(Append(Pending[k], r)) = Len(Pending[k]) + 1 /\ Len(Pending[k]) \in Nat
    BY <1>1, <1>3, AppendProperties, LenProperties
  <2>2. Pending'[k] = Append(Pending[k], r)
    BY <1>3, <1>4
  <2>. QED  BY <2>1, <2>2
<1>. QED  BY <1>1, <1>2, <1>4, <1>5, <1>6 DEF Promise!Accept

(* The end of a batch settles it. *)
LEMMA SettleImplements ==
  ASSUME RInv, Stored \/ Refused \/ Failed
  PROVE  Pending' # Pending /\ Promise!Settle
<1>1. /\ pc = "post" /\ pc' = "first" /\ chunk' = <<>>
      /\ UNCHANGED <<chan, items>> /\ stored' \in {stored, stored \o buffer}
  BY DEF Stored, Refused, Failed, NextBatch
<1>2. /\ chunk \in Seq(Records) /\ Len(chunk) \in 1 .. BatchSize /\ items = <<>>
      /\ chan \in [Kinds -> Seq(Records)]
  BY <1>1 DEF RInv, IInv, TypeOK, BatchBound, Batched
<1>3. buffer = Among(chunk, ValidRecords)
  <2>1. next - 1 = Len(chunk) /\ buffer = Among(SubSeq(chunk, 1, next - 1), ValidRecords)
    BY <1>1, <1>2 DEF RInv, Batched
  <2>. QED  BY <1>2, <2>1, SubSeqFull
<1>4. ASSUME NEW k \in Kinds
      PROVE  /\ OfKind(k, chunk) \in Seq(Records) /\ chan[k] \in Seq(Records)
             /\ Pending[k] = OfKind(k, chunk) \o chan[k]
             /\ Pending'[k] = chan[k]
  <2>1. /\ OfKind(k, chunk) \in Seq(Records) /\ chan[k] \in Seq(Records)
        /\ OfKind(k, <<>>) = <<>> /\ <<>> \in Seq(Records)
    BY <1>2, KindType, EmptySeq
  <2>2. /\ OfKind(k, chunk) \o <<>> = OfKind(k, chunk)
        /\ <<>> \o <<>> = <<>> /\ <<>> \o chan[k] = chan[k]
    BY <2>1, ConcatEmptySeq
  <2>3. Pending[k] = OfKind(k, chunk) \o OfKind(k, items) \o chan[k]
    BY DEF Pending
  <2>4. Pending'[k] = OfKind(k, chunk') \o OfKind(k, items') \o chan'[k]
    BY DEF Pending
  <2>. QED  BY <1>1, <1>2, <2>1, <2>2, <2>3, <2>4
<1>5. ASSUME NEW k \in Kinds
      PROVE  /\ Promise!IsPrefix(Promise!OfKind(k, chunk), Pending[k])
             /\ Pending'[k] = SubSeq(Pending[k], Len(Promise!OfKind(k, chunk)) + 1,
                                     Len(Pending[k]))
  <2>1. /\ OfKind(k, chunk) \in Seq(Records) /\ chan[k] \in Seq(Records)
        /\ Pending[k] = OfKind(k, chunk) \o chan[k]
        /\ Pending'[k] = chan[k]
    BY <1>4
  <2>2. /\ Len(OfKind(k, chunk)) <= Len(Pending[k])
        /\ SubSeq(OfKind(k, chunk), 1, Len(OfKind(k, chunk))) =
             SubSeq(Pending[k], 1, Len(OfKind(k, chunk)))
        /\ SubSeq(Pending[k], Len(OfKind(k, chunk)) + 1, Len(Pending[k])) = chan[k]
    BY <2>1, TakeFront
  <2>3. Promise!OfKind(k, chunk) = OfKind(k, chunk)
    BY PromiseSelects
  <2>. QED  BY <2>1, <2>2, <2>3 DEF Promise!IsPrefix
<1>6. Pending' = [k \in Kinds |-> SubSeq(Pending[k], Len(Promise!OfKind(k, chunk)) + 1,
                                        Len(Pending[k]))]
  <2>1. Pending' = [k \in Kinds |-> Pending'[k]]
    BY DEF Pending
  <2>. QED  BY <1>5, <2>1, Zenon
<1>7. ASSUME NEW i \in 1 .. Len(chunk)
      PROVE  \E k \in Kinds : /\ chunk[i] \in Promise!Range(Pending[k])
                              /\ Len(OfKind(k, chunk)) # 0
  <2>1. chunk[i] \in Records /\ chunk[i].kind \in Kinds
    <3>1. chunk[i] \in Records
      BY <1>2, ElementOfSeq
    <3>. QED  BY <3>1 DEF Records
  <2>. DEFINE k == chunk[i].kind
  <2>2. \E j \in 1 .. Len(OfKind(k, chunk)) : OfKind(k, chunk)[j] = chunk[i]
    <3>. DEFINE S == {r \in Records : r.kind = k}
    <3>1. OfKind(k, chunk) = Among(chunk, S) /\ chunk[i] \in S
      BY <2>1 DEF OfKind
    <3>. HIDE DEF S, k
    <3>. QED  BY <1>2, <3>1, AmongSelects
  <2>. HIDE DEF k
  <2>3. k \in Kinds
    BY <2>1 DEF k
  <2>4. PICK j \in 1 .. Len(OfKind(k, chunk)) : OfKind(k, chunk)[j] = chunk[i]
    BY <2>2
  <2>5. /\ OfKind(k, chunk) \in Seq(Records) /\ chan[k] \in Seq(Records)
        /\ Pending[k] = OfKind(k, chunk) \o chan[k]
    BY <1>4, <2>3
  <2>6. /\ Pending[k] \in Seq(Records) /\ Len(OfKind(k, chunk)) \in Nat
        /\ Len(chan[k]) \in Nat /\ Len(Pending[k]) = Len(OfKind(k, chunk)) + Len(chan[k])
        /\ DOMAIN Pending[k] = 1 .. Len(Pending[k])
        /\ \A n \in 1 .. Len(OfKind(k, chunk)) + Len(chan[k]) :
             Pending[k][n] = IF n <= Len(OfKind(k, chunk)) THEN OfKind(k, chunk)[n]
                             ELSE chan[k][n - Len(OfKind(k, chunk))]
    BY <2>5, ConcatProperties, LenProperties
  <2>7. j \in DOMAIN Pending[k] /\ Pending[k][j] = chunk[i]
    BY <2>4, <2>6
  <2>. QED  BY <2>3, <2>4, <2>6, <2>7 DEF Promise!Range
<1>8. chunk \in Promise!BoundedSeq(Promise!Unsettled, BatchSize)
  <2>1. chunk \in [1 .. Len(chunk) -> Promise!Unsettled]
    <3>1. chunk \in [1 .. Len(chunk) -> Records]
      BY <1>2, LenProperties
    <3>2. \A i \in 1 .. Len(chunk) : chunk[i] \in Promise!Unsettled
      BY <1>7 DEF Promise!Unsettled
    <3>. QED  BY <3>1, <3>2
  <2>2. Len(chunk) \in 0 .. BatchSize
    BY <1>2
  <2>. QED  BY <2>1, <2>2 DEF Promise!BoundedSeq, Promise!SeqOf
<1>9. Pending' # Pending
  <2>1. 1 \in 1 .. Len(chunk)
    BY <1>2
  <2>2. PICK k \in Kinds : Len(OfKind(k, chunk)) # 0
    BY <1>7, <2>1
  <2>3. /\ Len(OfKind(k, chunk)) \in Nat /\ Len(chan[k]) \in Nat
        /\ Len(Pending[k]) = Len(OfKind(k, chunk)) + Len(chan[k])
    <3>1. /\ OfKind(k, chunk) \in Seq(Records) /\ chan[k] \in Seq(Records)
          /\ Pending[k] = OfKind(k, chunk) \o chan[k]
      BY <1>4
    <3>. QED  BY <3>1, ConcatProperties, LenProperties
  <2>. QED  BY <1>4, <2>2, <2>3
<1>10. stored' \in {stored, stored \o Promise!ValidOf(chunk)}
  BY <1>1, <1>3, PromiseSelects
<1>. QED  BY <1>1, <1>5, <1>6, <1>8, <1>9, <1>10 DEF Promise!Settle

LEMMA EndImplements ==
  ASSUME End, UNCHANGED stored
  PROVE  Promise!Stop
<1>1. \A k \in Kinds : OfKind(k, <<>>) \o OfKind(k, <<>>) \o <<>> = <<>>
  <2>1. <<>> \in Seq(Records) /\ \A k \in Kinds : OfKind(k, <<>>) = <<>>
    BY KindType, EmptySeq
  <2>. QED  BY <2>1, ConcatEmptySeq
<1>2. Pending' = [k \in Kinds |-> <<>>]
  BY <1>1 DEF End, Pending
<1>. QED  BY <1>2 DEF End, Promise!Stop

(* Every accepted record is settled once, in its source's order, in a batch  *)
(* stored whole or not at all, and at most ChanCap + BatchSize of a source   *)
(* are unsettled, for any batch size and capacity (main.rs lines 135-215).   *)
THEOREM Implementation == Spec => ImplementsRelay
<1>1. Init => Promise!Init
  <2>. SUFFICES ASSUME Init PROVE Promise!Init
    OBVIOUS
  <2>1. \A k \in Kinds : OfKind(k, <<>>) \o OfKind(k, <<>>) \o <<>> = <<>>
    <3>1. <<>> \in Seq(Records) /\ \A k \in Kinds : OfKind(k, <<>>) = <<>>
      BY KindType, EmptySeq
    <3>. QED  BY <3>1, ConcatEmptySeq
  <2>2. Pending = [k \in Kinds |-> <<>>]
    BY <2>1 DEF Init, Pending
  <2>. QED  BY <2>2 DEF Init, Promise!Init
<1>2. RInv /\ [Next]_vars => [Promise!Next]_Promise!vars
  <2>. SUFFICES ASSUME RInv, [Next]_vars PROVE [Promise!Next]_Promise!vars
    OBVIOUS
  <2>1. ASSUME NEW k \in Kinds, NEW valid \in BOOLEAN, Accept(k, valid)
        PROVE  Promise!Next
    BY <2>1, AcceptImplements DEF Promise!Next
  <2>2. CASE TakeFirst
    BY <2>2, TakeStutters DEF TakeFirst, RInv, IInv, TypeOK
  <2>3. CASE TakeSecond
    BY <2>3, TakeStutters, OtherKind DEF TakeSecond, PollsSecond, RInv, IInv, TypeOK
  <2>4. CASE SecondEmpty
    <3>1. pc # "ended" /\ chunk = <<>> /\ stored' = stored
      BY <2>4 DEF SecondEmpty, PollsSecond, RInv, Batched
    <3>2. CASE StartBatch(items) /\ UNCHANGED chan
      <4>1. chunk' = items /\ items' = <<>> /\ chan' = chan /\ pc' = "convert"
        BY <3>2 DEF StartBatch
      <4>2. ASSUME NEW k \in Kinds
            PROVE  OfKind(k, items) \o OfKind(k, <<>>) = OfKind(k, <<>>) \o OfKind(k, items)
        <5>1. OfKind(k, <<>>) = <<>> /\ OfKind(k, items) \in Seq(Records)
          BY KindType DEF RInv, IInv, TypeOK
        <5>. QED  BY <5>1, ConcatEmptySeq
      <4>3. Pending' = Pending
        BY <3>1, <4>1, <4>2 DEF Pending
      <4>. QED  BY <3>1, <4>1, <4>3 DEF Promise!vars
    <3>3. CASE End
      BY <3>1, <3>3, EndImplements DEF Promise!Next
    <3>4. CASE pc' = "wait" /\ UNCHANGED <<chan, items, chunk>>
      BY <3>1, <3>4 DEF Promise!vars, Pending
    <3>. QED  BY <2>4, <3>2, <3>3, <3>4 DEF SecondEmpty
  <2>5. CASE Stored \/ Refused \/ Failed
    BY <2>5, SettleImplements DEF Promise!Next
  <2>6. CASE RefusedUnread
    BY <2>6, EndImplements DEF RefusedUnread, Promise!Next
  <2>7. CASE \/ FirstEmpty \/ Wake \/ Elapse \/ Convert \/ Post \/ UNCHANGED vars
             \/ \E k \in Kinds : SenderGone(k)
    <3>1. /\ UNCHANGED <<chan, items, chunk, stored>>
          /\ (pc' # "ended") = (pc # "ended")
      BY <2>7 DEF FirstEmpty, Wake, Elapse, Convert, Post, vars, SenderGone
    <3>. QED  BY <3>1 DEF Promise!vars, Pending
  <2>. QED  BY <2>1, <2>2, <2>3, <2>4, <2>5, <2>6, <2>7 DEF Next
<1>. QED
  BY <1>1, <1>2, RelayInvariance, PTL DEF Spec, ImplementsRelay, Promise!Spec
=============================================================================
