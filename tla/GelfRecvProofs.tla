--------------------------- MODULE GelfRecvProofs ---------------------------
(* Proofs about GelfRecv, for any senders, ids, payloads, number of expiry   *)
(* tasks and channel capacities.                                            *)
EXTENDS GelfRecv, SequenceTheorems, TLAPS

(* A slot replaced or not, an entry keeps its domain and its shape. *)
LEMMA FilledShape ==
  ASSUME TypeOK, pc = "parse", AcceptsChunk
  PROVE  /\ Chunk.id \in Ids
         /\ Entry \in Slots
         /\ Filled \in Slots
         /\ DOMAIN Filled = DOMAIN Entry
         /\ partials[Chunk.id] # None => partials[Chunk.id] = Entry
         /\ partials[Chunk.id] = None => 0 \in DOMAIN Entry /\ 1 \in DOMAIN Entry
<1>1. /\ Chunk \in [type : {"Chunk"}, id : Ids, seqno : 0 .. MaxCount,
                    count : 0 .. MaxCount, content : Pieces]
      /\ Chunk.count >= 2
  <2>1. Chunk \in Payloads /\ Chunk.type = "Chunk" /\ Chunk.count >= 2
    BY DEF TypeOK, AcceptsChunk, Chunk
  <2>. QED  BY <2>1 DEF Payloads
<1>2. Entry \in Slots
  <2>1. CASE partials[Chunk.id] = None
    <3>1. [i \in 0 .. Chunk.count - 1 |-> None] \in SlotsOf(Chunk.count)
      BY <1>1 DEF SlotsOf
    <3>. QED  BY <3>1, <2>1, <1>1 DEF Entry, Slots
  <2>2. CASE partials[Chunk.id] # None
    BY <2>2, <1>1 DEF Entry, TypeOK
  <2>. QED  BY <2>1, <2>2
<1>3. PICK n \in 0 .. MaxCount : Entry \in SlotsOf(n)
  BY <1>2 DEF Slots
<1>4. Filled \in SlotsOf(n) /\ DOMAIN Filled = DOMAIN Entry
  BY <1>1, <1>3 DEF Filled, SlotsOf
<1>5. partials[Chunk.id] = None => 0 \in DOMAIN Entry /\ 1 \in DOMAIN Entry
  BY <1>1, ConstantAssumption DEF Entry, ConstantAssumption
<1>. QED  BY <1>1, <1>2, <1>3, <1>4, <1>5 DEF Slots, Entry

(* The concatenation of a complete entry is a payload again. *)
LEMMA JoinPayload ==
  ASSUME NEW slots \in Slots, Complete(slots)
  PROVE  Join(slots) \in Payloads
<1>1. PICK n \in 0 .. MaxCount : slots \in SlotsOf(n)
  BY DEF Slots
<1>2. slots \in [0 .. n - 1 -> Pieces]
  BY <1>1 DEF SlotsOf, Complete
<1>. QED  BY <1>2, JoinAssumption DEF JoinAssumption

-----------------------------------------------------------------------------
LEMMA TypeStep ==
  ASSUME TypeOK, [Next]_vars
  PROVE  TypeOK'
<1>. USE ConstantAssumption DEF ConstantAssumption
<1>1. ASSUME NEW src \in Srcs, NEW d \in Datagrams, RecvFrom(src, d)
      PROVE  TypeOK'
  BY <1>1 DEF TypeOK, RecvFrom
<1>2. CASE Reject
  BY <1>2 DEF TypeOK, Reject
<1>3. CASE Decode
  <2>1. Chunk.msg \in Msgs
    BY <1>3 DEF TypeOK, Decode, Chunk, Payloads
  <2>. QED  BY <1>3, <2>1 DEF TypeOK, Decode
<1>4. ASSUME NEW t \in Tasks, StoreChunk(t)
      PROVE  TypeOK'
  <2>1. Chunk.id \in Ids /\ Filled \in Slots
    BY <1>4, FilledShape DEF StoreChunk
  <2>2. partials' \in [Ids -> {None} \cup Slots]
    BY <1>4, <2>1 DEF TypeOK, StoreChunk
  <2>3. /\ stage' \in [Tasks -> {"free", "sleeping", "sending", "queued", "panicked"}]
        /\ tid' \in [Tasks -> Ids \cup {None}]
        /\ owner' \in [Ids -> Tasks \cup {None}]
    BY <1>4, <2>1 DEF TypeOK, StoreChunk
  <2>. QED  BY <1>4, <2>2, <2>3 DEF TypeOK, StoreChunk
<1>5. CASE CompleteChunk
  <2>1. Filled \in Slots /\ Chunk.id \in Ids
    BY <1>5, FilledShape DEF CompleteChunk
  <2>2. Join(Filled) \in Payloads
    BY <1>5, <2>1, JoinPayload DEF CompleteChunk
  <2>3. CASE 1 \in DOMAIN Filled
    BY <1>5, <2>1, <2>2, <2>3 DEF TypeOK, CompleteChunk
  <2>4. CASE 1 \notin DOMAIN Filled
    BY <1>5, <2>4 DEF TypeOK, CompleteChunk, DropLoopState
  <2>. QED  BY <2>3, <2>4
<1>6. CASE SendPipe
  BY <1>6 DEF TypeOK, SendPipe
<1>7. CASE SendFails
  BY <1>7 DEF TypeOK, SendFails, DropLoopState
<1>8. CASE Expire
  <2>1. /\ Head(expiry) \in Tasks
        /\ Tail(expiry) \in Seq(Tasks) /\ Len(Tail(expiry)) <= ExpiryCap
    BY <1>8, HeadTailProperties DEF TypeOK, Expire
  <2>2. expiry' \in Seq(Tasks) /\ Len(expiry') <= ExpiryCap
    BY <1>8, <2>1 DEF Expire
  <2>3. /\ partials' \in [Ids -> {None} \cup Slots]
        /\ owner' \in [Ids -> Tasks \cup {None}]
        /\ stage' \in [Tasks -> {"free", "sleeping", "sending", "queued", "panicked"}]
        /\ tid' \in [Tasks -> Ids \cup {None}]
    BY <1>8, <2>1 DEF TypeOK, Expire
  <2>. QED  BY <1>8, <2>2, <2>3 DEF TypeOK, Expire
<1>9. ASSUME NEW t \in Tasks, Elapse(t)
      PROVE  TypeOK'
  BY <1>9 DEF TypeOK, Elapse
<1>10. ASSUME NEW t \in Tasks, SendExpiry(t)
       PROVE  TypeOK'
  BY <1>10 DEF TypeOK, SendExpiry
<1>11. ASSUME NEW t \in Tasks, SendExpiryFails(t)
       PROVE  TypeOK'
  BY <1>11 DEF TypeOK, SendExpiryFails
<1>12. CASE Drain
  BY <1>12 DEF TypeOK, Drain
<1>13. CASE DropReceiver
  <2>1. pipe' \in Seq([src : Srcs, body : Msgs]) /\ Len(pipe') <= PipeCap
    BY <1>13 DEF DropReceiver
  <2>. QED  BY <1>13, <2>1 DEF TypeOK, DropReceiver
<1>14. CASE UNCHANGED vars
  BY <1>14 DEF TypeOK, vars
<1>. QED
  BY <1>1, <1>2, <1>3, <1>4, <1>5, <1>6, <1>7, <1>8, <1>9, <1>10, <1>11,
     <1>12, <1>13, <1>14 DEF Next, Parse

LEMMA TypeInit == Init => TypeOK
BY ConstantAssumption DEF ConstantAssumption, Init, TypeOK

(* Every variable keeps its type: payloads and messages in hand, slots of at *)
(* most MaxCount pieces in the map, both channels within their capacity.     *)
THEOREM TypeCorrect == Spec => []TypeOK
<1>1. Init => TypeOK
  BY TypeInit
<1>2. TypeOK /\ [Next]_vars => TypeOK'
  BY TypeStep
<1>. QED  BY <1>1, <1>2, PTL DEF Spec

-----------------------------------------------------------------------------
(* The inductive invariant.  An entry's pending expiry survives the steps of *)
(* other tasks only because the channel holds each task once and only queued *)
(* ones; two slots at least survive only because an entry is created from a  *)
(* count of two or more.                                                     *)
OneRequest ==
  /\ \A k \in 1 .. Len(expiry) : stage[expiry[k]] = "queued"
  /\ \A j, k \in 1 .. Len(expiry) : expiry[j] = expiry[k] => j = k

IInv ==
  /\ TypeOK
  /\ LoopNeverPanics
  /\ OnlyIncompleteKept
  /\ EntryHasPendingExpiry
  /\ OneRequest

LEMMA CompletedHasTwo ==
  ASSUME IInv, CompleteChunk
  PROVE  1 \in DOMAIN Filled
BY FilledShape DEF IInv, CompleteChunk, OnlyIncompleteKept

LEMMA InvInit == Init => IInv
<1>. SUFFICES ASSUME Init PROVE IInv
  OBVIOUS
<1>1. TypeOK
  BY TypeInit
<1>2. LoopNeverPanics /\ OnlyIncompleteKept /\ EntryHasPendingExpiry
  BY DEF Init, LoopNeverPanics, OnlyIncompleteKept, EntryHasPendingExpiry
<1>3. OneRequest
  BY DEF Init, OneRequest
<1>. QED  BY <1>1, <1>2, <1>3 DEF IInv

LEMMA NoPanicStep ==
  ASSUME IInv, [Next]_vars
  PROVE  LoopNeverPanics'
<1>1. CASE CompleteChunk
  BY <1>1, CompletedHasTwo DEF CompleteChunk, LoopNeverPanics
<1>2. CASE ~CompleteChunk
  BY <1>2 DEF IInv, LoopNeverPanics, Next, Parse, vars, RecvFrom, Reject, Decode,
     StoreChunk, SendPipe, SendFails, Expire, Elapse, SendExpiry, SendExpiryFails,
     Drain, DropReceiver
<1>. QED  BY <1>1, <1>2

LEMMA IncompleteStep ==
  ASSUME IInv, [Next]_vars
  PROVE  OnlyIncompleteKept'
<1>. SUFFICES ASSUME NEW id \in Ids, partials'[id] # None
              PROVE  ~Complete(partials'[id]) /\ 1 \in DOMAIN partials'[id]
  BY DEF OnlyIncompleteKept, Complete
<1>1. ASSUME partials'[id] = partials[id]
      PROVE  ~Complete(partials'[id]) /\ 1 \in DOMAIN partials'[id]
  BY <1>1 DEF IInv, OnlyIncompleteKept
<1>2. CASE partials'[id] # partials[id]
  <2>1. ASSUME NEW t \in Tasks, StoreChunk(t), id = Chunk.id
        PROVE  ~Complete(partials'[id]) /\ 1 \in DOMAIN partials'[id]
    <3>1. partials'[id] = Filled
      BY <2>1 DEF IInv, TypeOK, StoreChunk
    <3>2. 1 \in DOMAIN Filled
      BY <2>1, FilledShape DEF IInv, StoreChunk, OnlyIncompleteKept
    <3>. QED  BY <2>1, <3>1, <3>2 DEF StoreChunk
  <2>2. \E t \in Tasks : StoreChunk(t) /\ id = Chunk.id
    BY <1>2 DEF IInv, TypeOK, Next, Parse, vars, RecvFrom, Reject, Decode, StoreChunk,
       CompleteChunk, SendPipe, SendFails, DropLoopState, Expire, Elapse, SendExpiry,
       SendExpiryFails, Drain, DropReceiver
  <2>. QED  BY <2>1, <2>2
<1>. QED  BY <1>1, <1>2

LEMMA RequestsStep ==
  ASSUME IInv, [Next]_vars
  PROVE  OneRequest'
<1>1. CASE Expire
  <2>1. /\ Head(expiry) = expiry[1]
        /\ Len(expiry') = Len(expiry) - 1 /\ Len(expiry) \in Nat
        /\ \A k \in 1 .. Len(expiry') : expiry'[k] = expiry[k + 1]
    BY <1>1, HeadTailProperties DEF IInv, TypeOK, Expire
  <2>2. \A k \in 1 .. Len(expiry') : expiry'[k] # Head(expiry)
    BY <2>1 DEF IInv, OneRequest
  <2>3. \A t \in Tasks : t # Head(expiry) => stage'[t] = stage[t]
    BY <1>1 DEF IInv, TypeOK, Expire
  <2>4. \A k \in 1 .. Len(expiry') : expiry'[k] \in Tasks
    BY <2>1 DEF IInv, TypeOK
  <2>5. \A k \in 1 .. Len(expiry') : stage'[expiry'[k]] = "queued"
    BY <2>1, <2>2, <2>3, <2>4 DEF IInv, OneRequest
  <2>6. \A j, k \in 1 .. Len(expiry') : expiry'[j] = expiry'[k] => j = k
    BY <2>1 DEF IInv, OneRequest
  <2>. QED  BY <2>5, <2>6 DEF OneRequest
<1>2. ASSUME NEW t \in Tasks, SendExpiry(t)
      PROVE  OneRequest'
  <2>1. /\ Len(expiry') = Len(expiry) + 1 /\ Len(expiry) \in Nat
        /\ \A k \in 1 .. Len(expiry) : expiry'[k] = expiry[k]
        /\ expiry'[Len(expiry) + 1] = t
    BY <1>2, AppendProperties DEF IInv, TypeOK, SendExpiry
  <2>2. \A k \in 1 .. Len(expiry) : expiry[k] # t /\ expiry[k] \in Tasks
    BY <1>2 DEF IInv, TypeOK, OneRequest, SendExpiry
  <2>3. stage'[t] = "queued" /\ \A s \in Tasks : s # t => stage'[s] = stage[s]
    BY <1>2 DEF IInv, TypeOK, SendExpiry
  <2>4. \A k \in 1 .. Len(expiry') : k \in 1 .. Len(expiry) \/ k = Len(expiry) + 1
    BY <2>1
  <2>5. \A k \in 1 .. Len(expiry') : stage'[expiry'[k]] = "queued"
    BY <2>1, <2>2, <2>3, <2>4 DEF IInv, OneRequest
  <2>6. \A j, k \in 1 .. Len(expiry') : expiry'[j] = expiry'[k] => j = k
    BY <2>1, <2>2, <2>4 DEF IInv, OneRequest
  <2>. QED  BY <2>5, <2>6 DEF OneRequest
<1>3. ASSUME expiry' = <<>>
      PROVE  OneRequest'
  BY <1>3 DEF OneRequest
<1>4. ASSUME expiry' = expiry,
             \A t \in Tasks : stage[t] = "queued" => stage'[t] = "queued"
      PROVE  OneRequest'
  <2>1. \A k \in 1 .. Len(expiry) : expiry[k] \in Tasks
    BY DEF IInv, TypeOK
  <2>. QED  BY <1>4, <2>1 DEF IInv, OneRequest
<1>5. ASSUME NEW t \in Tasks, Elapse(t) \/ SendExpiryFails(t) \/ StoreChunk(t)
      PROVE  \A s \in Tasks : stage[s] = "queued" => stage'[s] = "queued"
  BY <1>5 DEF IInv, TypeOK, Elapse, SendExpiryFails, StoreChunk
<1>6. CASE CompleteChunk
  BY <1>3, <1>4, <1>6 DEF CompleteChunk, DropLoopState
<1>7. CASE \/ Reject \/ Decode \/ SendPipe \/ Drain \/ DropReceiver \/ UNCHANGED vars
           \/ \E src \in Srcs, d \in Datagrams : RecvFrom(src, d)
  BY <1>4, <1>7 DEF Reject, Decode, SendPipe, Drain, DropReceiver, vars, RecvFrom
<1>8. CASE \E t \in Tasks : Elapse(t) \/ SendExpiryFails(t) \/ StoreChunk(t)
  BY <1>4, <1>5, <1>8 DEF Elapse, SendExpiryFails, StoreChunk
<1>9. CASE SendFails
  BY <1>3, <1>9 DEF SendFails, DropLoopState
<1>. QED  BY <1>1, <1>2, <1>6, <1>7, <1>8, <1>9 DEF Next, Parse

LEMMA PendingStep ==
  ASSUME IInv, [Next]_vars
  PROVE  EntryHasPendingExpiry'
<1>. DEFINE Pending(id) ==
       /\ Running
       /\ owner[id] \in Tasks
       /\ tid[owner[id]] = id
       /\ \/ stage[owner[id]] \in {"sleeping", "sending"}
          \/ \E k \in 1 .. Len(expiry) : expiry[k] = owner[id]
<1>. SUFFICES ASSUME NEW id \in Ids, partials'[id] # None
              PROVE  Pending(id)'
  BY DEF EntryHasPendingExpiry
<1>0. partials[id] # None => Pending(id)
  BY DEF IInv, EntryHasPendingExpiry
<1>1. CASE Expire
  <2>1. /\ Head(expiry) = expiry[1] /\ Head(expiry) \in Tasks
        /\ Len(expiry') = Len(expiry) - 1 /\ Len(expiry) \in Nat
        /\ \A k \in 1 .. Len(expiry') : expiry'[k] = expiry[k + 1]
    BY <1>1, HeadTailProperties DEF IInv, TypeOK, Expire
  <2>2. id # tid[Head(expiry)] /\ partials[id] # None /\ owner'[id] = owner[id]
    BY <1>1 DEF IInv, TypeOK, Expire
  <2>3. owner[id] # Head(expiry)
    BY <1>0, <2>2
  <2>4. /\ stage'[owner[id]] = stage[owner[id]]
        /\ tid'[owner[id]] = tid[owner[id]]
        /\ Running'
    BY <1>0, <1>1, <2>2, <2>3 DEF IInv, TypeOK, Expire, Running
  <2>5. ASSUME NEW k \in 1 .. Len(expiry), expiry[k] = owner[id]
        PROVE  \E j \in 1 .. Len(expiry') : expiry'[j] = owner[id]
    <3>1. k - 1 \in 1 .. Len(expiry') /\ expiry'[k - 1] = expiry[k]
      BY <2>1, <2>3, <2>5
    <3>. QED  BY <2>5, <3>1
  <2>. QED  BY <1>0, <2>2, <2>4, <2>5
<1>2. ASSUME NEW t \in Tasks, SendExpiry(t)
      PROVE  Pending(id)'
  <2>1. /\ Len(expiry') = Len(expiry) + 1 /\ Len(expiry) \in Nat
        /\ \A k \in 1 .. Len(expiry) : expiry'[k] = expiry[k]
        /\ expiry'[Len(expiry) + 1] = t
    BY <1>2, AppendProperties DEF IInv, TypeOK, SendExpiry
  <2>2. /\ Pending(id) /\ owner'[id] = owner[id] /\ tid' = tid /\ Running'
        /\ owner[id] # t => stage'[owner[id]] = stage[owner[id]]
    BY <1>0, <1>2 DEF IInv, TypeOK, SendExpiry, Running
  <2>3. CASE owner[id] = t
    <3>1. Len(expiry) + 1 \in 1 .. Len(expiry')
      BY <2>1
    <3>. QED  BY <2>1, <2>2, <2>3, <3>1
  <2>4. CASE owner[id] # t
    <3>1. \A k \in 1 .. Len(expiry) : k \in 1 .. Len(expiry')
      BY <2>1
    <3>. QED  BY <2>1, <2>2, <2>4, <3>1
  <2>. QED  BY <2>3, <2>4
<1>3. ASSUME NEW t \in Tasks, StoreChunk(t)
      PROVE  Pending(id)'
  <2>1. Chunk.id \in Ids
    BY <1>3, FilledShape DEF IInv, StoreChunk
  <2>2. Running' /\ expiry' = expiry
    BY <1>3 DEF StoreChunk, Running
  <2>3. CASE partials[Chunk.id] = None
    <3>1. CASE id = Chunk.id
      BY <1>3, <2>1, <2>2, <2>3, <3>1 DEF IInv, TypeOK, StoreChunk
    <3>2. CASE id # Chunk.id
      <4>1. Pending(id) /\ owner'[id] = owner[id]
        BY <1>0, <1>3, <2>3, <3>2 DEF IInv, TypeOK, StoreChunk
      <4>2. owner[id] # t
        <5>1. stage[t] = "free"
          BY <1>3, <2>3 DEF StoreChunk
        <5>2. \A k \in 1 .. Len(expiry) : expiry[k] # t
          BY <5>1 DEF IInv, OneRequest
        <5>. QED  BY <4>1, <5>1, <5>2
      <4>3. stage'[owner[id]] = stage[owner[id]] /\ tid'[owner[id]] = tid[owner[id]]
        BY <1>3, <2>3, <4>1, <4>2 DEF IInv, TypeOK, StoreChunk
      <4>. QED  BY <2>2, <4>1, <4>3
    <3>. QED  BY <3>1, <3>2
  <2>4. CASE partials[Chunk.id] # None
    <3>1. partials[id] # None /\ owner' = owner /\ stage' = stage /\ tid' = tid
      BY <1>3, <2>1, <2>4 DEF IInv, TypeOK, StoreChunk
    <3>. QED  BY <1>0, <2>2, <3>1
  <2>. QED  BY <2>3, <2>4
<1>4. CASE CompleteChunk
  <2>1. 1 \in DOMAIN Filled
    BY <1>4, CompletedHasTwo
  <2>2. /\ partials[id] # None /\ owner'[id] = owner[id]
        /\ UNCHANGED <<stage, expiry, tid>> /\ Running'
    BY <1>4, <2>1 DEF IInv, TypeOK, CompleteChunk, Running
  <2>. QED  BY <1>0, <2>2
<1>5. ASSUME NEW t \in Tasks, Elapse(t)
      PROVE  Pending(id)'
  <2>1. /\ Pending(id) /\ UNCHANGED <<owner, tid, expiry>> /\ Running'
        /\ \A s \in Tasks : stage'[s] = stage[s] \/ stage'[s] = "sending"
    BY <1>0, <1>5 DEF IInv, TypeOK, Elapse, Running
  <2>. QED  BY <2>1
<1>6. ASSUME NEW t \in Tasks, SendExpiryFails(t)
      PROVE  FALSE
  BY <1>0, <1>6 DEF SendExpiryFails
<1>7. CASE SendFails
  BY <1>7 DEF SendFails, DropLoopState
<1>8. CASE \/ Reject \/ Decode \/ SendPipe \/ Drain \/ DropReceiver \/ UNCHANGED vars
           \/ \E src \in Srcs, d \in Datagrams : RecvFrom(src, d)
  <2>1. UNCHANGED <<partials, owner, stage, tid, expiry>> /\ (Running => Running')
    BY <1>8 DEF Reject, Decode, SendPipe, Drain, DropReceiver, vars, RecvFrom, Running
  <2>. QED  BY <1>0, <2>1
<1>. QED
  BY <1>1, <1>2, <1>3, <1>4, <1>5, <1>6, <1>7, <1>8 DEF Next, Parse

LEMMA InvStep == IInv /\ [Next]_vars => IInv'
BY TypeStep, NoPanicStep, IncompleteStep, RequestsStep, PendingStep DEF IInv

THEOREM Invariance == Spec => []IInv
<1>. QED  BY InvInit, InvStep, PTL DEF Spec

(* The loop's task survives every sequence of chunks, however many senders   *)
(* share an id and whatever they claim (gelf.rs lines 132 and 139).          *)
THEOREM NeverPanics == Spec => []LoopNeverPanics
<1>1. IInv => LoopNeverPanics
  BY DEF IInv
<1>. QED  BY <1>1, Invariance, PTL

(* A complete entry never stays in the map (gelf.rs lines 105-111). *)
THEOREM CompleteNotKept == Spec => []OnlyIncompleteKept
<1>1. IInv => OnlyIncompleteKept
  BY DEF IInv
<1>. QED  BY <1>1, Invariance, PTL

(* No entry is without the expiry its own task will ask for, with any number *)
(* of entries alive and the expiry channel of any size (gelf.rs 84-92, 201). *)
THEOREM NoEntryLeaks == Spec => []EntryHasPendingExpiry
<1>1. IInv => EntryHasPendingExpiry
  BY DEF IInv
<1>. QED  BY <1>1, Invariance, PTL

-----------------------------------------------------------------------------
(* GelfRecv implements GelfService: every step of the loop, its expiry tasks *)
(* and the ingest loop is a step of the service or a stutter.                *)
InHand == IF pc = "parse" THEN hand ELSE None
ToSend == IF pc = "send" THEN hand ELSE None

LEMMA HandIsNotNone ==
  ASSUME TypeOK
  PROVE  pc \in {"parse", "send"} => hand # None
BY ConstantAssumption DEF ConstantAssumption, TypeOK

LEMMA SameFragments ==
  ASSUME partials' = partials
  PROVE  Fragments' = Fragments
BY DEF Fragments

LEMMA InitRefines == Init => Service!Init
BY DEF Init, Service!Init, Fragments

LEMMA StoreRefines ==
  ASSUME IInv, NEW t \in Tasks, StoreChunk(t)
  PROVE  Service!Hold \/ Service!Ignore
<1>. DEFINE c == Chunk
<1>1. /\ c \in [type : {"Chunk"}, id : Ids, seqno : 0 .. MaxCount,
                count : 0 .. MaxCount, content : Pieces]
      /\ c = hand.body
  BY DEF IInv, TypeOK, StoreChunk, AcceptsChunk, Chunk, Payloads
<1>2. /\ pc = "parse" /\ pc' = "select" /\ hand # None
      /\ partials' = [partials EXCEPT ![c.id] = Filled]
      /\ partials' \in [Ids -> {None} \cup Slots]
      /\ UNCHANGED <<pipe, open>>
  BY HandIsNotNone, FilledShape DEF IInv, StoreChunk, TypeOK
<1>3. partials \in [Ids -> {None} \cup Slots] /\ None \notin Slots /\ None \notin Pieces
  BY ConstantAssumption DEF ConstantAssumption, IInv, TypeOK
<1>4. /\ Entry \in Slots /\ Filled \in Slots /\ DOMAIN Filled = DOMAIN Entry
      /\ partials[c.id] # None => partials[c.id] = Entry
  BY FilledShape DEF IInv, StoreChunk
<1>5. partials[c.id] = None => \A i \in DOMAIN Entry : Entry[i] = None
  BY DEF Entry
<1>. DEFINE U == [id : Ids, seqno : 0 .. MaxCount, content : Pieces]
<1>6. \A f \in U : f.id # c.id => (f \in Fragments' <=> f \in Fragments)
  BY <1>1, <1>2, <1>3 DEF Fragments
<1>7. \A f \in U : f.id = c.id =>
        (f \in Fragments <=> f.seqno \in DOMAIN Entry /\ Entry[f.seqno] = f.content)
  BY <1>1, <1>3, <1>4, <1>5 DEF Fragments
<1>8. \A f \in U : f.id = c.id =>
        (f \in Fragments' <=> f.seqno \in DOMAIN Filled /\ Filled[f.seqno] = f.content)
  BY <1>1, <1>2, <1>3, <1>4 DEF Fragments
<1>9. CASE c.seqno \in DOMAIN Entry
  <2>1. Filled = [Entry EXCEPT ![c.seqno] = c.content]
    BY <1>9 DEF Filled
  <2>. DEFINE this == [id |-> c.id, seqno |-> c.seqno, content |-> c.content]
  <2>2. this \in U
    BY <1>1
  <2>3. \A f \in U : f \in Fragments' <=>
          \/ f \in Fragments /\ ~(f.id = c.id /\ f.seqno = c.seqno)
          \/ f = this
    BY <1>1, <1>4, <1>6, <1>7, <1>8, <1>9, <2>1
  <2>4. Fragments \subseteq U /\ Fragments' \subseteq U
    BY DEF Fragments
  <2>5. Fragments' = {f \in Fragments : ~(f.id = c.id /\ f.seqno = c.seqno)} \cup {this}
    BY <2>2, <2>3, <2>4
  <2>. QED  BY <1>1, <1>2, <2>5 DEF Service!Hold, Service!Fragment
<1>10. CASE c.seqno \notin DOMAIN Entry
  <2>1. Filled = Entry
    BY <1>10 DEF Filled
  <2>2. Fragments' = Fragments
    BY <1>6, <1>7, <1>8, <2>1 DEF Fragments
  <2>. QED  BY <1>2, <2>2 DEF Service!Ignore
<1>. QED  BY <1>9, <1>10

LEMMA RemovalGivesUp ==
  ASSUME TypeOK, NEW id \in Ids, partials' = [partials EXCEPT ![id] = None]
  PROVE  Fragments' = Service!OfOtherIds(id)
<1>1. \A k \in Ids : k # id => partials'[k] = partials[k]
  BY DEF TypeOK
<1>2. partials'[id] = None
  BY DEF TypeOK
<1>. QED  BY <1>1, <1>2 DEF Fragments, Service!OfOtherIds

LEMMA CompleteRefines ==
  ASSUME IInv, CompleteChunk
  PROVE  Service!Assemble
<1>. DEFINE c == Chunk
<1>1. /\ c \in [type : {"Chunk"}, id : Ids, seqno : 0 .. MaxCount,
                count : 0 .. MaxCount, content : Pieces]
      /\ c = hand.body
  BY DEF IInv, TypeOK, CompleteChunk, AcceptsChunk, Chunk, Payloads
<1>2. /\ pc = "parse" /\ pc' = "parse" /\ hand # None
      /\ hand' = [src |-> hand.src, body |-> Join(Filled)]
      /\ partials' = [partials EXCEPT ![c.id] = None]
      /\ UNCHANGED <<pipe, open>>
  BY HandIsNotNone, CompletedHasTwo DEF IInv, CompleteChunk
<1>3. /\ Filled \in Slots /\ DOMAIN Filled = DOMAIN Entry /\ 1 \in DOMAIN Filled
      /\ partials[c.id] # None => partials[c.id] = Entry
  BY FilledShape, CompletedHasTwo DEF IInv, CompleteChunk
<1>4. PICK n \in 0 .. MaxCount : Filled \in SlotsOf(n)
  BY <1>3 DEF Slots
<1>5. n \in 2 .. MaxCount /\ DOMAIN Filled = 0 .. n - 1
  BY <1>3, <1>4 DEF SlotsOf
<1>6. Filled \in [0 .. n - 1 -> Pieces]
  BY <1>4 DEF SlotsOf, CompleteChunk, Complete
<1>7. partials[c.id] = None => \A i \in DOMAIN Entry : Entry[i] = None
  BY DEF Entry
<1>8. \E i \in DOMAIN Entry : Entry[i] = None
  <2>1. CASE partials[c.id] = None
    BY <1>3, <1>7, <2>1
  <2>2. CASE partials[c.id] # None
    BY <1>1, <1>3, <2>2 DEF IInv, OnlyIncompleteKept, Complete
  <2>. QED  BY <2>1, <2>2
<1>9. c.seqno \in DOMAIN Entry
  <2>1. c.seqno \notin DOMAIN Entry => Filled = Entry
    BY DEF Filled
  <2>. QED  BY <1>8, <2>1 DEF CompleteChunk, Complete
<1>10. /\ Filled[c.seqno] = c.content
       /\ \A i \in 0 .. n - 1 : i # c.seqno => Filled[i] = Entry[i]
  BY <1>3, <1>5, <1>9 DEF Filled
<1>11. partials[c.id] # None
  <2>1. PICK i \in 0 .. 1 : i # c.seqno
    BY <1>1
  <2>2. i \in 0 .. n - 1
    BY <1>5
  <2>3. Entry[i] # None
    BY <1>5, <1>10, <2>1, <2>2 DEF CompleteChunk, Complete
  <2>. QED  BY <1>3, <1>5, <1>7, <2>2, <2>3
<1>12. \A i \in 0 .. n - 1 :
         i # c.seqno => Service!Fragment(c.id, i, Filled[i]) \in Fragments
  <2>. TAKE i \in 0 .. n - 1
  <2>. HAVE i # c.seqno
  <2>1. i \in 0 .. MaxCount /\ Filled[i] \in Pieces
    BY <1>5, <1>6, ConstantAssumption DEF ConstantAssumption
  <2>2. i \in DOMAIN partials[c.id] /\ partials[c.id][i] = Filled[i]
    BY <1>3, <1>5, <1>10, <1>11
  <2>. QED  BY <1>1, <1>11, <2>1, <2>2 DEF Fragments, Service!Fragment
<1>13. Fragments' = Service!OfOtherIds(c.id)
  BY <1>1, <1>2, RemovalGivesUp DEF IInv
<1>. DEFINE parsing == IF pc = "parse" THEN hand ELSE None
<1>14. parsing = hand /\ parsing' = [src |-> hand.src, body |-> Join(Filled)]
  BY <1>2
<1>15. \E m \in 2 .. MaxCount : \E pieces \in [0 .. m - 1 -> Pieces] :
         /\ c.seqno \in 0 .. m - 1
         /\ pieces[c.seqno] = c.content
         /\ \A i \in 0 .. m - 1 :
              i # c.seqno => Service!Fragment(c.id, i, pieces[i]) \in Fragments
         /\ parsing' = [src |-> parsing.src, body |-> Join(pieces)]
  <2>1. c.seqno \in 0 .. n - 1
    BY <1>3, <1>5, <1>9
  <2>. QED  BY <1>5, <1>6, <1>10, <1>12, <1>14, <2>1
<1>. QED
  BY <1>1, <1>2, <1>13, <1>14, <1>15 DEF Service!Assemble

LEMMA StepRefines ==
  ASSUME IInv, [Next]_vars
  PROVE  [Service!Next]_Service!vars
<1>1. ASSUME NEW src \in Srcs, NEW d \in Datagrams, RecvFrom(src, d)
      PROVE  Service!Next
  <2>1. d \in Payloads
    BY ConstantAssumption DEF ConstantAssumption
  <2>2. Service!Receive(src, d)
    BY <1>1, SameFragments DEF RecvFrom, Service!Receive
  <2>. QED  BY <2>1, <2>2 DEF Service!Next
<1>2. CASE Reject
  <2>1. Service!Ignore
    BY <1>2, HandIsNotNone, SameFragments DEF IInv, Reject, Service!Ignore
  <2>. QED  BY <2>1 DEF Service!Next
<1>3. CASE Decode
  <2>1. Service!Decode
    BY <1>3, HandIsNotNone, SameFragments DEF IInv, Decode, Chunk, Service!Decode
  <2>. QED  BY <2>1 DEF Service!Next
<1>4. ASSUME NEW t \in Tasks, StoreChunk(t)
      PROVE  Service!Next
  BY <1>4, StoreRefines DEF Service!Next
<1>5. CASE CompleteChunk
  BY <1>5, CompleteRefines DEF Service!Next
<1>6. CASE SendPipe
  <2>1. Service!HandOver
    BY <1>6, HandIsNotNone, SameFragments DEF IInv, SendPipe, Service!HandOver
  <2>. QED  BY <2>1 DEF Service!Next
<1>7. CASE SendFails
  <2>1. \A id \in Ids : partials'[id] = None
    BY <1>7 DEF SendFails, DropLoopState
  <2>2. Fragments' = {}
    BY <2>1 DEF Fragments
  <2>3. Service!Stop
    BY <1>7, <2>2 DEF SendFails, DropLoopState, Service!Stop
  <2>. QED  BY <2>3 DEF Service!Next
<1>8. CASE Expire
  <2>. DEFINE id == tid[Head(expiry)]
  <2>1. Head(expiry) \in Tasks
    BY <1>8, HeadTailProperties DEF IInv, TypeOK, Expire
  <2>2. partials' = [partials EXCEPT ![id] = None] /\ UNCHANGED <<pc, hand, pipe, open>>
    BY <1>8 DEF Expire
  <2>3. CASE id \in Ids
    <3>1. Service!GiveUp(id)
      BY <2>2, <2>3, RemovalGivesUp DEF IInv, Service!GiveUp
    <3>. QED  BY <2>3, <3>1 DEF Service!Next
  <2>4. CASE id \notin Ids
    <3>1. partials' = partials
      BY <2>2, <2>4 DEF IInv, TypeOK
    <3>. QED  BY <2>2, <3>1, SameFragments DEF Service!vars
  <2>. QED  BY <2>3, <2>4
<1>9. ASSUME NEW t \in Tasks, Elapse(t) \/ SendExpiry(t) \/ SendExpiryFails(t)
      PROVE  UNCHANGED Service!vars
  BY <1>9, SameFragments DEF Elapse, SendExpiry, SendExpiryFails, Service!vars
<1>10. CASE Drain
  <2>1. Service!Consume
    BY <1>10, SameFragments DEF Drain, Service!Consume
  <2>. QED  BY <2>1 DEF Service!Next
<1>11. CASE DropReceiver
  <2>1. Service!Close
    BY <1>11, SameFragments DEF DropReceiver, Service!Close
  <2>. QED  BY <2>1 DEF Service!Next
<1>12. CASE UNCHANGED vars
  BY <1>12, SameFragments DEF vars, Service!vars
<1>. QED
  BY <1>1, <1>2, <1>3, <1>4, <1>5, <1>6, <1>7, <1>8, <1>9, <1>10, <1>11, <1>12
     DEF Next, Parse

(* The loop delivers only what GelfService allows, for every Join, any       *)
(* senders, ids and counts: pieces of one id in their positions, each used   *)
(* once, and no decoded message lost while it is received (gelf.rs 76-208).  *)
THEOREM Implementation == Spec => ImplementsService
<1>1. Init => Service!Init
  BY InitRefines
<1>2. IInv /\ [Next]_vars => [Service!Next]_Service!vars
  BY StepRefines
<1>. QED
  BY <1>1, <1>2, Invariance, PTL DEF Spec, ImplementsService, Service!Spec

-----------------------------------------------------------------------------
LEMMA LoopStep ==
  ASSUME IInv, LoopNeverPanics', [Next]_vars
  PROVE  [Loop!Next]_Loop!vars
<1>. USE DEF Phase, Running, Loop!Next, Loop!vars
<1>1. CASE UNCHANGED <<pc, open>>
  BY <1>1
<1>2. ASSUME NEW src \in Srcs, NEW d \in Datagrams, RecvFrom(src, d)
      PROVE  UNCHANGED Loop!vars
  BY <1>2 DEF RecvFrom
<1>3. CASE Reject
  BY <1>3 DEF Reject
<1>4. CASE Decode
  <2>1. Loop!Take
    BY <1>4 DEF Decode, Loop!Take
  <2>. QED  BY <2>1
<1>5. ASSUME NEW t \in Tasks, StoreChunk(t)
      PROVE  UNCHANGED Loop!vars
  BY <1>5 DEF StoreChunk
<1>6. CASE CompleteChunk
  BY <1>6 DEF CompleteChunk, LoopNeverPanics
<1>7. CASE SendPipe
  <2>1. Loop!Send
    BY <1>7 DEF SendPipe, Loop!Send
  <2>. QED  BY <2>1
<1>8. CASE SendFails
  <2>1. Loop!Fail
    BY <1>8 DEF SendFails, Loop!Fail
  <2>. QED  BY <2>1
<1>9. CASE Expire \/ Drain \/ \E t \in Tasks : Elapse(t) \/ SendExpiry(t) \/ SendExpiryFails(t)
  BY <1>1, <1>9 DEF Expire, Drain, Elapse, SendExpiry, SendExpiryFails
<1>10. CASE DropReceiver
  <2>1. Loop!Drop
    BY <1>10 DEF DropReceiver, Loop!Drop
  <2>. QED  BY <2>1
<1>11. CASE UNCHANGED vars
  BY <1>1, <1>11 DEF vars
<1>. QED
  BY <1>2, <1>3, <1>4, <1>5, <1>6, <1>7, <1>8, <1>9, <1>10, <1>11 DEF Next, Parse

(* The loop ends only when the ingest loop is gone: with any datagrams,      *)
(* counts and capacities, nothing else makes it return or panic (gelf.rs     *)
(* lines 132-145 and 192-194; main.rs line 246).                             *)
THEOREM EndsOnlyWithIngest == Spec => ImplementsReceiver
<1>1. Init => Loop!Init
  BY DEF Init, Loop!Init, Phase, Running
<1>2. IInv /\ IInv' /\ [Next]_vars => [Loop!Next]_Loop!vars
  BY LoopStep DEF IInv
<1>. QED
  BY <1>1, <1>2, Invariance, PTL DEF Spec, ImplementsReceiver, Loop!Spec
=============================================================================
