--------------------------- MODULE LifecycleProofs ---------------------------
(* Proofs about Lifecycle, for any set of servers and any bounds.            *)
EXTENDS Lifecycle, TLAPS

(* Only a search with a URL that cannot be a base poisons the settings.      *)
PoisonedByUrl == \A s \in Servers : poisoned[s] => ~baseUrl[s]

(* Crash makes ExitIsClean part of the induction: it must put the HTTP       *)
(* server and the receiver back together.                                    *)
IInv ==
  /\ TypeOK
  /\ ExitIsClean
  /\ PoisonedByUrl

LEMMA WaitStays ==
  ASSUME NEW w \in {1, 2, 4, 8, 10}
  PROVE  (IF w * 2 < 10 THEN w * 2 ELSE 10) \in {1, 2, 4, 8, 10}
OBVIOUS

LEMMA InvInit == Init => IInv
<1>. SUFFICES ASSUME Init PROVE IInv
  OBVIOUS
<1>. QED
  BY LifecycleAssumption
  DEF Init, IInv, TypeOK, ExitIsClean, PoisonedByUrl, LifecycleAssumption

LEMMA InvNext == IInv /\ [Next]_vars => IInv'
<1>. SUFFICES ASSUME IInv, [Next]_vars PROVE IInv'
  OBVIOUS
<1>. USE LifecycleAssumption DEF LifecycleAssumption, IInv, TypeOK, ExitIsClean, PoisonedByUrl
<1>1. ASSUME NEW s \in Servers, ReadSettings(s) PROVE IInv'
  BY <1>1 DEF ReadSettings, Receiver, Alive
<1>2. ASSUME NEW s \in Servers, Sleep(s) PROVE IInv'
  BY <1>2, WaitStays DEF Sleep, Receiver, Alive
<1>3. ASSUME NEW s \in Servers, IngestEnds(s) PROVE IInv'
  BY <1>3 DEF IngestEnds, Receiver, Alive
<1>4. ASSUME NEW s \in Servers, Describe(s) PROVE IInv'
  BY <1>4 DEF Describe, DescribeMissing, DescribeAnswered, DescribeFails, Receiver, Alive
<1>5. ASSUME NEW s \in Servers, Create(s) PROVE IInv'
  BY <1>5 DEF Create, CreateOk, CreateFails, Receiver, Alive
<1>6. ASSUME NEW s \in Servers, Search(s) PROVE IInv'
  <2>1. UNCHANGED <<baseUrl, up, index, step, connectWait, http, crashes>> /\ http[s] = "serving"
    BY <1>6 DEF Search
  <2>2. CASE baseUrl[s] /\ ~poisoned[s]
    <3>1. searches[s] + 1 \in 0 .. MaxRequests
      BY <1>6 DEF Search
    <3>2. searches' = [searches EXCEPT ![s] = searches[s] + 1] /\ poisoned' = poisoned
      BY <1>6, <2>2 DEF Search
    <3>3. searches' \in [Servers -> 0 .. MaxRequests]
      BY <3>1, <3>2
    <3>4. ExitIsClean'
      BY <2>1, <3>2
    <3>. QED  BY <2>1, <3>2, <3>3, <3>4
  <2>3. CASE ~(baseUrl[s] /\ ~poisoned[s])
    <3>1. poisoned' = [poisoned EXCEPT ![s] = TRUE] /\ searches' = searches
      BY <1>6, <2>3 DEF Search
    <3>2. PoisonedByUrl'
      BY <2>1, <2>3, <3>1
    <3>. QED  BY <2>1, <3>1, <3>2
  <2>. QED  BY <2>2, <2>3
<1>7. ASSUME NEW s \in Servers, SearchDone(s) PROVE IInv'
  BY <1>7 DEF SearchDone, Alive
<1>8. ASSUME NEW s \in Servers, Shutdown(s) PROVE IInv'
  BY <1>8 DEF Shutdown
<1>9. ASSUME NEW s \in Servers, Exit(s) PROVE IInv'
  BY <1>9 DEF Exit
<1>10. ASSUME NEW s \in Servers, Crash(s) PROVE IInv'
  BY <1>10 DEF Crash
<1>11. CASE Quickwit
  BY <1>11 DEF Quickwit, QuickwitUp, QuickwitDown
<1>12. CASE UNCHANGED vars
  BY <1>12 DEF vars
<1>. QED
  BY <1>1, <1>2, <1>3, <1>4, <1>5, <1>6, <1>7, <1>8, <1>9, <1>10, <1>11, <1>12
  DEF Next, Describe, Create

(* The invariant that the theorems below follow from.                        *)
THEOREM Invariance == Spec => []IInv
BY InvInit, InvNext, PTL DEF Spec

(* The wait stays within ten seconds, the searches and crashes within their  *)
(* bounds (main.rs lines 226-240).                                           *)
THEOREM TypeCorrect == Spec => []TypeOK
<1>1. IInv => TypeOK
  BY DEF IInv
<1>. QED  BY <1>1, Invariance, PTL

(* No process goes while its receiver ingests, and none leaves a search      *)
(* unanswered, for any number of servers (main.rs lines 371-382).            *)
THEOREM CleanExit == Spec => []ExitIsClean
<1>1. IInv => ExitIsClean
  BY DEF IInv
<1>. QED  BY <1>1, Invariance, PTL

(* A receiver with a URL that can be a base ends only after it was ready:    *)
(* nothing makes it give up (main.rs lines 226-241).                         *)
THEOREM NeverGivesUp == Spec => RetriesForever
<1>1. IInv /\ [Next]_vars =>
        [\A s \in Servers :
           baseUrl[s] /\ step'[s] = "ended" => step[s] \in {"ready", "ended"}]_vars
  <2>. SUFFICES ASSUME IInv, Next, NEW r \in Servers, baseUrl[r], step'[r] = "ended"
                PROVE  step[r] \in {"ready", "ended"}
    OBVIOUS
  <2>. USE DEF IInv, TypeOK, PoisonedByUrl
  <2>1. ASSUME NEW s \in Servers, ReadSettings(s) PROVE step[r] \in {"ready", "ended"}
    BY <2>1 DEF ReadSettings, Receiver
  <2>2. ASSUME NEW s \in Servers, Sleep(s) \/ IngestEnds(s) \/ Describe(s) \/ Create(s)
        PROVE step[r] \in {"ready", "ended"}
    BY <2>2 DEF Sleep, IngestEnds, Describe, DescribeMissing, DescribeAnswered, DescribeFails,
                Create, CreateOk, CreateFails, Receiver
  <2>3. ASSUME NEW s \in Servers, Search(s) \/ SearchDone(s) \/ Shutdown(s) \/ Exit(s)
        PROVE step[r] \in {"ready", "ended"}
    BY <2>3 DEF Search, SearchDone, Shutdown, Exit
  <2>4. ASSUME NEW s \in Servers, Crash(s) PROVE step[r] \in {"ready", "ended"}
    BY <2>4 DEF Crash
  <2>5. CASE Quickwit
    BY <2>5 DEF Quickwit
  <2>. QED  BY <2>1, <2>2, <2>3, <2>4, <2>5 DEF Next, Describe, Create
<1>. QED  BY <1>1, Invariance, PTL DEF Spec, RetriesForever

-----------------------------------------------------------------------------
(* If Quickwit answers no 5xx, a receiver goes on only with an index: found  *)
(* in the answer or created, and never lost again (main.rs lines 83-122).    *)
THEOREM IndexBeforeReady ==
  ASSUME ~OtherStatus
  PROVE  Spec => []ReadyHasIndex
<1>1. Init => ReadyHasIndex
  BY DEF Init, ReadyHasIndex
<1>2. TypeOK /\ ReadyHasIndex /\ [Next]_vars => ReadyHasIndex'
  <2>. SUFFICES ASSUME TypeOK, ReadyHasIndex, [Next]_vars PROVE ReadyHasIndex'
    OBVIOUS
  <2>. USE DEF TypeOK, ReadyHasIndex
  <2>1. ASSUME NEW s \in Servers, ReadSettings(s) \/ Sleep(s) \/ IngestEnds(s) PROVE ReadyHasIndex'
    BY <2>1 DEF ReadSettings, Sleep, IngestEnds, Receiver
  <2>2. ASSUME NEW s \in Servers, Describe(s) PROVE ReadyHasIndex'
    BY <2>2 DEF Describe, DescribeMissing, DescribeAnswered, DescribeFails, Receiver
  <2>3. ASSUME NEW s \in Servers, Create(s) PROVE ReadyHasIndex'
    BY <2>3 DEF Create, CreateOk, CreateFails, Receiver
  <2>4. ASSUME NEW s \in Servers, Search(s) \/ SearchDone(s) \/ Shutdown(s) \/ Exit(s)
        PROVE ReadyHasIndex'
    BY <2>4 DEF Search, SearchDone, Shutdown, Exit
  <2>5. ASSUME NEW s \in Servers, Crash(s) PROVE ReadyHasIndex'
    BY <2>5 DEF Crash
  <2>6. CASE Quickwit
    BY <2>6 DEF Quickwit
  <2>7. CASE UNCHANGED vars
    BY <2>7 DEF vars
  <2>. QED  BY <2>1, <2>2, <2>3, <2>4, <2>5, <2>6, <2>7 DEF Next, Describe, Create
<1>. QED  BY <1>1, <1>2, TypeCorrect, PTL DEF Spec
=============================================================================
