---------------------------- MODULE YaffleProofs ----------------------------
(* Proofs about Yaffle, for any batch size, channel capacity and number of   *)
(* records, searches and restarts.                                           *)
EXTENDS Yaffle, IngestProofs

-----------------------------------------------------------------------------
(* Records of a source are numbered as it sends them; the places they pass   *)
(* through are ordered by those numbers.                                     *)

Before(r, q) == r.kind = q.kind => r.n < q.n
Sorted(s) == \A i, j \in 1 .. Len(s) : i < j => Before(s[i], s[j])
Below(s, t) == \A i \in 1 .. Len(s), j \in 1 .. Len(t) : Before(s[i], t[j])
Upto(s, bound) == \A i \in 1 .. Len(s) : s[i].n <= bound[s[i].kind]

LEMMA EmptyOrder ==
  ASSUME NEW bound
  PROVE  /\ Sorted(<<>>) /\ Upto(<<>>, bound)
         /\ \A s : Below(s, <<>>) /\ Below(<<>>, s)
BY EmptySeq DEF Sorted, Below, Upto

LEMMA AppendOrder ==
  ASSUME NEW s \in Seq(Records), NEW r \in Records, NEW bound,
         \A i \in 1 .. Len(s) : Before(s[i], r)
  PROVE  /\ Sorted(s) => Sorted(Append(s, r))
         /\ Upto(s, bound) /\ r.n <= bound[r.kind] => Upto(Append(s, r), bound)
<1>1. /\ Len(s) \in Nat /\ Len(Append(s, r)) = Len(s) + 1
      /\ \A i \in 1 .. Len(s) : Append(s, r)[i] = s[i]
      /\ Append(s, r)[Len(s) + 1] = r
  BY AppendProperties, LenProperties
<1>2. ASSUME Sorted(s) PROVE Sorted(Append(s, r))
  <2>. SUFFICES ASSUME NEW i \in 1 .. Len(s) + 1, NEW j \in 1 .. Len(s) + 1, i < j
       PROVE Before(Append(s, r)[i], Append(s, r)[j])
    BY <1>1 DEF Sorted
  <2>1. i \in 1 .. Len(s) /\ (j \in 1 .. Len(s) \/ j = Len(s) + 1)
    BY <1>1
  <2>. QED  BY <1>1, <1>2, <2>1 DEF Sorted
<1>3. ASSUME Upto(s, bound), r.n <= bound[r.kind] PROVE Upto(Append(s, r), bound)
  <2>. SUFFICES ASSUME NEW i \in 1 .. Len(s) + 1
       PROVE Append(s, r)[i].n <= bound[Append(s, r)[i].kind]
    BY <1>1 DEF Upto
  <2>1. i \in 1 .. Len(s) \/ i = Len(s) + 1
    BY <1>1
  <2>. QED  BY <1>1, <1>3, <2>1 DEF Upto
<1>. QED  BY <1>2, <1>3

LEMMA AppendBelow ==
  ASSUME NEW s \in Seq(Records), NEW r \in Records, NEW t
  PROVE  /\ Below(t, s) /\ (\A i \in 1 .. Len(t) : Before(t[i], r)) => Below(t, Append(s, r))
         /\ Below(s, t) /\ (\A i \in 1 .. Len(t) : Before(r, t[i])) => Below(Append(s, r), t)
<1>1. /\ Len(Append(s, r)) = Len(s) + 1
      /\ \A i \in 1 .. Len(s) : Append(s, r)[i] = s[i]
      /\ Append(s, r)[Len(s) + 1] = r
      /\ \A i \in 1 .. Len(s) + 1 : i \in 1 .. Len(s) \/ i = Len(s) + 1
  BY AppendProperties, LenProperties
<1>. QED  BY <1>1 DEF Below

LEMMA TailOrder ==
  ASSUME NEW s \in Seq(Records), s # <<>>, NEW bound
  PROVE  /\ Head(s) \in Records /\ Tail(s) \in Seq(Records) /\ 1 \in 1 .. Len(s) /\ Head(s) = s[1]
         /\ Sorted(s) => Sorted(Tail(s)) /\ \A i \in 1 .. Len(Tail(s)) : Before(Head(s), Tail(s)[i])
         /\ Upto(s, bound) => Upto(Tail(s), bound) /\ Head(s).n <= bound[Head(s).kind]
         /\ \A t : Below(t, s) => Below(t, Tail(s)) /\ \A i \in 1 .. Len(t) : Before(t[i], Head(s))
<1>1. /\ Head(s) \in Records /\ Tail(s) \in Seq(Records)
      /\ Len(Tail(s)) = Len(s) - 1 /\ Len(s) \in Nat \ {0}
      /\ \A i \in 1 .. Len(Tail(s)) : Tail(s)[i] = s[i + 1]
  BY HeadTailProperties, EmptySeq
<1>2. Head(s) = s[1] /\ 1 \in 1 .. Len(s)
  BY <1>1
<1>3. \A i \in 1 .. Len(Tail(s)) : i \in Int /\ i + 1 \in 1 .. Len(s) /\ 1 < i + 1
  BY <1>1
<1>4. \A i, j \in 1 .. Len(Tail(s)) : i < j => i + 1 < j + 1
  BY <1>1
<1>5. ASSUME Sorted(s)
      PROVE  Sorted(Tail(s)) /\ \A i \in 1 .. Len(Tail(s)) : Before(Head(s), Tail(s)[i])
  BY <1>1, <1>2, <1>3, <1>4, <1>5 DEF Sorted
<1>6. ASSUME Upto(s, bound)
      PROVE  Upto(Tail(s), bound) /\ Head(s).n <= bound[Head(s).kind]
  BY <1>1, <1>2, <1>3, <1>6 DEF Upto
<1>7. ASSUME NEW t, Below(t, s)
      PROVE  Below(t, Tail(s)) /\ \A i \in 1 .. Len(t) : Before(t[i], Head(s))
  BY <1>1, <1>2, <1>3, <1>7 DEF Below
<1>. QED  BY <1>1, <1>2, <1>5, <1>6, <1>7

LEMMA ConcatOrder ==
  ASSUME NEW s \in Seq(Records), NEW t \in Seq(Records), NEW bound,
         Sorted(s), Sorted(t), Below(s, t), Upto(s, bound), Upto(t, bound)
  PROVE  /\ Sorted(s \o t) /\ Upto(s \o t, bound)
         /\ \A u : Below(s, u) /\ Below(t, u) => Below(s \o t, u)
<1>1. /\ Len(s) \in Nat /\ Len(t) \in Nat /\ Len(s \o t) = Len(s) + Len(t)
      /\ \A i \in 1 .. Len(s) + Len(t) :
           (s \o t)[i] = IF i <= Len(s) THEN s[i] ELSE t[i - Len(s)]
  BY ConcatProperties, LenProperties
<1>2. \A i \in 1 .. Len(s \o t) :
        \/ i \in 1 .. Len(s) /\ (s \o t)[i] = s[i]
        \/ i > Len(s) /\ i - Len(s) \in 1 .. Len(t) /\ (s \o t)[i] = t[i - Len(s)]
  BY <1>1
<1>3. Sorted(s \o t)
  <2>. SUFFICES ASSUME NEW i \in 1 .. Len(s \o t), NEW j \in 1 .. Len(s \o t), i < j
       PROVE Before((s \o t)[i], (s \o t)[j])
    BY DEF Sorted
  <2>1. CASE j \in 1 .. Len(s)
    <3>1. i \in 1 .. Len(s) /\ (s \o t)[i] = s[i] /\ (s \o t)[j] = s[j]
      BY <1>1, <2>1
    <3>. QED  BY <3>1, <2>1 DEF Sorted
  <2>2. CASE j > Len(s) /\ i \in 1 .. Len(s)
    <3>1. j - Len(s) \in 1 .. Len(t) /\ (s \o t)[i] = s[i] /\ (s \o t)[j] = t[j - Len(s)]
      BY <1>1, <2>2
    <3>. QED  BY <3>1, <2>2 DEF Below
  <2>3. CASE j > Len(s) /\ i > Len(s)
    <3>1. /\ i - Len(s) \in 1 .. Len(t) /\ j - Len(s) \in 1 .. Len(t) /\ i - Len(s) < j - Len(s)
          /\ (s \o t)[i] = t[i - Len(s)] /\ (s \o t)[j] = t[j - Len(s)]
      BY <1>1, <2>3
    <3>. QED  BY <3>1 DEF Sorted
  <2>. QED  BY <1>2, <2>1, <2>2, <2>3
<1>4. Upto(s \o t, bound)
  BY <1>2 DEF Upto
<1>5. ASSUME NEW u, Below(s, u), Below(t, u) PROVE Below(s \o t, u)
  BY <1>2, <1>5 DEF Below
<1>. QED  BY <1>3, <1>4, <1>5

-----------------------------------------------------------------------------
(* The inductive invariant: each place holds its records in the order of     *)
(* their source, and all of them come before those of the places behind.     *)

Stages ==
  /\ pc \in {"convert", "post"} => items = <<>>
  /\ pc \notin {"convert", "post"} => chunk = <<>> /\ buffer = <<>>

Places == {stored, items, chunk, buffer}

Order ==
  /\ \A s \in Places : Sorted(s) /\ Upto(s, sent) /\ \A k \in Kinds : Below(s, chan[k])
  /\ Below(stored, items) /\ Below(stored, chunk) /\ Below(stored, buffer)
  /\ \A k \in Kinds : /\ Sorted(chan[k]) /\ Upto(chan[k], sent)
                      /\ \A i \in 1 .. Len(chan[k]) : chan[k][i].kind = k
  /\ \A i \in 1 .. Len(buffer), j \in next .. Len(chunk) : Before(buffer[i], chunk[j])

OInv == IInv /\ Stages /\ Order

LEMMA OrderInit == Init => OInv
<1>. SUFFICES ASSUME Init PROVE OInv
  OBVIOUS
<1>1. IInv
  BY InvInit
<1>2. Stages
  BY DEF Init, Stages
<1>3. Len(<<>>) = 0
  BY EmptySeq
<1>4. Order
  BY <1>3, EmptyOrder DEF Init, Order, Places
<1>. QED  BY <1>1, <1>2, <1>4 DEF OInv

(* Once a record is taken for sent, nothing else comes behind it. *)
LEMMA OrderAccept ==
  ASSUME OInv, NEW k \in Kinds, NEW valid \in BOOLEAN, Accept(k, valid)
  PROVE  Order'
<1>. DEFINE r == [kind |-> k, n |-> sent'[k], valid |-> valid]
<1>1. /\ sent \in [Kinds -> 0 .. MaxSent] /\ MaxSent \in Nat
      /\ chan \in [Kinds -> Seq(Records)]
      /\ stored \in Seq(Records) /\ items \in Seq(Records) /\ chunk \in Seq(Records)
      /\ buffer \in Seq(Records)
  BY IngestAssumption DEF OInv, IInv, TypeOK, IngestAssumption
<1>2. /\ sent' = [sent EXCEPT ![k] = sent[k] + 1] /\ sent[k] < MaxSent
      /\ chan' = [chan EXCEPT ![k] = Append(chan[k], r)]
      /\ UNCHANGED <<stored, items, chunk, buffer, next>>
  BY DEF Accept, MaySend
<1>3. r \in Records /\ r.kind = k /\ r.n = sent[k] + 1 /\ sent'[k] = sent[k] + 1
  BY <1>1, <1>2 DEF Records
<1>. HIDE DEF r
<1>4. \A j \in Kinds : sent[j] \in Nat /\ sent'[j] \in Nat /\ sent[j] <= sent'[j]
  BY <1>1, <1>2
<1>5. ASSUME NEW s \in Seq(Records), Upto(s, sent)
      PROVE  Upto(s, sent') /\ \A i \in 1 .. Len(s) : Before(s[i], r)
  <2>. SUFFICES ASSUME NEW i \in 1 .. Len(s)
       PROVE  s[i].n <= sent'[s[i].kind] /\ Before(s[i], r)
    BY DEF Upto
  <2>1. s[i] \in Records
    BY ElementOfSeq
  <2>2. s[i].kind \in Kinds /\ s[i].n \in Nat /\ s[i].n <= sent[s[i].kind]
    BY <1>1, <1>5, <2>1 DEF Records, Upto
  <2>. QED  BY <1>3, <1>4, <2>2 DEF Before
<1>6. chan'[k] = Append(chan[k], r) /\ \A j \in Kinds : j # k => chan'[j] = chan[j]
  BY <1>1, <1>2
<1>7. chan[k] \in Seq(Records) /\ Upto(chan[k], sent) /\ Sorted(chan[k])
  BY <1>1 DEF OInv, Order
<1>8. \A i \in 1 .. Len(chan[k]) : Before(chan[k][i], r)
  BY <1>5, <1>7
<1>9. Sorted(chan'[k]) /\ Upto(chan'[k], sent')
  <2>1. Upto(chan[k], sent')
    BY <1>5, <1>7
  <2>2. r.n <= sent'[r.kind]
    BY <1>3, <1>4
  <2>. QED  BY <1>3, <1>6, <1>7, <1>8, <2>1, <2>2, AppendOrder
<1>10. \A i \in 1 .. Len(chan'[k]) : chan'[k][i].kind = k
  <2>1. \A i \in 1 .. Len(chan[k]) : chan[k][i].kind = k
    BY DEF OInv, Order
  <2>2. /\ Len(chan'[k]) = Len(chan[k]) + 1 /\ Len(chan[k]) \in Nat
        /\ \A i \in 1 .. Len(chan[k]) : chan'[k][i] = chan[k][i]
        /\ chan'[k][Len(chan[k]) + 1] = r
    BY <1>3, <1>6, <1>7, AppendProperties, LenProperties
  <2>3. \A i \in 1 .. Len(chan'[k]) : i \in 1 .. Len(chan[k]) \/ i = Len(chan[k]) + 1
    BY <2>2
  <2>. QED  BY <1>3, <2>1, <2>2, <2>3
<1>11. ASSUME NEW s \in Places
       PROVE  Sorted(s) /\ Upto(s, sent') /\ \A j \in Kinds : Below(s, chan'[j])
  <2>1. s \in Seq(Records)
    BY <1>1 DEF Places
  <2>2. Sorted(s) /\ Upto(s, sent) /\ \A j \in Kinds : Below(s, chan[j])
    BY DEF OInv, Order
  <2>3. Upto(s, sent') /\ \A i \in 1 .. Len(s) : Before(s[i], r)
    BY <1>5, <2>1, <2>2
  <2>4. Below(s, chan'[k])
    BY <1>3, <1>6, <1>7, <2>2, <2>3, AppendBelow
  <2>. QED  BY <1>6, <2>2, <2>3, <2>4
<1>12. Places' = Places
  BY <1>2 DEF Places
<1>13. \A j \in Kinds : /\ Sorted(chan'[j]) /\ Upto(chan'[j], sent')
                        /\ \A i \in 1 .. Len(chan'[j]) : chan'[j][i].kind = j
  <2>. SUFFICES ASSUME NEW j \in Kinds, j # k
       PROVE  /\ Sorted(chan'[j]) /\ Upto(chan'[j], sent')
              /\ \A i \in 1 .. Len(chan'[j]) : chan'[j][i].kind = j
    BY <1>9, <1>10
  <2>1. chan'[j] = chan[j] /\ chan[j] \in Seq(Records)
    BY <1>1, <1>6
  <2>. QED  BY <1>5, <2>1 DEF OInv, Order
<1>14. /\ Below(stored, items)' /\ Below(stored, chunk)' /\ Below(stored, buffer)'
       /\ \A i \in 1 .. Len(buffer'), j \in next' .. Len(chunk') : Before(buffer'[i], chunk'[j])
  BY <1>2 DEF OInv, Order, Below
<1>. QED  BY <1>11, <1>12, <1>13, <1>14 DEF Order

(* What is taken comes before what is left in its channel. *)
LEMMA OrderTake ==
  ASSUME OInv, NEW k \in Kinds, Take(k), pc \notin {"convert", "post"}
  PROVE  Order' /\ Stages'
<1>. DEFINE r == Head(chan[k])
            batch == Append(items, r)
<1>1. /\ chan \in [Kinds -> Seq(Records)]
      /\ items \in Seq(Records) /\ stored \in Seq(Records)
  BY DEF OInv, IInv, TypeOK
<1>2. chan[k] \in Seq(Records) /\ chan[k] # <<>>
  BY <1>1 DEF Take
<1>3. /\ chan' = [chan EXCEPT ![k] = Tail(chan[k])]
      /\ UNCHANGED <<stored, sent>>
      /\ \/ pc' = "convert" /\ items' = <<>> /\ chunk' = batch /\ buffer' = <<>>
         \/ pc' = "first" /\ items' = batch /\ UNCHANGED <<chunk, buffer>>
  BY DEF Take, StartBatch
<1>4. chunk = <<>> /\ buffer = <<>>
  BY DEF OInv, Stages
<1>5. chan'[k] = Tail(chan[k]) /\ \A j \in Kinds : j # k => chan'[j] = chan[j]
  BY <1>1, <1>3
<1>6. /\ Sorted(chan[k]) /\ Upto(chan[k], sent)
      /\ \A i \in 1 .. Len(chan[k]) : chan[k][i].kind = k
      /\ Below(stored, chan[k]) /\ Below(items, chan[k])
  BY DEF OInv, Order, Places
<1>7. /\ r \in Records /\ r.kind = k /\ r.n <= sent[r.kind]
      /\ Sorted(chan'[k]) /\ Upto(chan'[k], sent)
      /\ \A i \in 1 .. Len(chan'[k]) : Before(r, chan'[k][i])
      /\ \A i \in 1 .. Len(stored) : Before(stored[i], r)
      /\ \A i \in 1 .. Len(items) : Before(items[i], r)
      /\ \A t : Below(t, chan[k]) => Below(t, chan'[k])
  BY <1>2, <1>5, <1>6, TailOrder
<1>8. \A i \in 1 .. Len(chan'[k]) : chan'[k][i].kind = k
  <2>1. /\ Len(chan'[k]) = Len(chan[k]) - 1 /\ Len(chan[k]) \in Nat
        /\ \A i \in 1 .. Len(chan'[k]) : chan'[k][i] = chan[k][i + 1]
    BY <1>2, <1>5, HeadTailProperties, LenProperties
  <2>2. \A i \in 1 .. Len(chan'[k]) : i + 1 \in 1 .. Len(chan[k])
    BY <2>1
  <2>. QED  BY <1>6, <2>1, <2>2
<1>9. \A j \in Kinds : /\ Sorted(chan'[j]) /\ Upto(chan'[j], sent)
                       /\ \A i \in 1 .. Len(chan'[j]) : chan'[j][i].kind = j
                       /\ \A t : Below(t, chan[j]) => Below(t, chan'[j])
  BY <1>5, <1>7, <1>8 DEF OInv, Order
<1>. HIDE DEF r
<1>10. Sorted(items) /\ Upto(items, sent) /\ Below(stored, items) /\ Sorted(stored) /\ Upto(stored, sent)
  BY DEF OInv, Order, Places
<1>11. Sorted(batch) /\ Upto(batch, sent) /\ Below(stored, batch)
  BY <1>1, <1>7, <1>10, AppendOrder, AppendBelow
<1>12. \A j \in Kinds : Below(batch, chan'[j]) /\ Below(stored, chan'[j])
  <2>. SUFFICES ASSUME NEW j \in Kinds PROVE Below(batch, chan'[j]) /\ Below(stored, chan'[j])
    OBVIOUS
  <2>1. Below(items, chan'[j]) /\ Below(stored, chan'[j])
    BY <1>9 DEF OInv, Order, Places
  <2>2. \A i \in 1 .. Len(chan'[j]) : Before(r, chan'[j][i])
    BY <1>7, <1>9 DEF Before
  <2>. QED  BY <1>1, <1>7, <2>1, <2>2, AppendBelow
<1>. HIDE DEF batch
<1>13. /\ \A t : Below(t, <<>>) /\ Below(<<>>, t)
       /\ Sorted(<<>>) /\ Upto(<<>>, sent) /\ Len(<<>>) = 0
  BY EmptyOrder, EmptySeq
<1>14. Places' \subseteq {stored, batch, <<>>}
  BY <1>3, <1>4 DEF Places
<1>15. \A s \in Places' : Sorted(s) /\ Upto(s, sent) /\ \A j \in Kinds : Below(s, chan'[j])
  BY <1>10, <1>11, <1>12, <1>13, <1>14
<1>16. Below(stored, items)' /\ Below(stored, chunk)' /\ Below(stored, buffer)'
  <2>1. Below(stored, items') /\ Below(stored, chunk') /\ Below(stored, buffer')
    BY <1>3, <1>4, <1>11, <1>13
  <2>. QED  BY <1>3, <2>1 DEF Below
<1>17. \A i \in 1 .. Len(buffer'), j \in next' .. Len(chunk') : Before(buffer'[i], chunk'[j])
  BY <1>3, <1>4, <1>13
<1>18. Order'
  BY <1>3, <1>9, <1>15, <1>16, <1>17 DEF Order
<1>19. Stages'
  BY <1>3, <1>4 DEF Stages
<1>. QED  BY <1>18, <1>19

(* A document joins the buffer from the batch, of which it is the next. *)
LEMMA OrderConvert ==
  ASSUME OInv, Convert
  PROVE  Order' /\ Stages'
<1>1. /\ chunk \in Seq(Records) /\ buffer \in Seq(Records) /\ stored \in Seq(Records)
      /\ next \in 1 .. Len(chunk) /\ Len(chunk) \in Nat
      /\ Len(chunk) \in 1 .. BatchSize /\ next \in Nat
  BY LenProperties DEF OInv, IInv, TypeOK, BatchBound, Convert
<1>2. /\ next' = next + 1
      /\ UNCHANGED <<pc, chan, items, chunk, stored, sent>>
      /\ buffer' = buffer \/ buffer' = Append(buffer, chunk[next])
  BY DEF Convert
<1>. DEFINE r == chunk[next]
<1>3. r \in Records
  BY <1>1, ElementOfSeq
<1>4. /\ Sorted(chunk) /\ Upto(chunk, sent) /\ Below(stored, chunk)
      /\ Sorted(buffer) /\ Upto(buffer, sent) /\ Below(stored, buffer)
      /\ \A j \in Kinds : Below(chunk, chan[j]) /\ Below(buffer, chan[j])
      /\ \A i \in 1 .. Len(buffer), j \in next .. Len(chunk) : Before(buffer[i], chunk[j])
  BY DEF OInv, Order, Places
<1>5. /\ \A i \in 1 .. Len(buffer) : Before(buffer[i], r)
      /\ r.n <= sent[r.kind]
      /\ \A i \in 1 .. Len(stored) : Before(stored[i], r)
      /\ \A j \in Kinds : \A i \in 1 .. Len(chan[j]) : Before(r, chan[j][i])
      /\ \A j \in next + 1 .. Len(chunk) : Before(r, chunk[j])
  <2>1. \A j \in next + 1 .. Len(chunk) : j \in 1 .. Len(chunk) /\ next < j
    BY <1>1
  <2>2. next \in next .. Len(chunk)
    BY <1>1
  <2>. QED  BY <1>1, <1>4, <2>1, <2>2 DEF Upto, Below, Sorted
<1>. HIDE DEF r
<1>6. /\ Sorted(buffer') /\ Upto(buffer', sent) /\ Below(stored, buffer')
      /\ \A j \in Kinds : Below(buffer', chan[j])
  BY <1>1, <1>2, <1>3, <1>4, <1>5, AppendOrder, AppendBelow DEF r
<1>7. \A i \in 1 .. Len(buffer'), j \in next' .. Len(chunk') : Before(buffer'[i], chunk'[j])
  <2>. SUFFICES ASSUME NEW i \in 1 .. Len(buffer'), NEW j \in next + 1 .. Len(chunk)
       PROVE  Before(buffer'[i], chunk[j])
    BY <1>2
  <2>1. j \in next .. Len(chunk)
    BY <1>1
  <2>2. CASE buffer' = buffer
    BY <1>4, <2>1, <2>2
  <2>3. CASE buffer' = Append(buffer, r)
    <3>1. /\ Len(buffer') = Len(buffer) + 1 /\ Len(buffer) \in Nat
          /\ \A m \in 1 .. Len(buffer) : buffer'[m] = buffer[m]
          /\ buffer'[Len(buffer) + 1] = r
      BY <1>1, <1>3, <2>3, AppendProperties, LenProperties
    <3>2. i \in 1 .. Len(buffer) \/ i = Len(buffer) + 1
      BY <3>1
    <3>. QED  BY <1>4, <1>5, <2>1, <3>1, <3>2
  <2>. QED  BY <1>2, <2>2, <2>3 DEF r
<1>8. \A s \in Places' : Sorted(s) /\ Upto(s, sent) /\ \A j \in Kinds : Below(s, chan[j])
  <2>1. Places' \subseteq Places \cup {buffer'}
    BY <1>2 DEF Places
  <2>. QED  BY <1>6, <2>1 DEF OInv, Order
<1>9. Below(stored, items)' /\ Below(stored, chunk)' /\ Below(stored, buffer)'
  <2>1. Below(stored, items) /\ Below(stored, chunk) /\ Below(stored, buffer')
    BY <1>4, <1>6 DEF OInv, Order
  <2>. QED  BY <1>2, <2>1 DEF Below
<1>10. Order'
  BY <1>2, <1>7, <1>8, <1>9 DEF OInv, Order
<1>11. Stages'
  BY <1>2 DEF Convert, OInv, Stages
<1>. QED  BY <1>10, <1>11

(* A batch is over, or everything in the process is: only Quickwit's records *)
(* and perhaps the channels are left.                                        *)
LEMMA OrderCleared ==
  ASSUME OInv, stored' \in {stored, stored \o buffer}, sent' = sent,
         items' = <<>>, chunk' = <<>>, buffer' = <<>>,
         chan' = chan \/ chan' = [k \in Kinds |-> <<>>]
  PROVE  Order'
<1>1. /\ stored \in Seq(Records) /\ buffer \in Seq(Records)
      /\ Sorted(stored) /\ Upto(stored, sent) /\ Below(stored, buffer)
      /\ Sorted(buffer) /\ Upto(buffer, sent)
      /\ \A k \in Kinds : Below(stored, chan[k]) /\ Below(buffer, chan[k])
  BY DEF OInv, IInv, TypeOK, Order, Places
<1>2. /\ \A t : Below(t, <<>>) /\ Below(<<>>, t)
      /\ Sorted(<<>>) /\ Upto(<<>>, sent) /\ Len(<<>>) = 0
  BY EmptyOrder, EmptySeq
<1>3. Sorted(stored') /\ Upto(stored', sent) /\ \A k \in Kinds : Below(stored', chan[k])
  BY <1>1, ConcatOrder
<1>4. \A k \in Kinds : chan'[k] = chan[k] \/ chan'[k] = <<>>
  OBVIOUS
<1>5. \A s \in Places' : Sorted(s) /\ Upto(s, sent') /\ \A k \in Kinds : Below(s, chan'[k])
  BY <1>2, <1>3, <1>4 DEF Places
<1>6. \A k \in Kinds : /\ Sorted(chan'[k]) /\ Upto(chan'[k], sent')
                       /\ \A i \in 1 .. Len(chan'[k]) : chan'[k][i].kind = k
  <2>. SUFFICES ASSUME NEW k \in Kinds
       PROVE /\ Sorted(chan'[k]) /\ Upto(chan'[k], sent')
             /\ \A i \in 1 .. Len(chan'[k]) : chan'[k][i].kind = k
    OBVIOUS
  <2>1. CASE chan'[k] = chan[k]
    BY <2>1 DEF OInv, Order
  <2>2. CASE chan'[k] = <<>>
    BY <1>2, <2>2
  <2>. QED  BY <1>4, <2>1, <2>2
<1>7. Below(stored, items)' /\ Below(stored, chunk)' /\ Below(stored, buffer)'
  BY <1>2 DEF Below
<1>8. \A i \in 1 .. Len(buffer'), j \in next' .. Len(chunk') : Before(buffer'[i], chunk'[j])
  BY <1>2
<1>. QED  BY <1>5, <1>6, <1>7, <1>8 DEF Order

LEMMA OrderStep ==
  ASSUME OInv, [Next]_vars
  PROVE  Order' /\ Stages'
<1>1. ASSUME NEW k \in Kinds, NEW valid \in BOOLEAN, Accept(k, valid)
      PROVE  Order' /\ Stages'
  <2>1. Stages'
    BY <1>1 DEF Accept, OInv, Stages
  <2>. QED  BY <1>1, <2>1, OrderAccept
<1>2. CASE TakeFirst
  BY <1>2, OrderTake DEF TakeFirst, OInv, IInv, TypeOK
<1>3. CASE TakeSecond
  BY <1>3, OrderTake, OtherKind DEF TakeSecond, PollsSecond, OInv, IInv, TypeOK
<1>4. CASE SecondEmpty
  <2>0. pc \notin {"convert", "post"} /\ chunk = <<>> /\ buffer = <<>> /\ UNCHANGED <<stored, sent>>
    BY <1>4 DEF SecondEmpty, PollsSecond, OInv, Stages
  <2>1. CASE StartBatch(items) /\ UNCHANGED chan
    <3>1. /\ pc' = "convert" /\ chunk' = items /\ items' = <<>> /\ buffer' = <<>> /\ chan' = chan
      BY <2>1 DEF StartBatch
    <3>2. /\ \A t : Below(t, <<>>) /\ Below(<<>>, t)
          /\ Sorted(<<>>) /\ Upto(<<>>, sent) /\ Len(<<>>) = 0
      BY EmptyOrder, EmptySeq
    <3>3. \A s \in Places' : Sorted(s) /\ Upto(s, sent) /\ \A k \in Kinds : Below(s, chan[k])
      <4>1. Places' \subseteq Places
        BY <2>0, <3>1 DEF Places
      <4>. QED  BY <4>1 DEF OInv, Order
    <3>4. Below(stored, items)' /\ Below(stored, chunk)' /\ Below(stored, buffer)'
      <4>1. Below(stored, items') /\ Below(stored, chunk') /\ Below(stored, buffer')
        BY <3>1, <3>2 DEF OInv, Order
      <4>. QED  BY <2>0, <4>1 DEF Below
    <3>5. Order'
      BY <2>0, <3>1, <3>2, <3>3, <3>4 DEF OInv, Order
    <3>6. Stages'
      BY <3>1 DEF Stages
    <3>. QED  BY <3>5, <3>6
  <2>2. CASE End
    <3>1. /\ items' = <<>> /\ chunk' = <<>> /\ buffer' = <<>> /\ pc' = "ended"
          /\ chan' = [k \in Kinds |-> <<>>]
      BY <2>2 DEF End
    <3>. QED  BY <2>0, <3>1, OrderCleared DEF Stages
  <2>3. CASE pc' = "wait" /\ UNCHANGED <<chan, items, chunk, next, buffer>>
    <3>1. Order'
      BY <2>0, <2>3 DEF OInv, Order, Places, Below
    <3>. QED  BY <2>0, <2>3, <3>1 DEF Stages
  <2>. QED  BY <1>4, <2>1, <2>2, <2>3 DEF SecondEmpty
<1>5. CASE Convert
  BY <1>5, OrderConvert
<1>6. CASE Stored \/ Refused \/ Failed
  <2>1. /\ pc = "post" /\ items = <<>> /\ stored' \in {stored, stored \o buffer}
        /\ pc' = "first" /\ chunk' = <<>> /\ buffer' = <<>>
        /\ UNCHANGED <<chan, items, sent>>
    BY <1>6 DEF Stored, Refused, Failed, NextBatch, OInv, Stages
  <2>. QED  BY <2>1, OrderCleared DEF Stages
<1>7. CASE RefusedUnread
  <2>1. /\ items' = <<>> /\ chunk' = <<>> /\ buffer' = <<>> /\ pc' = "ended"
        /\ chan' = [k \in Kinds |-> <<>>] /\ UNCHANGED <<stored, sent>>
    BY <1>7 DEF RefusedUnread, End
  <2>. QED  BY <2>1, OrderCleared DEF Stages
<1>8. CASE \/ FirstEmpty \/ Wake \/ Elapse \/ Post \/ UNCHANGED vars
           \/ \E k \in Kinds : SenderGone(k)
  <2>1. /\ UNCHANGED <<chan, items, chunk, next, buffer, stored, sent>>
        /\ pc' \in {"convert", "post"} <=> pc \in {"convert", "post"}
    BY <1>8 DEF FirstEmpty, Wake, Elapse, Post, vars, SenderGone
  <2>2. Order'
    BY <2>1 DEF OInv, Order, Places, Below
  <2>. QED  BY <2>1, <2>2 DEF OInv, Stages
<1>. QED  BY <1>1, <1>2, <1>3, <1>4, <1>5, <1>6, <1>7, <1>8 DEF Next

-----------------------------------------------------------------------------
(* A step of the server is a step of its ingest loop, or leaves that alone,  *)
(* or starts a new process.                                                  *)
LEMMA YaffleStep ==
  ASSUME [YaffleNext]_yaffleVars
  PROVE  [Next]_vars \/ Restart
<1>1. ASSUME NEW k \in Kinds, Receive(k) \/ SendOn(k) \/ SendFails(k)
      PROVE  [Next]_vars
  BY <1>1 DEF Receive, SendOn, SendFails, Next
<1>2. CASE Ingesting(TakeFirst \/ FirstEmpty \/ TakeSecond \/ SecondEmpty \/ Wake \/ Elapse)
  BY <1>2 DEF Ingesting, Next
<1>3. CASE Ingesting(Convert \/ Post \/ Stored \/ Refused \/ Failed \/ RefusedUnread)
  BY <1>3 DEF Ingesting, Next
<1>4. CASE ReceiverEnds \/ Start \/ Search \/ SearchDone \/ Shutdown \/ Exit
  BY <1>4 DEF ReceiverEnds, Start, Search, SearchDone, Shutdown, Exit, Around
<1>5. CASE UNCHANGED yaffleVars
  BY <1>5 DEF yaffleVars
<1>. QED  BY <1>1, <1>2, <1>3, <1>4, <1>5 DEF YaffleNext

LEMMA RestartStep ==
  ASSUME OInv, Restart
  PROVE  OInv'
<1>1. /\ stored' \in {stored, stored \o buffer}
      /\ pc' = "first" /\ turn' = "gelf" /\ deadline' = "off" /\ next' = 1
      /\ items' = <<>> /\ chunk' = <<>> /\ buffer' = <<>> /\ armedFor' = <<>>
      /\ chan' = [k \in Kinds |-> <<>>]
      /\ closed' = [k \in Kinds |-> FALSE]
      /\ passed' = [k \in Kinds |-> 0]
      /\ sent' = sent
  BY DEF Restart
<1>2. <<>> \in Seq(Records) /\ Len(<<>>) = 0
  BY EmptySeq
<1>3. stored' \in Seq(Records) /\ sent \in [Kinds -> 0 .. MaxSent]
  BY <1>1, ConcatLength DEF OInv, IInv, TypeOK
<1>4. TypeOK'
  <2>1. chan' \in [Kinds -> Seq(Records)] /\ \A j \in Kinds : Len(chan'[j]) <= ChanCap
    BY <1>1, <1>2, IngestAssumption DEF IngestAssumption
  <2>. QED  BY <1>1, <1>2, <1>3, <2>1, IngestAssumption DEF TypeOK, IngestAssumption, Kinds
<1>5. BatchBound' /\ TimerCoversBatch'
  BY <1>1, <1>2, IngestAssumption DEF BatchBound, TimerCoversBatch, IngestAssumption
<1>6. FairTurn'
  BY <1>1 DEF FairTurn, PollsSecond, Kinds
<1>7. Order'
  BY <1>1, OrderCleared
<1>8. Stages'
  BY <1>1 DEF Stages
<1>. QED  BY <1>4, <1>5, <1>6, <1>7, <1>8 DEF OInv, IInv

THEOREM YaffleInvariance == YaffleSpec => []OInv
<1>1. YaffleInit => OInv
  BY OrderInit DEF YaffleInit
<1>2. OInv /\ [YaffleNext]_yaffleVars => OInv'
  <2>. SUFFICES ASSUME OInv, [YaffleNext]_yaffleVars PROVE OInv'
    OBVIOUS
  <2>1. CASE [Next]_vars
    BY <2>1, TypeStep, BoundStep, FairStep, OrderStep DEF OInv, IInv
  <2>. QED  BY <2>1, YaffleStep, RestartStep
<1>. QED  BY <1>1, <1>2, PTL DEF YaffleSpec

(* Whatever answers are lost and however often the process dies, no record   *)
(* is stored twice (main.rs lines 190-211).                                  *)
THEOREM NeverStoredTwice == YaffleSpec => []StoredOnce
<1>1. OInv => StoredOnce
  <2>. SUFFICES ASSUME OInv, NEW i \in DOMAIN stored, NEW j \in DOMAIN stored, i # j
       PROVE  stored[i].kind # stored[j].kind \/ stored[i].n # stored[j].n
    BY DEF StoredOnce
  <2>1. stored \in Seq(Records) /\ Sorted(stored)
    BY DEF OInv, IInv, TypeOK, Order, Places
  <2>2. i \in 1 .. Len(stored) /\ j \in 1 .. Len(stored) /\ Len(stored) \in Nat
    BY <2>1, LenProperties
  <2>3. stored[i] \in Records /\ stored[j] \in Records
    BY <2>1, <2>2, ElementOfSeq
  <2>4. stored[i].n \in Int /\ stored[j].n \in Int
    BY <2>3 DEF Records
  <2>5. i < j \/ j < i
    BY <2>2
  <2>. QED  BY <2>1, <2>2, <2>4, <2>5 DEF Sorted, Before
<1>. QED  BY <1>1, YaffleInvariance, PTL

(* Two channels and a batch at most.                                         *)
LEMMA Sums == ASSUME NEW a \in Nat, NEW b \in Nat, NEW c \in Nat, NEW d \in Nat,
                     NEW m \in Nat, NEW n \in Nat, a <= m, b <= m, c + d <= n
              PROVE a + b + c + d <= 2 * m + n
OBVIOUS

(* A crash loses of the accepted records no more than two channels and one   *)
(* batch hold, and one record less while the batch is gathered, for every    *)
(* batch size and capacity (main.rs lines 126-148 and 243-244).              *)
THEOREM LossBounded == YaffleSpec => []LossBound
<1>1. OInv => LossBound
  <2>. SUFFICES ASSUME OInv PROVE LossBound
    OBVIOUS
  <2>1. /\ chan \in [Kinds -> Seq(Records)] /\ items \in Seq(Records) /\ chunk \in Seq(Records)
        /\ \A k \in Kinds : Len(chan[k]) <= ChanCap
        /\ Len(items) < BatchSize
    BY DEF OInv, IInv, TypeOK, BatchBound
  <2>2. /\ Len(chan["gelf"]) \in Nat /\ Len(chan["gelf"]) <= ChanCap
        /\ Len(chan["syslog"]) \in Nat /\ Len(chan["syslog"]) <= ChanCap
        /\ Len(items) \in Nat /\ Len(chunk) \in Nat
    BY <2>1, LenProperties DEF Kinds
  <2>3. ChanCap \in Nat /\ BatchSize \in Nat \ {0}
    BY IngestAssumption DEF IngestAssumption
  <2>4. Len(<<>>) = 0
    BY EmptySeq
  <2>5. CASE pc \in {"convert", "post"}
    <3>1. Len(items) + Len(chunk) <= BatchSize
      BY <2>2, <2>3, <2>4, <2>5 DEF OInv, IInv, BatchBound, Stages
    <3>. QED  BY <2>2, <2>3, <2>5, <3>1, Sums DEF LossBound
  <2>6. CASE pc \notin {"convert", "post"}
    <3>1. Len(items) + Len(chunk) <= BatchSize - 1 /\ BatchSize - 1 \in Nat
      BY <2>1, <2>2, <2>3, <2>4, <2>6 DEF OInv, Stages
    <3>. QED  BY <2>2, <2>3, <2>6, <3>1, Sums DEF LossBound
  <2>. QED  BY <2>5, <2>6
<1>. QED  BY <1>1, YaffleInvariance, PTL
=============================================================================
