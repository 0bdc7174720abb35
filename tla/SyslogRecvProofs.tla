-------------------------- MODULE SyslogRecvProofs --------------------------
(***************************************************************************)
(* What the syslog receive task does with a datagram of any length, for      *)
(* every calendar and every pair of times.                                   *)
(***************************************************************************)
EXTENDS SyslogRecv, DataInduction, SequenceTheorems

-----------------------------------------------------------------------------
(* Whole numbers: division by a positive one, which may not be a literal.    *)

LEMMA DivMod ==
  ASSUME NEW y \in Nat \ {0}, NEW x \in Int
  PROVE  /\ x = y * (x \div y) + (x % y)
         /\ x % y \in 0 .. y - 1
         /\ x \div y \in Int
OBVIOUS

LEMMA QuotientUnique ==
  ASSUME NEW y \in Nat \ {0}, NEW a \in Int, NEW b \in Int,
         NEW r \in 0 .. y - 1, NEW q \in 0 .. y - 1,
         y * a + r = y * b + q
  PROVE  a = b /\ r = q
<1>1. y * (a - b) = q - r /\ y * (b - a) = r - q
  OBVIOUS
<1>2. ~(a - b >= 1)
  <2>1. a - b >= 1 => y * (a - b) >= y
    OBVIOUS
  <2>. QED  BY <1>1, <2>1
<1>3. ~(b - a >= 1)
  <2>1. b - a >= 1 => y * (b - a) >= y
    OBVIOUS
  <2>. QED  BY <1>1, <2>1
<1>4. a = b
  BY <1>2, <1>3
<1>. QED  BY <1>1, <1>4

LEMMA DivModUnique ==
  ASSUME NEW y \in Nat \ {0}, NEW k \in Int, NEW r \in 0 .. y - 1
  PROVE  (k * y + r) % y = r /\ (k * y + r) \div y = k
<1>. DEFINE x == k * y + r
<1>1. x \in Int
  OBVIOUS
<1>2. x = y * (x \div y) + (x % y) /\ x % y \in 0 .. y - 1 /\ x \div y \in Int
  BY <1>1, DivMod
<1>. HIDE DEF x
<1>3. x = y * k + r
  BY DEF x
<1>. QED  BY <1>2, <1>3, QuotientUnique DEF x

-----------------------------------------------------------------------------
(* The calendar. *)

LEMMA Calendar ==
  /\ YearHours \in Nat \ {0} /\ DstStart \in Nat /\ DstEnd \in Nat
  /\ 0 < DstStart /\ DstStart + 1 < DstEnd /\ DstEnd + 1 < YearHours
  /\ None \notin Int
BY SyslogTimeAssumption DEF SyslogTimeAssumption

LEMMA OffsetType ==
  \A t \in Int : Offset(t) \in {0, 1} /\ LocalOf(t) \in Int /\ LocalOf(t) \in {t, t + 1}
BY DEF Offset, LocalOf

(* The zone does not move a time into another year, so that the local time   *)
(* within the year is the time within the year and its offset.               *)
LEMMA WithinYear ==
  ASSUME NEW t \in Int
  PROVE  /\ (t % YearHours) + Offset(t) \in 0 .. YearHours - 1
         /\ LocalOf(t) = (t \div YearHours) * YearHours + ((t % YearHours) + Offset(t))
         /\ Written(t) = (t % YearHours) + Offset(t)
         /\ YearOf(t) = t \div YearHours
<1>. DEFINE y == YearHours  q == t \div y  r == t % y
<1>1. t = y * q + r /\ r \in 0 .. y - 1 /\ q \in Int
  BY Calendar, DivMod
<1>2. Offset(t) = IF r \in DstStart .. DstEnd - 1 THEN 1 ELSE 0
  BY DEF Offset
<1>3. r + Offset(t) \in 0 .. y - 1
  BY <1>1, <1>2, Calendar
<1>4. LocalOf(t) = q * y + (r + Offset(t))
  <2>. HIDE DEF y, q, r
  <2>1. Offset(t) \in Int /\ y \in Int
    BY OffsetType, Calendar DEF y
  <2>2. LocalOf(t) = t + Offset(t)
    BY DEF LocalOf
  <2>. QED  BY <1>1, <2>1, <2>2
<1>5. LocalOf(t) % y = r + Offset(t) /\ LocalOf(t) \div y = q
  <2>. HIDE DEF q, r
  <2>1. y \in Nat \ {0} /\ q \in Int
    BY <1>1, Calendar
  <2>. QED  BY <2>1, <1>3, <1>4, DivModUnique
<1>. QED  BY <1>3, <1>4, <1>5 DEF Written, YearOf

(* What was written in some year names a time of any other year.             *)
LEMMA FromLocalFinds ==
  ASSUME NEW t \in Int, NEW year \in Int
  PROVE  year * YearHours + (t % YearHours) \in FromLocal(year * YearHours + Written(t))
<1>. DEFINE y == YearHours  u == year * y + (t % y)
<1>1. t % y \in 0 .. y - 1 /\ y \in Nat \ {0}
  BY Calendar, DivMod
<1>2. u \in Int /\ u % y = t % y
  <2>. DEFINE r == t % y
  <2>. HIDE DEF y, r
  <2>1. y \in Nat \ {0} /\ r \in 0 .. y - 1
    BY <1>1 DEF r
  <2>2. year * y \in Int
    BY <2>1
  <2>3. (year * y + r) % y = r
    BY <2>1, DivModUnique
  <2>. QED  BY <2>1, <2>2, <2>3 DEF r
<1>3. Offset(u) = Offset(t)
  BY <1>2 DEF Offset
<1>4. LocalOf(u) = u + Offset(t) /\ Offset(t) \in {0, 1}
  BY <1>2, <1>3, OffsetType DEF LocalOf
<1>5. year * y + Written(t) = u + Offset(t)
  <2>1. Written(t) = (t % y) + Offset(t)
    BY WithinYear
  <2>2. year * y \in Int
    BY <1>1
  <2>. QED  BY <1>1, <1>4, <2>1, <2>2
<1>. HIDE DEF u, y
<1>6. u \in {(u + Offset(t)) - 1, u + Offset(t)}
  BY <1>2, <1>4
<1>7. u \in FromLocal(u + Offset(t))
  BY <1>4, <1>6 DEF FromLocal
<1>. QED  BY <1>5, <1>7 DEF u, y

LEMMA EarliestOf ==
  ASSUME NEW local \in Int, FromLocal(local) # {}
  PROVE  /\ Earliest(FromLocal(local)) \in FromLocal(local)
         /\ \A t \in FromLocal(local) : Earliest(FromLocal(local)) <= t
<1>1. FromLocal(local) \subseteq {local - 1, local}
  BY DEF FromLocal
<1>2. \E t \in FromLocal(local) : \A u \in FromLocal(local) : t <= u
  <2>1. CASE local - 1 \in FromLocal(local)
    BY <1>1, <2>1
  <2>2. CASE local - 1 \notin FromLocal(local)
    BY <1>1, <2>2
  <2>. QED  BY <2>1, <2>2
<1>. QED  BY <1>2 DEF Earliest

(* The parser finds a time of the year of its clock, which is not negative.  *)
LEMMA Rfc3164Found ==
  ASSUME NEW sent \in Nat, NEW now \in Nat
  PROVE  LET local == YearOf(now) * YearHours + Written(sent)
             time == Rfc3164Time(Written(sent), now)
         IN /\ local \in Nat
            /\ time \in Nat /\ time \in FromLocal(local)
            /\ \A t \in FromLocal(local) : time <= t
<1>. DEFINE y == YearHours
            local == YearOf(now) * y + Written(sent)
            time == Rfc3164Time(Written(sent), now)
<1>1. YearOf(now) \in Nat
  <2>1. now = y * (now \div y) + (now % y) /\ now % y \in 0 .. y - 1 /\ now \div y \in Int
    BY Calendar, DivMod
  <2>2. now \div y >= 0
    BY Calendar
  <2>. QED  BY <2>1, <2>2, WithinYear
<1>2. Written(sent) \in 0 .. y - 1
  BY WithinYear
<1>3. local \in Nat
  BY <1>1, <1>2, Calendar
<1>4. FromLocal(local) # {}
  BY <1>1, FromLocalFinds
<1>. HIDE DEF local
<1>5. time = Earliest(FromLocal(local))
  BY <1>4 DEF Rfc3164Time, local
<1>6. time \in FromLocal(local) /\ \A t \in FromLocal(local) : time <= t
  BY <1>3, <1>4, <1>5, EarliestOf
<1>7. time \in {local - 1, local} /\ LocalOf(time) = local
  BY <1>6 DEF FromLocal
<1>8. time # -1
  <2>1. LocalOf(-1) = -1
    <3>1. (-1 * y + (y - 1)) % y = y - 1
      BY Calendar, DivModUnique
    <3>2. -1 % y = y - 1
      BY <3>1, Calendar
    <3>3. Offset(-1) = 0
      BY <3>2, Calendar DEF Offset
    <3>. QED  BY <3>3 DEF LocalOf
  <2>. QED  BY <2>1, <1>3, <1>7
<1>9. time \in Nat
  BY <1>3, <1>7, <1>8
<1>. QED  BY <1>3, <1>6, <1>9 DEF local

-----------------------------------------------------------------------------
(* Sequences of tokens and the parts that are taken off their front.         *)

After(s, n) == SubSeq(s, n + 1, Len(s))

LEMMA NoneIsNoToken == None \notin Tokens /\ None \notin Seq(Tokens)
BY SyslogAssumption DEF SyslogAssumption

LEMMA TokenSets ==
  /\ Digits \subseteq Tokens /\ HostTokens \subseteq Tokens /\ IdentTokens \subseteq Tokens
  /\ None \notin Digits /\ None \notin HostTokens /\ None \notin IdentTokens
  /\ Priorities \subseteq Tokens
<1>1. /\ Digits \subseteq Tokens /\ HostTokens \subseteq Tokens /\ IdentTokens \subseteq Tokens
      /\ Priorities \subseteq Tokens
  BY DEF HostTokens, IdentTokens, Tokens
<1>. QED  BY <1>1, NoneIsNoToken

LEMMA AtFacts ==
  ASSUME NEW s \in Seq(Tokens), NEW i \in Nat \ {0}
  PROVE  /\ i <= Len(s) => At(s, i) = s[i] /\ At(s, i) \in Tokens /\ At(s, i) # None
         /\ i > Len(s) => At(s, i) = None
<1>1. DOMAIN s = 1 .. Len(s) /\ Len(s) \in Nat /\ \A j \in 1 .. Len(s) : s[j] \in Tokens
  BY LenProperties, ElementOfSeq
<1>. QED  BY <1>1, NoneIsNoToken DEF At

LEMMA AfterFacts ==
  ASSUME NEW s \in Seq(Tokens), NEW n \in 0 .. Len(s)
  PROVE  /\ After(s, n) \in Seq(Tokens)
         /\ Len(After(s, n)) = Len(s) - n
         /\ \A i \in 1 .. Len(s) - n : After(s, n)[i] = s[n + i]
         /\ \A i \in Nat \ {0} : At(After(s, n), i) = At(s, n + i)
<1>1. Len(s) \in Nat /\ \A i \in 1 .. Len(s) : s[i] \in Tokens
  BY LenProperties, ElementOfSeq
<1>2. /\ After(s, n) \in Seq(Tokens)
      /\ Len(After(s, n)) = Len(s) - n
      /\ \A i \in 1 .. Len(s) - n : After(s, n)[i] = s[n + i]
  <2>1. \A i \in n + 1 .. Len(s) : s[i] \in Tokens
    BY <1>1
  <2>2. /\ SubSeq(s, n + 1, Len(s)) \in Seq(Tokens)
        /\ Len(SubSeq(s, n + 1, Len(s))) = IF n + 1 <= Len(s) THEN Len(s) - (n + 1) + 1 ELSE 0
        /\ \A i \in 1 .. Len(s) - (n + 1) + 1 : SubSeq(s, n + 1, Len(s))[i] = s[n + 1 + i - 1]
    BY <1>1, <2>1, SubSeqProperties
  <2>3. \A i \in Int : n + 1 + i - 1 = n + i
    OBVIOUS
  <2>. QED  BY <1>1, <2>2, <2>3 DEF After
<1>3. ASSUME NEW i \in Nat \ {0} PROVE At(After(s, n), i) = At(s, n + i)
  <2>1. n + i \in Nat \ {0} /\ (i <= Len(s) - n <=> n + i <= Len(s))
    BY <1>1
  <2>2. CASE i <= Len(s) - n
    BY <1>1, <1>2, <2>1, <2>2, AtFacts
  <2>3. CASE ~(i <= Len(s) - n)
    BY <1>1, <1>2, <2>1, <2>3, AtFacts
  <2>. QED  BY <2>2, <2>3
<1>. QED  BY <1>2, <1>3

LEMMA AfterAfter ==
  ASSUME NEW s \in Seq(Tokens), NEW n \in 0 .. Len(s), NEW m \in 0 .. Len(s) - n
  PROVE  After(After(s, n), m) = After(s, n + m)
<1>. DEFINE t == After(s, n)
<1>1. Len(s) \in Nat
  BY LenProperties
<1>2. /\ t \in Seq(Tokens) /\ Len(t) = Len(s) - n
      /\ \A i \in 1 .. Len(s) - n : t[i] = s[n + i]
  BY AfterFacts
<1>. HIDE DEF t
<1>3. m \in 0 .. Len(t)
  BY <1>2
<1>4. /\ After(t, m) \in Seq(Tokens) /\ Len(After(t, m)) = Len(t) - m
      /\ \A i \in 1 .. Len(t) - m : After(t, m)[i] = t[m + i]
  BY <1>2, <1>3, AfterFacts
<1>5. n + m \in 0 .. Len(s)
  BY <1>1
<1>6. /\ After(s, n + m) \in Seq(Tokens) /\ Len(After(s, n + m)) = Len(s) - (n + m)
      /\ \A i \in 1 .. Len(s) - (n + m) : After(s, n + m)[i] = s[(n + m) + i]
  BY <1>5, AfterFacts
<1>7. Len(After(t, m)) = Len(After(s, n + m))
  BY <1>1, <1>2, <1>4, <1>6
<1>8. ASSUME NEW i \in 1 .. Len(After(t, m)) PROVE After(t, m)[i] = After(s, n + m)[i]
  <2>1. m + i \in 1 .. Len(s) - n /\ i \in 1 .. Len(t) - m /\ i \in 1 .. Len(s) - (n + m)
    BY <1>1, <1>2, <1>4
  <2>2. n + (m + i) = (n + m) + i
    OBVIOUS
  <2>. QED  BY <1>2, <1>4, <1>6, <2>1, <2>2
<1>9. After(t, m) = After(s, n + m)
  BY <1>4, <1>6, <1>7, <1>8, SeqEqual
<1>. QED  BY <1>9 DEF t

(* A sequence has one prefix that is made of the tokens and that none of     *)
(* them follows: that it has one at all takes induction on its length.       *)
LEMMA SpanFacts ==
  ASSUME NEW s \in Seq(Tokens), NEW tokens, None \notin tokens
  PROVE  /\ Span(s, tokens) \in 0 .. Len(s)
         /\ \A i \in 1 .. Span(s, tokens) : s[i] \in tokens
         /\ At(s, Span(s, tokens) + 1) \notin tokens
<1>. DEFINE ends == {n \in 0 .. Len(s) : At(s, n + 1) \notin tokens}
<1>1. Len(s) \in Nat
  BY LenProperties
<1>2. Len(s) \in ends
  BY <1>1, AtFacts
<1>3. ends \subseteq Nat /\ ends # {}
  BY <1>1, <1>2
<1>4. ends \subseteq 0 .. Len(s) /\ \A m \in 0 .. Len(s) : m \notin ends => At(s, m + 1) \in tokens
  OBVIOUS
<1>5. \A n \in ends : At(s, n + 1) \notin tokens
  OBVIOUS
<1>. HIDE DEF ends
<1>6. PICK n \in ends : \A m \in ends : n <= m
  BY <1>3, Least
<1>7. ASSUME NEW i \in 1 .. n PROVE s[i] \in tokens
  <2>1. n \in 0 .. Len(s)
    BY <1>4
  <2>2. i - 1 \in 0 .. Len(s) /\ ~(n <= i - 1) /\ i \in Nat \ {0} /\ i <= Len(s) /\ (i - 1) + 1 = i
    BY <1>1, <2>1
  <2>3. At(s, i) \in tokens
    BY <1>4, <1>6, <2>2
  <2>. QED  BY <2>2, <2>3, AtFacts
<1>. QED  BY <1>4, <1>5, <1>7 DEF Span

LEMMA SpanIs ==
  ASSUME NEW s \in Seq(Tokens), NEW tokens, None \notin tokens,
         NEW n \in 0 .. Len(s), \A i \in 1 .. n : s[i] \in tokens, At(s, n + 1) \notin tokens
  PROVE  Span(s, tokens) = n
<1>. DEFINE k == Span(s, tokens)
<1>1. k \in 0 .. Len(s) /\ (\A i \in 1 .. k : s[i] \in tokens) /\ At(s, k + 1) \notin tokens
  BY SpanFacts
<1>. HIDE DEF k
<1>2. Len(s) \in Nat
  BY LenProperties
<1>3. ~(n < k)
  <2>1. n < k => n + 1 \in 1 .. k /\ n + 1 \in Nat \ {0} /\ n + 1 <= Len(s)
    BY <1>1, <1>2
  <2>. QED  BY <1>1, <2>1, AtFacts
<1>4. ~(k < n)
  <2>1. k < n => k + 1 \in 1 .. n /\ k + 1 \in Nat \ {0} /\ k + 1 <= Len(s)
    BY <1>1, <1>2
  <2>. QED  BY <1>1, <2>1, AtFacts
<1>5. k = n
  BY <1>1, <1>2, <1>3, <1>4
<1>. QED  BY <1>5 DEF k

LEMMA AtTells ==
  ASSUME NEW s \in Seq(Tokens), NEW i \in Nat \ {0}, At(s, i) \in Tokens
  PROVE  i \in 1 .. Len(s) /\ s[i] = At(s, i)
BY AtFacts, NoneIsNoToken, LenProperties

LEMMA TakenFacts ==
  ASSUME NEW s \in Seq(Tokens), NEW tokens, NEW n \in 0 .. Len(s), \A i \in 1 .. n : s[i] \in tokens
  PROVE  Taken(s, n) \in Seq(tokens) /\ Len(Taken(s, n)) = n
<1>1. n \in Nat
  BY LenProperties
<1>2. /\ SubSeq(s, 1, n) \in Seq(tokens)
      /\ Len(SubSeq(s, 1, n)) = IF 1 <= n THEN n - 1 + 1 ELSE 0
  BY <1>1, SubSeqProperties
<1>. QED  BY <1>1, <1>2 DEF Taken

LEMMA PriorityPart ==
  ASSUME NEW s \in Seq(Tokens)
  PROVE  /\ prio_and_facility(s) \in 0 .. Len(s)
         /\ prio_and_facility(s) \in {0, 1}
         /\ prio_and_facility(s) # 0 <=> At(s, 1) \in Priorities
         /\ prio_and_facility(s) # 0 => s[1] \in Priorities
<1>1. At(s, 1) \in Priorities => 1 \in 1 .. Len(s) /\ s[1] = At(s, 1)
  BY AtTells, TokenSets
<1>. QED  BY <1>1, LenProperties DEF prio_and_facility

LEMMA TimestampPart ==
  ASSUME NEW s \in Seq(Tokens)
  PROVE  /\ version_and_rfc3339_timestamp(s) \in 0 .. Len(s)
         /\ rfc3164_timestamp(s) \in 0 .. Len(s)
<1>. DEFINE n == Span(s, Digits)
<1>1. n \in Nat /\ n + 3 \in Nat \ {0}
  BY SpanFacts, TokenSets, LenProperties
<1>2. Space \in Tokens /\ Rfc3164 \in Tokens
  BY DEF Tokens
<1>3. At(s, n + 3) = Space => n + 3 \in 1 .. Len(s)
  BY <1>1, <1>2, AtTells
<1>4. At(s, 1) = Rfc3164 => 1 \in 1 .. Len(s)
  BY <1>2, AtTells
<1>5. version_and_rfc3339_timestamp(s) \in 0 .. Len(s)
  BY <1>1, <1>3, LenProperties DEF version_and_rfc3339_timestamp
<1>6. rfc3164_timestamp(s) \in 0 .. Len(s)
  BY <1>4, LenProperties DEF rfc3164_timestamp
<1>. QED  BY <1>5, <1>6

LEMMA HostnamePart ==
  ASSUME NEW s \in Seq(Tokens)
  PROVE  /\ hostname(s) \in 0 .. Len(s)
         /\ hostname(s) # 0 => /\ Taken(s, hostname(s) - 1) \in Seq(HostTokens)
                               /\ Len(Taken(s, hostname(s) - 1)) = hostname(s) - 1
<1>. DEFINE n == Span(s, HostTokens)
<1>1. n \in 0 .. Len(s) /\ (\A i \in 1 .. n : s[i] \in HostTokens) /\ Len(s) \in Nat
  BY SpanFacts, TokenSets, LenProperties
<1>2. Taken(s, n) \in Seq(HostTokens) /\ Len(Taken(s, n)) = n
  BY <1>1, TakenFacts
<1>3. At(s, n + 1) = Space => n + 1 \in 1 .. Len(s)
  <2>1. Space \in Tokens /\ n + 1 \in Nat \ {0}
    BY <1>1 DEF Tokens
  <2>. QED  BY <2>1, AtTells
<1>4. hostname(s) = 0 \/ (hostname(s) = n + 1 /\ At(s, n + 1) = Space)
  BY DEF hostname
<1>. HIDE DEF n
<1>5. n + 1 - 1 = n
  BY <1>1
<1>. QED  BY <1>1, <1>2, <1>3, <1>4, <1>5

LEMMA IdentifierPart ==
  ASSUME NEW s \in Seq(Tokens)
  PROVE  LET n == identifier_and_pid(s)
             ident == Span(s, IdentTokens)
         IN /\ n \in 0 .. Len(s) /\ ident \in 0 .. Len(s)
            /\ n # 0 => /\ Taken(s, ident) \in Seq(IdentTokens)
                        /\ Len(Taken(s, ident)) = ident
                        /\ n = IF s[ident + 1] = Pid THEN ident + 3 ELSE ident + 2
<1>. DEFINE n == identifier_and_pid(s)
            ident == Span(s, IdentTokens)
            m == IF At(s, ident + 1) = Pid THEN ident + 1 ELSE ident
<1>1. ident \in 0 .. Len(s) /\ (\A i \in 1 .. ident : s[i] \in IdentTokens) /\ Len(s) \in Nat
  BY SpanFacts, TokenSets, LenProperties
<1>2. Taken(s, ident) \in Seq(IdentTokens) /\ Len(Taken(s, ident)) = ident
  BY <1>1, TakenFacts
<1>3. n = 0 \/ (n = m + 2 /\ At(s, m + 2) = Space)
  BY DEF identifier_and_pid
<1>4. ident + 1 \in Nat \ {0} /\ m \in {ident, ident + 1} /\ m + 2 \in Nat \ {0}
  BY <1>1
<1>5. Space \in Tokens
  BY DEF Tokens
<1>6. n # 0 => m + 2 \in 1 .. Len(s) /\ n = m + 2
  BY <1>3, <1>4, <1>5, AtTells
<1>7. n # 0 => At(s, ident + 1) = s[ident + 1]
  BY <1>1, <1>4, <1>6, AtFacts
<1>8. m = IF At(s, ident + 1) = Pid THEN ident + 1 ELSE ident
  OBVIOUS
<1>. HIDE DEF n, ident, m
<1>9. n # 0 => n = IF s[ident + 1] = Pid THEN ident + 3 ELSE ident + 2
  BY <1>1, <1>6, <1>7, <1>8
<1>10. n \in 0 .. Len(s)
  BY <1>1, <1>4, <1>6
<1>. QED  BY <1>1, <1>2, <1>9, <1>10 DEF n, ident

-----------------------------------------------------------------------------
(* What the parser has found when it looks for the next part is what the     *)
(* datagram and the clock determine, whatever steps have led there.          *)

Body == After(Stamped, StampLength)
Tagged == After(Body, hostname(Body))
Remainder == After(Tagged, identifier_and_pid(Tagged))

StampFound ==
  IF version_and_rfc3339_timestamp(Stamped) > 0 THEN clock.sent
  ELSE IF rfc3164_timestamp(Stamped) > 0 THEN Rfc3164Time(Written(clock.sent), clock.now)
  ELSE None
HostFound ==
  IF hostname(Body) = 0 THEN None ELSE Taken(Body, hostname(Body) - 1)
IdentFound ==
  IF identifier_and_pid(Tagged) = 0 THEN None ELSE Taken(Tagged, Span(Tagged, IdentTokens))
PidFound ==
  IF identifier_and_pid(Tagged) # 0 /\ Tagged[Span(Tagged, IdentTokens) + 1] = Pid THEN Pid ELSE None

Facilities == {FacilityName(n) : n \in 0 .. 31}

Messages ==
  [priority : 0 .. 7, facility : Facilities, source_timestamp : Nat \cup {None},
   hostname : Seq(HostTokens) \cup {None}, identifier : Seq(IdentTokens) \cup {None},
   pid : {None, Pid}, message : Seq(Tokens), full_message : Seq(Tokens)]

Types ==
  /\ pc \in {"recv", "priority", "timestamp", "hostname", "identifier", "rest", "send", "exited"}
  /\ input \in Seq(Tokens) /\ remaining \in Seq(Tokens)
  /\ msg \in Messages
  /\ clock \in [sent : Nat, now : Nat] /\ clock.sent <= clock.now
  /\ open \in BOOLEAN

RemainingIs ==
  /\ pc = "priority" => remaining = input
  /\ pc = "timestamp" => remaining = Stamped
  /\ pc = "hostname" => remaining = Body
  /\ pc = "identifier" => remaining = Tagged
  /\ pc = "rest" => remaining = Remainder

HeaderIs ==
  /\ pc \in {"priority", "timestamp", "hostname", "identifier", "rest", "send"} => msg.full_message = input
  /\ pc \in {"priority", "timestamp", "hostname"} => msg.hostname = None
  /\ pc \in {"priority", "timestamp", "hostname", "identifier"} => msg.identifier = None /\ msg.pid = None
  /\ pc \in {"hostname", "identifier", "rest"} => msg.source_timestamp = StampFound
  /\ pc \in {"identifier", "rest", "send"} => msg.hostname = HostFound
  /\ pc \in {"rest", "send"} => msg.identifier = IdentFound /\ msg.pid = PidFound

TextIs ==
  pc = "send" =>
    /\ msg.source_timestamp = IF StampFound = None THEN clock.now ELSE StampFound
    /\ msg.message = IF StampFound = None /\ HostFound = None /\ IdentFound = None
                     THEN Unspaced(Remainder) ELSE Remainder

IInv == Types /\ RemainingIs /\ HeaderIs /\ TextIs

LEMMA FoundTypes ==
  ASSUME Types
  PROVE  /\ Stamped \in Seq(Tokens) /\ Body \in Seq(Tokens)
         /\ Tagged \in Seq(Tokens) /\ Remainder \in Seq(Tokens)
         /\ prio_and_facility(input) \in 0 .. Len(input) /\ StampLength \in 0 .. Len(Stamped)
         /\ Stamped = After(input, prio_and_facility(input))
         /\ StampFound \in Nat \cup {None}
         /\ HostFound \in Seq(HostTokens) \cup {None}
         /\ IdentFound \in Seq(IdentTokens) \cup {None}
         /\ PidFound \in {None, Pid}
<1>1. input \in Seq(Tokens) /\ clock.sent \in Nat /\ clock.now \in Nat
  BY DEF Types
<1>2. prio_and_facility(input) \in 0 .. Len(input) /\ Stamped = After(input, prio_and_facility(input))
  BY <1>1, PriorityPart DEF Stamped, After
<1>3. Stamped \in Seq(Tokens)
  BY <1>1, <1>2, AfterFacts
<1>4. StampLength \in 0 .. Len(Stamped)
  BY <1>3, TimestampPart DEF StampLength
<1>5. Body \in Seq(Tokens)
  BY <1>3, <1>4, AfterFacts DEF Body
<1>6. Tagged \in Seq(Tokens)
  BY <1>5, HostnamePart, AfterFacts DEF Tagged
<1>7. Remainder \in Seq(Tokens)
  BY <1>6, IdentifierPart, AfterFacts DEF Remainder
<1>8. StampFound \in Nat \cup {None}
  BY <1>1, Rfc3164Found DEF StampFound
<1>9. HostFound \in Seq(HostTokens) \cup {None}
  BY <1>5, HostnamePart DEF HostFound
<1>10. IdentFound \in Seq(IdentTokens) \cup {None}
  BY <1>6, IdentifierPart DEF IdentFound
<1>11. PidFound \in {None, Pid}
  BY DEF PidFound
<1>. QED  BY <1>2, <1>3, <1>4, <1>5, <1>6, <1>7, <1>8, <1>9, <1>10, <1>11

(* None of it changes before the next datagram.                              *)
LEMMA SameDatagram ==
  ASSUME UNCHANGED <<input, clock>>
  PROVE  /\ UNCHANGED <<Stamped, StampLength, Body, Tagged, Remainder>>
         /\ UNCHANGED <<StampFound, HostFound, IdentFound, PidFound>>
<1>1. UNCHANGED <<Stamped, StampLength, StampFound>>
  BY DEF Stamped, StampLength, StampFound, rfc3164_timestamp
<1>2. UNCHANGED <<Body, Tagged, Remainder>>
  BY <1>1 DEF Body, Tagged, Remainder
<1>3. UNCHANGED <<HostFound, IdentFound, PidFound>>
  BY <1>2 DEF HostFound, IdentFound, PidFound
<1>. QED  BY <1>1, <1>2, <1>3

LEMMA EmptyMessage ==
  /\ Empty \in Messages
  /\ Empty.source_timestamp = None /\ Empty.hostname = None
  /\ Empty.identifier = None /\ Empty.pid = None
<1>1. FacilityName(1) \in Facilities
  BY DEF Facilities
<1>2. <<>> \in Seq(Tokens)
  OBVIOUS
<1>. QED  BY <1>1, <1>2 DEF Empty, Messages

LEMMA UnspacedType == \A s \in Seq(Tokens) : Unspaced(s) \in Seq(Tokens)
<1>. SUFFICES ASSUME NEW s \in Seq(Tokens) PROVE Unspaced(s) \in Seq(Tokens)
  OBVIOUS
<1>1. At(s, 1) = Space => s # <<>>
  <2>1. Space \in Tokens
    BY DEF Tokens
  <2>. QED  BY <2>1, AtTells, EmptySeq
<1>. QED  BY <1>1, HeadTailProperties DEF Unspaced

LEMMA InitIInv == Init => IInv
<1>1. <<>> \in Seq(Tokens)
  OBVIOUS
<1>2. Unsent \in [sent : Nat, now : Nat] /\ Unsent.sent <= Unsent.now
  BY DEF Unsent
<1>. QED  BY <1>1, <1>2, EmptyMessage DEF Init, IInv, Types, RemainingIs, HeaderIs, TextIs

LEMMA RecvKeeps == IInv /\ Recv => IInv'
<1>. SUFFICES ASSUME IInv, Recv PROVE IInv'
  OBVIOUS
<1>1. PICK datagram \in Datagrams :
        /\ input' = datagram /\ remaining' = datagram
        /\ msg' = [Empty EXCEPT !.full_message = datagram]
        /\ clock' \in Transits(datagram)
  BY DEF Recv
<1>2. pc' = "priority" /\ open' \in BOOLEAN
  BY DEF Recv, IInv, Types
<1>3. datagram \in Seq(Tokens) /\ clock' \in [sent : Nat, now : Nat] /\ clock'.sent <= clock'.now
  BY <1>1, SyslogAssumption DEF SyslogAssumption
<1>4. /\ msg' \in Messages /\ msg'.full_message = datagram
      /\ msg'.source_timestamp = None /\ msg'.hostname = None
      /\ msg'.identifier = None /\ msg'.pid = None
  BY <1>1, <1>3, EmptyMessage DEF Messages
<1>. QED  BY <1>1, <1>2, <1>3, <1>4 DEF IInv, Types, RemainingIs, HeaderIs, TextIs

LEMMA PriorityKeeps == IInv /\ Priority => IInv'
<1>. SUFFICES ASSUME IInv, Priority PROVE IInv'
  OBVIOUS
<1>. DEFINE n == prio_and_facility(remaining)
<1>1. /\ pc = "priority" /\ pc' = "timestamp" /\ UNCHANGED <<input, clock, open>>
      /\ remaining = input /\ remaining' = After(remaining, n)
  BY DEF Priority, Consume, After, IInv, RemainingIs
<1>2. Types
  BY DEF IInv
<1>3. remaining' = Stamped' /\ remaining' \in Seq(Tokens)
  BY <1>1, <1>2, FoundTypes, SameDatagram
<1>4. /\ msg' \in Messages
      /\ msg'.full_message = msg.full_message /\ msg'.hostname = msg.hostname
      /\ msg'.identifier = msg.identifier /\ msg'.pid = msg.pid
  <2>1. CASE n = 0
    BY <1>2, <2>1 DEF Priority, Types
  <2>2. CASE n # 0
    <3>1. remaining[1] \in Priorities
      BY <1>1, <1>2, <2>2, PriorityPart DEF Types
    <3>2. ValueOf(remaining[1]) \in 0 .. 255
      BY <3>1, SyslogAssumption DEF SyslogAssumption
    <3>3. ValueOf(remaining[1]) % 8 \in 0 .. 7 /\ ValueOf(remaining[1]) \div 8 \in 0 .. 31
      BY <3>2
    <3>4. FacilityName(ValueOf(remaining[1]) \div 8) \in Facilities
      BY <3>3 DEF Facilities
    <3>5. msg' = [msg EXCEPT !.priority = ValueOf(remaining[1]) % 8,
                             !.facility = FacilityName(ValueOf(remaining[1]) \div 8)]
      BY <2>2 DEF Priority
    <3>. QED  BY <1>2, <3>3, <3>4, <3>5 DEF Types, Messages
  <2>. QED  BY <2>1, <2>2
<1>5. msg.full_message = input /\ msg.hostname = None /\ msg.identifier = None /\ msg.pid = None
  BY <1>1 DEF IInv, HeaderIs
<1>. QED  BY <1>1, <1>2, <1>3, <1>4, <1>5 DEF IInv, Types, RemainingIs, HeaderIs, TextIs

LEMMA TimestampKeeps == IInv /\ Timestamp => IInv'
<1>. SUFFICES ASSUME IInv, Timestamp PROVE IInv'
  OBVIOUS
<1>1. Types /\ pc = "timestamp" /\ pc' = "hostname" /\ UNCHANGED <<input, clock, open>> /\ remaining = Stamped
  BY DEF Timestamp, IInv, RemainingIs
<1>2. remaining' = Body
  BY <1>1 DEF Timestamp, Consume, After, Body, StampLength
<1>3. msg' = [msg EXCEPT !.source_timestamp = StampFound]
  BY <1>1 DEF Timestamp, StampFound
<1>4. remaining' = Body' /\ remaining' \in Seq(Tokens) /\ StampFound' = StampFound /\ StampFound \in Nat \cup {None}
  BY <1>1, <1>2, FoundTypes, SameDatagram
<1>5. /\ msg' \in Messages /\ msg'.source_timestamp = StampFound
      /\ msg'.full_message = msg.full_message /\ msg'.hostname = msg.hostname
      /\ msg'.identifier = msg.identifier /\ msg'.pid = msg.pid
  BY <1>1, <1>3, <1>4 DEF Types, Messages
<1>6. msg.full_message = input /\ msg.hostname = None /\ msg.identifier = None /\ msg.pid = None
  BY <1>1 DEF IInv, HeaderIs
<1>. QED  BY <1>1, <1>4, <1>5, <1>6 DEF IInv, Types, RemainingIs, HeaderIs, TextIs

LEMMA HostnameKeeps == IInv /\ Hostname => IInv'
<1>. SUFFICES ASSUME IInv, Hostname PROVE IInv'
  OBVIOUS
<1>1. Types /\ pc = "hostname" /\ pc' = "identifier" /\ UNCHANGED <<input, clock, open>> /\ remaining = Body
  BY DEF Hostname, IInv, RemainingIs
<1>2. remaining' = Tagged
  BY <1>1 DEF Hostname, Consume, After, Tagged
<1>3. msg.full_message = input /\ msg.source_timestamp = StampFound /\ msg.hostname = None
      /\ msg.identifier = None /\ msg.pid = None
  BY <1>1 DEF IInv, HeaderIs
<1>4. msg' = [msg EXCEPT !.hostname = HostFound]
  BY <1>1, <1>3 DEF Hostname, HostFound
<1>5. /\ remaining' = Tagged' /\ remaining' \in Seq(Tokens)
      /\ UNCHANGED <<StampFound, HostFound>> /\ HostFound \in Seq(HostTokens) \cup {None}
  BY <1>1, <1>2, FoundTypes, SameDatagram
<1>6. /\ msg' \in Messages /\ msg'.hostname = HostFound /\ msg'.source_timestamp = msg.source_timestamp
      /\ msg'.full_message = msg.full_message
      /\ msg'.identifier = msg.identifier /\ msg'.pid = msg.pid
  BY <1>1, <1>4, <1>5 DEF Types, Messages
<1>. QED  BY <1>1, <1>3, <1>5, <1>6 DEF IInv, Types, RemainingIs, HeaderIs, TextIs

LEMMA IdentifierKeeps == IInv /\ Identifier => IInv'
<1>. SUFFICES ASSUME IInv, Identifier PROVE IInv'
  OBVIOUS
<1>1. Types /\ pc = "identifier" /\ pc' = "rest" /\ UNCHANGED <<input, clock, open>> /\ remaining = Tagged
  BY DEF Identifier, IInv, RemainingIs
<1>2. remaining' = Remainder
  BY <1>1 DEF Identifier, Consume, After, Remainder
<1>3. msg.full_message = input /\ msg.source_timestamp = StampFound /\ msg.hostname = HostFound
      /\ msg.identifier = None /\ msg.pid = None
  BY <1>1 DEF IInv, HeaderIs
<1>4. /\ remaining' = Remainder' /\ remaining' \in Seq(Tokens)
      /\ UNCHANGED <<StampFound, HostFound, IdentFound, PidFound>>
      /\ IdentFound \in Seq(IdentTokens) \cup {None} /\ PidFound \in {None, Pid}
  BY <1>1, <1>2, FoundTypes, SameDatagram
<1>5. /\ msg' \in Messages /\ msg'.identifier = IdentFound /\ msg'.pid = PidFound
      /\ msg'.source_timestamp = msg.source_timestamp
      /\ msg'.full_message = msg.full_message /\ msg'.hostname = msg.hostname
  <2>1. CASE identifier_and_pid(Tagged) = 0
    <3>1. msg' = msg /\ IdentFound = None /\ PidFound = None
      BY <1>1, <2>1 DEF Identifier, IdentFound, PidFound
    <3>. QED  BY <1>1, <1>3, <3>1 DEF Types
  <2>2. CASE identifier_and_pid(Tagged) # 0
    <3>1. msg' = [msg EXCEPT !.identifier = IdentFound, !.pid = PidFound]
      BY <1>1, <2>2 DEF Identifier, IdentFound, PidFound
    <3>. QED  BY <1>1, <1>4, <3>1 DEF Types, Messages
  <2>. QED  BY <2>1, <2>2
<1>. QED  BY <1>1, <1>3, <1>4, <1>5 DEF IInv, Types, RemainingIs, HeaderIs, TextIs

LEMMA RestKeeps == IInv /\ Rest => IInv'
<1>. SUFFICES ASSUME IInv, Rest PROVE IInv'
  OBVIOUS
<1>1. /\ Types /\ pc = "rest" /\ pc' = "send" /\ UNCHANGED <<input, clock, open>>
      /\ remaining = Remainder /\ remaining' = <<>>
  BY DEF Rest, IInv, RemainingIs
<1>2. /\ msg.full_message = input /\ msg.source_timestamp = StampFound /\ msg.hostname = HostFound
      /\ msg.identifier = IdentFound /\ msg.pid = PidFound
  BY <1>1 DEF IInv, HeaderIs
<1>. DEFINE time == IF StampFound = None THEN clock.now ELSE StampFound
            text == IF StampFound = None /\ HostFound = None /\ IdentFound = None
                    THEN Unspaced(Remainder) ELSE Remainder
<1>3. msg' = [msg EXCEPT !.source_timestamp = time, !.message = text]
  BY <1>1, <1>2 DEF Rest, NoHeader, Timed
<1>4. time' = time /\ text' = text /\ UNCHANGED <<HostFound, IdentFound, PidFound>>
  BY <1>1, SameDatagram
<1>5. time \in Nat /\ text \in Seq(Tokens)
  BY <1>1, FoundTypes, UnspacedType DEF Types
<1>. HIDE DEF time, text
<1>6. /\ msg' \in Messages /\ msg'.source_timestamp = time /\ msg'.message = text
      /\ msg'.full_message = msg.full_message /\ msg'.hostname = msg.hostname
      /\ msg'.identifier = msg.identifier /\ msg'.pid = msg.pid
  BY <1>1, <1>3, <1>5 DEF Types, Messages
<1>7. Types' /\ RemainingIs' /\ HeaderIs'
  BY <1>1, <1>2, <1>4, <1>6 DEF Types, RemainingIs, HeaderIs
<1>8. msg'.source_timestamp = time' /\ msg'.message = text'
  BY <1>4, <1>6
<1>. QED  BY <1>7, <1>8 DEF IInv, TextIs, time, text

LEMMA SentKeeps == IInv /\ (Send \/ SendFails) => IInv'
<1>. SUFFICES ASSUME IInv, Send \/ SendFails PROVE IInv'
  OBVIOUS
<1>1. /\ Types /\ pc' \in {"recv", "exited"} /\ UNCHANGED <<remaining, open>>
      /\ input' = <<>> /\ msg' = Empty /\ clock' = Unsent
  BY DEF Send, SendFails, IInv
<1>2. <<>> \in Seq(Tokens) /\ Unsent \in [sent : Nat, now : Nat] /\ Unsent.sent <= Unsent.now
  BY DEF Unsent
<1>. QED  BY <1>1, <1>2, EmptyMessage DEF IInv, Types, RemainingIs, HeaderIs, TextIs

LEMMA StutterKeeps == IInv /\ (DropReceiver \/ UNCHANGED vars) => IInv'
<1>. SUFFICES ASSUME IInv, DropReceiver \/ UNCHANGED vars PROVE IInv'
  OBVIOUS
<1>1. UNCHANGED <<pc, input, remaining, msg, clock>> /\ (open' = FALSE \/ open' = open)
  BY DEF DropReceiver, vars
<1>2. /\ UNCHANGED <<Stamped, StampLength, Body, Tagged, Remainder>>
      /\ UNCHANGED <<StampFound, HostFound, IdentFound, PidFound>>
  BY <1>1, SameDatagram
<1>. QED  BY <1>1, <1>2 DEF IInv, Types, RemainingIs, HeaderIs, TextIs

THEOREM Invariance == Spec => []IInv
<1>1. IInv /\ [Next]_vars => IInv'
  BY RecvKeeps, PriorityKeeps, TimestampKeeps, HostnameKeeps, IdentifierKeeps, RestKeeps,
     SentKeeps, StutterKeeps DEF Next
<1>. QED  BY InitIInv, <1>1, PTL DEF Spec

(* The fields of a message have their types: a priority and a facility that  *)
(* the tables have, a time, names of the characters that names are made of,  *)
(* for every datagram and every calendar (syslog.rs lines 168-208).          *)
THEOREM TypeCorrect == Spec => []TypeOK
<1>1. IInv => TypeOK
  BY DEF IInv, Types, Messages, Facilities, TypeOK
<1>. QED  BY <1>1, Invariance, PTL

-----------------------------------------------------------------------------
(* The four promises. *)

(* A part that was found has a value, one that was not has none, and         *)
(* together they tell how many tokens were consumed.                         *)
LEMMA Consumed ==
  ASSUME IInv, pc = "send"
  PROVE  /\ Header \in 0 .. Len(input)
         /\ Remainder = After(input, Header)
         /\ StampFound = None /\ HostFound = None /\ IdentFound = None => Header = prio_and_facility(input)
<1>1. Types /\ input \in Seq(Tokens) /\ clock.sent \in Nat /\ clock.now \in Nat
  BY DEF IInv, Types
<1>2. msg.hostname = HostFound /\ msg.identifier = IdentFound /\ msg.pid = PidFound
  BY DEF IInv, HeaderIs
<1>. DEFINE p == prio_and_facility(input)
            t == StampLength
            h == hostname(Body)
            k == identifier_and_pid(Tagged)
            host == IF msg.hostname = None THEN 0 ELSE Len(msg.hostname) + 1
            ident == IF msg.identifier = None THEN 0
                     ELSE Len(msg.identifier) + (IF msg.pid = None THEN 2 ELSE 3)
<1>3. /\ Stamped = After(input, p) /\ Stamped \in Seq(Tokens)
      /\ p \in 0 .. Len(input) /\ t \in 0 .. Len(Stamped)
      /\ Body \in Seq(Tokens) /\ Tagged \in Seq(Tokens)
  BY <1>1, FoundTypes
<1>4. h \in 0 .. Len(Body) /\ k \in 0 .. Len(Tagged)
  BY <1>3, HostnamePart, IdentifierPart
<1>5. None \notin Seq(HostTokens) /\ None \notin Seq(IdentTokens)
  BY TokenSets, NoneIsNoToken, SeqMonotonic
<1>6. host = h /\ (HostFound = None <=> h = 0)
  <2>1. CASE h = 0
    BY <1>2, <2>1 DEF HostFound
  <2>2. CASE h # 0
    <3>1. Taken(Body, h - 1) \in Seq(HostTokens) /\ Len(Taken(Body, h - 1)) = h - 1
      BY <1>3, <2>2, HostnamePart
    <3>2. HostFound = Taken(Body, h - 1) /\ HostFound # None
      BY <1>5, <2>2, <3>1 DEF HostFound
    <3>3. h - 1 + 1 = h
      BY <1>3, <1>4, LenProperties
    <3>. QED  BY <1>2, <2>2, <3>1, <3>2, <3>3
  <2>. QED  BY <2>1, <2>2
<1>7. ident = k /\ (IdentFound = None <=> k = 0)
  <2>1. CASE k = 0
    BY <1>2, <2>1 DEF IdentFound
  <2>2. CASE k # 0
    <3>. DEFINE n == Span(Tagged, IdentTokens)
    <3>1. /\ Taken(Tagged, n) \in Seq(IdentTokens) /\ Len(Taken(Tagged, n)) = n
          /\ k = IF Tagged[n + 1] = Pid THEN n + 3 ELSE n + 2
      BY <1>3, <2>2, IdentifierPart
    <3>2. IdentFound = Taken(Tagged, n) /\ IdentFound # None
      BY <1>5, <2>2, <3>1 DEF IdentFound
    <3>3. PidFound = None <=> Tagged[n + 1] # Pid
      <4>1. Pid # None
        BY NoneIsNoToken DEF Tokens
      <4>. QED  BY <2>2, <4>1 DEF PidFound
    <3>. QED  BY <1>2, <2>2, <3>1, <3>2, <3>3
  <2>. QED  BY <2>1, <2>2
<1>8. StampFound = None => t = 0
  <2>1. Rfc3164Time(Written(clock.sent), clock.now) \in Nat
    BY <1>1, Rfc3164Found
  <2>2. version_and_rfc3339_timestamp(Stamped) \in Nat /\ rfc3164_timestamp(Stamped) \in Nat
    BY <1>3, TimestampPart, LenProperties
  <2>. QED  BY <1>1, <2>1, <2>2, Calendar DEF StampFound, StampLength
<1>9. Header = p + t + h + k
  BY <1>6, <1>7 DEF Header
<1>10. /\ Body = After(input, p + t) /\ Len(Stamped) = Len(input) - p /\ Len(Body) = Len(Stamped) - t
  BY <1>1, <1>3, AfterAfter, AfterFacts DEF Body
<1>11. Len(input) \in Nat /\ p + t \in 0 .. Len(input) /\ h \in 0 .. Len(input) - (p + t)
  BY <1>1, <1>3, <1>4, <1>10, LenProperties
<1>12. Tagged = After(input, p + t + h) /\ Len(Tagged) = Len(Body) - h
  BY <1>1, <1>3, <1>4, <1>10, <1>11, AfterAfter, AfterFacts DEF Tagged
<1>. HIDE DEF p, t, h, k
<1>13. p + t + h \in 0 .. Len(input) /\ k \in 0 .. Len(input) - (p + t + h)
  BY <1>3, <1>4, <1>10, <1>11, <1>12
<1>14. Remainder = After(input, p + t + h + k)
  BY <1>1, <1>12, <1>13, AfterAfter DEF Remainder, k
<1>15. p + t + h + k \in 0 .. Len(input)
  BY <1>11, <1>13
<1>16. StampFound = None /\ HostFound = None /\ IdentFound = None => p + t + h + k = p
  BY <1>3, <1>6, <1>7, <1>8, <1>11
<1>. QED  BY <1>9, <1>14, <1>15, <1>16 DEF p

(* No text gets lost between the parts, for datagrams of any length (syslog.rs *)
(* lines 172-208).                                                           *)
THEOREM WholeText == Spec => []NoTextLost
<1>1. ASSUME IInv, pc = "send"
      PROVE  /\ msg.full_message = input
             /\ LET text == SubSeq(input, Header + 1, Len(input)) IN
                  \/ msg.message = text
                  \/ Header = prio_and_facility(input) /\ text = <<Space>> \o msg.message
  <2>. DEFINE text == SubSeq(input, Header + 1, Len(input))
  <2>1. text = Remainder /\ Remainder \in Seq(Tokens)
    BY <1>1, Consumed, FoundTypes DEF After, IInv
  <2>2. msg.full_message = input
    BY <1>1 DEF IInv, HeaderIs
  <2>3. CASE StampFound = None /\ HostFound = None /\ IdentFound = None
    <3>1. Header = prio_and_facility(input) /\ msg.message = Unspaced(Remainder)
      BY <1>1, <2>3, Consumed DEF IInv, TextIs
    <3>2. CASE At(Remainder, 1) = Space
      <4>1. 1 \in 1 .. Len(Remainder) /\ Remainder[1] = Space
        <5>1. Space \in Tokens
          BY DEF Tokens
        <5>2. 1 \in Nat \ {0} /\ At(Remainder, 1) \in Tokens
          BY <3>2, <5>1
        <5>3. Remainder \in Seq(Tokens)
          BY <2>1
        <5>4. 1 \in 1 .. Len(Remainder) /\ Remainder[1] = At(Remainder, 1)
          BY <5>2, <5>3, AtTells
        <5>. QED  BY <3>2, <5>4
      <4>2. Remainder = <<Remainder[1]>> \o Tail(Remainder)
        BY <2>1, <4>1, LenProperties
      <4>. QED  BY <2>1, <2>2, <3>1, <3>2, <4>1, <4>2 DEF Unspaced
    <3>3. CASE At(Remainder, 1) # Space
      BY <2>1, <2>2, <3>1, <3>3 DEF Unspaced
    <3>. QED  BY <3>2, <3>3
  <2>4. CASE ~(StampFound = None /\ HostFound = None /\ IdentFound = None)
    BY <1>1, <2>1, <2>2, <2>4 DEF IInv, TextIs
  <2>. QED  BY <2>3, <2>4
<1>2. IInv => NoTextLost
  BY <1>1 DEF NoTextLost
<1>. QED  BY <1>2, Invariance, PTL

(* A message parsed in the year in which it was sent gets the time at which  *)
(* it was sent, but for the repeated hour, for every calendar and every two  *)
(* times of a year (syslog.rs lines 120-143).                                *)
THEOREM SentTime == Spec => []DatedWhenSent
<1>1. ASSUME IInv, pc = "send", At(Stamped, 1) = Rfc3164, YearOf(clock.sent) = YearOf(clock.now)
      PROVE  /\ msg.source_timestamp \in {clock.sent, clock.sent - 1}
             /\ LocalOf(msg.source_timestamp) = LocalOf(clock.sent)
             /\ msg.source_timestamp <= clock.now
  <2>. DEFINE sent == clock.sent
              time == Rfc3164Time(Written(sent), clock.now)
              local == YearOf(clock.now) * YearHours + Written(sent)
  <2>1. sent \in Nat /\ clock.now \in Nat /\ sent <= clock.now /\ Stamped \in Seq(Tokens)
    BY <1>1, FoundTypes DEF IInv, Types
  <2>2. local \in Nat /\ time \in Nat /\ time \in FromLocal(local) /\ \A t \in FromLocal(local) : time <= t
    BY <2>1, Rfc3164Found
  <2>3. local = LocalOf(sent)
    BY <1>1, <2>1, WithinYear
  <2>4. sent \in FromLocal(local)
    <3>1. sent \in Int
      BY <2>1
    <3>2. LocalOf(sent) \in {sent, sent + 1}
      BY <3>1, OffsetType
    <3>3. sent \in {LocalOf(sent) - 1, LocalOf(sent)}
      BY <3>1, <3>2
    <3>. QED  BY <2>3, <3>3 DEF FromLocal
  <2>5. time \in {sent, sent - 1} /\ LocalOf(time) = LocalOf(sent) /\ time <= sent
    <3>1. time \in {local - 1, local} /\ LocalOf(time) = local /\ time <= sent
      BY <2>2, <2>4 DEF FromLocal
    <3>2. LocalOf(sent) \in {sent, sent + 1}
      <4>1. sent \in Int
        BY <2>1
      <4>. QED  BY <4>1, OffsetType
    <3>. QED  BY <2>1, <2>2, <2>3, <3>1, <3>2
  <2>6. version_and_rfc3339_timestamp(Stamped) = 0 /\ rfc3164_timestamp(Stamped) = 1
    <3>1. At(Stamped, 0 + 1) \notin Digits
      <4>1. At(Stamped, 1) \notin Digits
        BY <1>1 DEF Digits, Rfc3164
      <4>2. 0 + 1 = 1
        OBVIOUS
      <4>. QED  BY <4>1, <4>2
    <3>4. 0 \in 0 .. Len(Stamped)
      BY <2>1, LenProperties
    <3>2. Span(Stamped, Digits) = 0
      BY <2>1, <3>1, <3>4, TokenSets, SpanIs
    <3>. QED  BY <1>1, <2>1, <2>2, <3>2, Calendar DEF version_and_rfc3339_timestamp, rfc3164_timestamp
  <2>7. StampFound = time /\ time # None
    BY <2>2, <2>6, Calendar DEF StampFound
  <2>8. msg.source_timestamp = time
    BY <1>1, <2>7 DEF IInv, TextIs
  <2>. QED  BY <2>1, <2>2, <2>5, <2>8
<1>2. IInv => DatedWhenSent
  BY <1>1 DEF DatedWhenSent
<1>. QED  BY <1>2, Invariance, PTL

LEMMA Kinds ==
  /\ Space \in Tokens /\ Pid \in Tokens /\ ":" \in Tokens /\ Rfc3164 \in Tokens
  /\ Space \notin Digits /\ Space \notin HostTokens /\ Space \notin IdentTokens
  /\ Space # Rfc3164 /\ Space # Pid /\ Space # ":" /\ ":" # Pid
  /\ Rfc3164 \notin Digits /\ Rfc3164 \notin Priorities
  /\ Pid \notin HostTokens /\ Pid \notin IdentTokens
  /\ ":" \notin HostTokens /\ ":" \notin IdentTokens
  /\ HostTokens \subseteq IdentTokens
<1>1. Space \in Tokens /\ Pid \in Tokens /\ ":" \in Tokens /\ Rfc3164 \in Tokens
  BY DEF Tokens
<1>2. Space # Rfc3164 /\ Space # Pid /\ Space # ":" /\ ":" # Pid
  BY DEF Space, Pid, Rfc3164
<1>3. HostTokens \subseteq IdentTokens
  BY DEF IdentTokens
<1>4. \A t \in {Space, Rfc3164, Pid, ":"} : t \notin Digits /\ t \notin Words /\ t \notin Odd /\ t \notin Priorities
  BY DEF Digits, Words, Odd, Priorities, Space, Pid, Rfc3164
<1>. QED  BY <1>1, <1>2, <1>3, <1>4 DEF IdentTokens, HostTokens

LEMMA SpanNone ==
  ASSUME NEW s \in Seq(Tokens), NEW tokens, None \notin tokens, At(s, 1) \notin tokens
  PROVE  Span(s, tokens) = 0
<1>1. 0 \in 0 .. Len(s)
  BY LenProperties
<1>2. At(s, 0 + 1) \notin tokens
  <2>1. 0 + 1 = 1
    OBVIOUS
  <2>. QED  BY <2>1
<1>3. \A i \in 1 .. 0 : s[i] \in tokens
  OBVIOUS
<1>. QED  BY <1>1, <1>2, <1>3, SpanIs

LEMMA SpanOne ==
  ASSUME NEW s \in Seq(Tokens), NEW tokens, None \notin tokens, tokens \subseteq Tokens,
         At(s, 1) \in tokens, At(s, 2) \notin tokens
  PROVE  Span(s, tokens) = 1 /\ 1 \in 1 .. Len(s) /\ s[1] = At(s, 1)
<1>1. 1 \in 1 .. Len(s) /\ s[1] = At(s, 1)
  <2>1. 1 \in Nat \ {0} /\ At(s, 1) \in Tokens
    OBVIOUS
  <2>. QED  BY <2>1, AtTells
<1>2. At(s, 1 + 1) \notin tokens
  <2>1. 1 + 1 = 2
    OBVIOUS
  <2>. QED  BY <2>1
<1>3. \A i \in 1 .. 1 : s[i] \in tokens
  BY <1>1
<1>4. 1 \in 0 .. Len(s)
  BY <1>1
<1>. QED  BY <1>1, <1>2, <1>3, <1>4, SpanIs

LEMMA AfterNothing ==
  ASSUME NEW s \in Seq(Tokens)
  PROVE  After(s, 0) = s
<1>1. 0 + 1 = 1
  OBVIOUS
<1>. QED  BY <1>1, SubSeqFull DEF After

LEMMA AfterConcat ==
  ASSUME NEW s \in Seq(Tokens), NEW t \in Seq(Tokens)
  PROVE  After(s \o t, Len(s)) = t
<1>. DEFINE st == s \o t
<1>1. /\ st \in Seq(Tokens) /\ Len(st) = Len(s) + Len(t) /\ Len(s) \in Nat /\ Len(t) \in Nat
      /\ \A i \in 1 .. Len(s) + Len(t) : st[i] = IF i <= Len(s) THEN s[i] ELSE t[i - Len(s)]
  BY ConcatProperties, LenProperties
<1>. HIDE DEF st
<1>2. /\ After(st, Len(s)) \in Seq(Tokens) /\ Len(After(st, Len(s))) = Len(st) - Len(s)
      /\ \A i \in 1 .. Len(st) - Len(s) : After(st, Len(s))[i] = st[Len(s) + i]
  <2>1. Len(s) \in 0 .. Len(st)
    BY <1>1
  <2>. QED  BY <1>1, <2>1, AfterFacts
<1>3. ASSUME NEW i \in 1 .. Len(t) PROVE After(st, Len(s))[i] = t[i]
  <2>1. /\ Len(s) + i \in 1 .. Len(s) + Len(t) /\ ~(Len(s) + i <= Len(s))
        /\ (Len(s) + i) - Len(s) = i /\ i \in 1 .. Len(st) - Len(s)
    BY <1>1
  <2>. QED  BY <1>1, <1>2, <2>1
<1>4. Len(After(st, Len(s))) = Len(t)
  BY <1>1, <1>2
<1>. QED  BY <1>2, <1>3, <1>4, SeqEqual DEF st

LEMMA AtConcat ==
  ASSUME NEW s \in Seq(Tokens), NEW t \in Seq(Tokens), NEW i \in 1 .. Len(s)
  PROVE  At(s \o t, i) = s[i]
<1>1. /\ s \o t \in Seq(Tokens) /\ Len(s \o t) = Len(s) + Len(t) /\ Len(s) \in Nat /\ Len(t) \in Nat
      /\ \A j \in 1 .. Len(s) + Len(t) : (s \o t)[j] = IF j <= Len(s) THEN s[j] ELSE t[j - Len(s)]
  BY ConcatProperties, LenProperties
<1>2. i \in 1 .. Len(s) + Len(t) /\ i <= Len(s) /\ i \in Nat \ {0} /\ i <= Len(s \o t)
  BY <1>1
<1>. QED  BY <1>1, <1>2, AtFacts

(* Text that a space sets off from the priority is kept whole, for texts of  *)
(* any length (syslog.rs lines 197-204).                                     *)
THEOREM SpacedText == Spec => []SpacedTextKept
<1>1. ASSUME IInv, pc = "send", At(input, 1) \in Priorities, At(input, 2) = Space
      PROVE  /\ msg.source_timestamp = clock.now /\ msg.hostname = None /\ msg.identifier = None
             /\ msg.message = SubSeq(input, 3, Len(input))
  <2>1. /\ Types /\ input \in Seq(Tokens) /\ Stamped \in Seq(Tokens)
        /\ Body \in Seq(Tokens) /\ Tagged \in Seq(Tokens)
        /\ Stamped = After(input, prio_and_facility(input))
    BY <1>1, FoundTypes DEF IInv, Types
  <2>2. prio_and_facility(input) = 1 /\ 1 \in 0 .. Len(input)
    BY <1>1, <2>1, PriorityPart
  <2>3. At(Stamped, 1) = Space
    <3>1. At(After(input, 1), 1) = At(input, 1 + 1) /\ 1 + 1 = 2
      BY <2>1, <2>2, AfterFacts
    <3>. QED  BY <1>1, <2>1, <2>2, <3>1
  <2>4. /\ version_and_rfc3339_timestamp(Stamped) = 0 /\ rfc3164_timestamp(Stamped) = 0
    <3>1. Span(Stamped, Digits) = 0
      BY <2>1, <2>3, Kinds, TokenSets, SpanNone
    <3>. QED  BY <2>3, <3>1, Kinds DEF version_and_rfc3339_timestamp, rfc3164_timestamp
  <2>5. StampFound = None /\ Body = Stamped
    BY <2>1, <2>4, AfterNothing DEF StampFound, StampLength, Body
  <2>6. hostname(Body) = 0
    <3>1. Span(Body, HostTokens) = 0
      BY <2>1, <2>3, <2>5, Kinds, TokenSets, SpanNone
    <3>. QED  BY <3>1 DEF hostname
  <2>7. HostFound = None /\ Tagged = Stamped
    BY <2>1, <2>5, <2>6, AfterNothing DEF HostFound, Tagged
  <2>8. identifier_and_pid(Tagged) = 0
    <3>1. Span(Tagged, IdentTokens) = 0
      BY <2>1, <2>3, <2>7, Kinds, TokenSets, SpanNone
    <3>. QED  BY <3>1 DEF identifier_and_pid
  <2>9. IdentFound = None /\ Remainder = Stamped
    BY <2>1, <2>7, <2>8, AfterNothing DEF IdentFound, Remainder
  <2>10. msg.message = Tail(Stamped)
    BY <1>1, <2>3, <2>5, <2>7, <2>9 DEF IInv, TextIs, Unspaced
  <2>11. Tail(Stamped) = After(input, 2)
    <3>1. Stamped # <<>> /\ 1 \in 0 .. Len(Stamped)
      <4>1. 1 \in Nat \ {0} /\ At(Stamped, 1) \in Tokens
        BY <2>3, Kinds
      <4>2. 1 \in 1 .. Len(Stamped)
        BY <2>1, <4>1, AtTells
      <4>. QED  BY <2>1, <4>2, EmptySeq
    <3>2. Tail(Stamped) = After(Stamped, 1)
      <4>1. 1 + 1 = 2
        OBVIOUS
      <4>. QED  BY <2>1, <3>1, <4>1, TailIsSubSeq DEF After
    <3>3. 1 \in 0 .. Len(input) - 1 /\ 1 + 1 = 2
      <4>1. Len(Stamped) = Len(input) - 1
        BY <2>1, <2>2, AfterFacts
      <4>. QED  BY <3>1, <4>1
    <3>. QED  BY <2>1, <2>2, <3>2, <3>3, AfterAfter
  <2>12. After(input, 2) = SubSeq(input, 3, Len(input))
    <3>1. 2 + 1 = 3
      OBVIOUS
    <3>. QED  BY <3>1 DEF After
  <2>13. msg.source_timestamp = clock.now /\ msg.hostname = None /\ msg.identifier = None
    BY <1>1, <2>5, <2>7, <2>9 DEF IInv, TextIs, HeaderIs
  <2>. QED  BY <2>10, <2>11, <2>12, <2>13
<1>2. IInv => SpacedTextKept
  BY <1>1 DEF SpacedTextKept
<1>. QED  BY <1>2, Invariance, PTL

(* Short sequences of tokens, and what two that are put together consist of. *)
LEMMA OneToken ==
  ASSUME NEW t \in Tokens
  PROVE  <<t>> \in Seq(Tokens) /\ Len(<<t>>) = 1 /\ <<t>>[1] = t
OBVIOUS

LEMMA TwoTokens ==
  ASSUME NEW t \in Tokens, NEW u \in Tokens
  PROVE  <<t, u>> \in Seq(Tokens) /\ Len(<<t, u>>) = 2 /\ <<t, u>>[1] = t /\ <<t, u>>[2] = u
OBVIOUS

LEMMA Glued ==
  ASSUME NEW s \in Seq(Tokens), NEW t \in Seq(Tokens)
  PROVE  /\ s \o t \in Seq(Tokens)
         /\ Len(s \o t) = Len(s) + Len(t)
         /\ \A i \in 1 .. Len(s) : (s \o t)[i] = s[i]
         /\ \A i \in 1 .. Len(t) : (s \o t)[Len(s) + i] = t[i]
<1>. DEFINE st == s \o t
<1>1. /\ st \in Seq(Tokens) /\ Len(st) = Len(s) + Len(t) /\ Len(s) \in Nat /\ Len(t) \in Nat
      /\ \A i \in 1 .. Len(s) + Len(t) : st[i] = IF i <= Len(s) THEN s[i] ELSE t[i - Len(s)]
  BY ConcatProperties, LenProperties
<1>. HIDE DEF st
<1>2. ASSUME NEW i \in 1 .. Len(s) PROVE st[i] = s[i]
  <2>1. i \in 1 .. Len(s) + Len(t) /\ i <= Len(s)
    BY <1>1
  <2>. QED  BY <1>1, <2>1
<1>3. ASSUME NEW i \in 1 .. Len(t) PROVE st[Len(s) + i] = t[i]
  <2>1. /\ Len(s) + i \in 1 .. Len(s) + Len(t) /\ ~(Len(s) + i <= Len(s))
        /\ (Len(s) + i) - Len(s) = i
    BY <1>1
  <2>. QED  BY <1>1, <2>1
<1>. QED  BY <1>1, <1>2, <1>3 DEF st

LEMMA TakenOne ==
  ASSUME NEW s \in Seq(Tokens), 1 \in 1 .. Len(s)
  PROVE  Taken(s, 1) = <<s[1]>>
<1>1. s[1] \in Tokens
  BY ElementOfSeq
<1>2. /\ SubSeq(s, 1, 1) \in Seq(Tokens) /\ Len(SubSeq(s, 1, 1)) = 1
      /\ SubSeq(s, 1, 1)[1] = s[1]
  <2>1. \A i \in 1 .. 1 : s[i] \in Tokens
    BY <1>1
  <2>2. /\ SubSeq(s, 1, 1) \in Seq(Tokens)
        /\ Len(SubSeq(s, 1, 1)) = IF 1 <= 1 THEN 1 - 1 + 1 ELSE 0
        /\ \A i \in 1 .. 1 - 1 + 1 : SubSeq(s, 1, 1)[i] = s[1 + i - 1]
    BY <2>1, SubSeqProperties
  <2>. QED  BY <2>2
<1>3. <<s[1]>> \in Seq(Tokens) /\ Len(<<s[1]>>) = 1 /\ <<s[1]>>[1] = s[1]
  BY <1>1, OneToken
<1>. DEFINE u == SubSeq(s, 1, 1)
            v == <<s[1]>>
<1>. HIDE DEF u, v
<1>4. u \in Seq(Tokens) /\ v \in Seq(Tokens) /\ Len(u) = 1 /\ Len(v) = 1 /\ u[1] = v[1]
  BY <1>2, <1>3 DEF u, v
<1>5. u = v
  <2>1. \A i \in 1 .. Len(u) : u[i] = v[i]
    BY <1>4
  <2>. QED  BY <1>4, <2>1, SeqEqual
<1>. QED  BY <1>5 DEF u, v, Taken

(* An identifier, its process id if any, the colon and the space.            *)
LEMMA IdentPartShape ==
  ASSUME NEW ident \in IdentTokens, NEW pid \in {<<>>, <<Pid>>}
  PROVE  LET part == IdentPart(ident, pid) IN
         /\ part \in Seq(Tokens) /\ part[1] = ident
         /\ pid = <<>> => Len(part) = 3 /\ part[2] = ":" /\ part[3] = Space
         /\ pid # <<>> => Len(part) = 4 /\ part[2] = Pid /\ part[3] = ":" /\ part[4] = Space
<1>. DEFINE part == IdentPart(ident, pid)
            a == <<ident>>
            b == <<":", Space>>
            c == <<Pid>>
<1>1. ident \in Tokens /\ Space \in Tokens /\ Pid \in Tokens /\ ":" \in Tokens
  BY TokenSets, Kinds
<1>2. a \in Seq(Tokens) /\ Len(a) = 1 /\ a[1] = ident
  BY <1>1, OneToken
<1>3. b \in Seq(Tokens) /\ Len(b) = 2 /\ b[1] = ":" /\ b[2] = Space
  BY <1>1, TwoTokens
<1>4. c \in Seq(Tokens) /\ Len(c) = 1 /\ c[1] = Pid
  BY <1>1, OneToken
<1>5. part = (a \o pid) \o b
  BY DEF IdentPart
<1>6. pid = <<>> \/ (pid # <<>> /\ pid = c)
  <2>1. c # <<>>
    BY <1>4, EmptySeq
  <2>. QED  BY <2>1
<1>. HIDE DEF part, a, b, c
<1>7. CASE pid = <<>>
  <2>1. part = a \o b
    BY <1>2, <1>5, <1>7, ConcatEmptySeq
  <2>2. /\ part \in Seq(Tokens) /\ Len(part) = 1 + 2
        /\ part[1] = a[1] /\ part[1 + 1] = b[1] /\ part[1 + 2] = b[2]
    <3>1. 1 \in 1 .. 1 /\ 1 \in 1 .. 2 /\ 2 \in 1 .. 2
      OBVIOUS
    <3>2. /\ part \in Seq(Tokens) /\ Len(part) = Len(a) + Len(b)
          /\ (\A i \in 1 .. Len(a) : part[i] = a[i]) /\ \A i \in 1 .. Len(b) : part[Len(a) + i] = b[i]
      BY <1>2, <1>3, <2>1, Glued
    <3>3. /\ (\A i \in 1 .. 1 : part[i] = a[i]) /\ (\A i \in 1 .. 2 : part[1 + i] = b[i])
      BY <1>2, <1>3, <3>2
    <3>. QED  BY <1>2, <1>3, <3>1, <3>2, <3>3
  <2>3. 1 + 1 = 2 /\ 1 + 2 = 3
    OBVIOUS
  <2>. QED  BY <1>2, <1>3, <1>7, <2>2, <2>3 DEF part
<1>8. CASE pid # <<>> /\ pid = c
  <2>. DEFINE ac == a \o c
  <2>1. ac \in Seq(Tokens) /\ Len(ac) = 1 + 1 /\ ac[1] = ident /\ ac[1 + 1] = Pid
    <3>1. 1 \in 1 .. 1
      OBVIOUS
    <3>2. /\ ac \in Seq(Tokens) /\ Len(ac) = Len(a) + Len(c)
          /\ (\A i \in 1 .. Len(a) : ac[i] = a[i]) /\ \A i \in 1 .. Len(c) : ac[Len(a) + i] = c[i]
      BY <1>2, <1>4, Glued
    <3>. HIDE DEF ac
    <3>3. /\ (\A i \in 1 .. 1 : ac[i] = a[i]) /\ (\A i \in 1 .. 1 : ac[1 + i] = c[i])
      BY <1>2, <1>4, <3>2
    <3>4. ac[1] = a[1] /\ ac[1 + 1] = c[1]
      BY <3>1, <3>3
    <3>. QED  BY <1>2, <1>4, <3>2, <3>4
  <2>2. part = ac \o b
    BY <1>5, <1>8
  <2>. HIDE DEF ac
  <2>3. ac \in Seq(Tokens) /\ Len(ac) = 2 /\ ac[1] = ident /\ ac[2] = Pid
    <3>1. 1 + 1 = 2
      OBVIOUS
    <3>. QED  BY <2>1, <3>1
  <2>4. /\ part \in Seq(Tokens) /\ Len(part) = 2 + 2
        /\ part[1] = ac[1] /\ part[2] = ac[2] /\ part[2 + 1] = b[1] /\ part[2 + 2] = b[2]
    <3>1. 1 \in 1 .. 2 /\ 2 \in 1 .. 2
      OBVIOUS
    <3>2. /\ part \in Seq(Tokens) /\ Len(part) = Len(ac) + Len(b)
          /\ (\A i \in 1 .. Len(ac) : part[i] = ac[i]) /\ \A i \in 1 .. Len(b) : part[Len(ac) + i] = b[i]
      BY <1>3, <2>2, <2>3, Glued
    <3>3. /\ (\A i \in 1 .. 2 : part[i] = ac[i]) /\ (\A i \in 1 .. 2 : part[2 + i] = b[i])
      BY <1>3, <2>3, <3>2
    <3>. QED  BY <1>3, <2>3, <3>1, <3>2, <3>3
  <2>5. 2 + 1 = 3 /\ 2 + 2 = 4
    OBVIOUS
  <2>. QED  BY <1>3, <1>8, <2>3, <2>4, <2>5 DEF part
<1>. QED  BY <1>6, <1>7, <1>8

(* A host name and the space behind it, or nothing.                          *)
LEMMA HostPartShape ==
  ASSUME NEW host \in {<<>>} \cup {<<h>> : h \in HostTokens}
  PROVE  /\ HostPart(host) \in Seq(Tokens)
         /\ host = <<>> => HostPart(host) = <<>>
         /\ host # <<>> => /\ host[1] \in HostTokens /\ host = <<host[1]>>
                           /\ Len(HostPart(host)) = 2
                           /\ HostPart(host)[1] = host[1] /\ HostPart(host)[2] = Space
<1>1. CASE host = <<>>
  BY <1>1 DEF HostPart
<1>2. CASE host # <<>>
  <2>1. PICK h \in HostTokens : host = <<h>>
    BY <1>2
  <2>2. host \in Seq(Tokens) /\ Len(host) = 1 /\ host[1] = h
    <3>1. h \in Tokens
      BY TokenSets
    <3>. QED  BY <2>1, <3>1, OneToken
  <2>. DEFINE b == <<Space>>
  <2>3. b \in Seq(Tokens) /\ Len(b) = 1 /\ b[1] = Space
    BY Kinds, OneToken
  <2>4. HostPart(host) = host \o b
    BY <1>2 DEF HostPart
  <2>. HIDE DEF b
  <2>5. /\ HostPart(host) \in Seq(Tokens) /\ Len(HostPart(host)) = 1 + 1
        /\ HostPart(host)[1] = host[1] /\ HostPart(host)[1 + 1] = Space
    <3>1. 1 \in 1 .. 1
      OBVIOUS
    <3>. DEFINE part == host \o b
    <3>2. /\ part \in Seq(Tokens) /\ Len(part) = Len(host) + Len(b)
          /\ (\A i \in 1 .. Len(host) : part[i] = host[i])
          /\ \A i \in 1 .. Len(b) : part[Len(host) + i] = b[i]
      BY <2>2, <2>3, Glued
    <3>. HIDE DEF part
    <3>3. (\A i \in 1 .. 1 : part[i] = host[i]) /\ \A i \in 1 .. 1 : part[1 + i] = b[i]
      BY <2>2, <2>3, <3>2
    <3>4. part[1] = host[1] /\ part[1 + 1] = Space /\ Len(part) = 1 + 1
      BY <2>2, <2>3, <3>1, <3>2, <3>3
    <3>. QED  BY <2>4, <3>2, <3>4 DEF part
  <2>6. 1 + 1 = 2
    OBVIOUS
  <2>. QED  BY <1>2, <2>1, <2>2, <2>5, <2>6
<1>. QED  BY <1>1, <1>2

(* What the identifier is put together from is taken off as one part.        *)
LEMMA IdentifierReadBack ==
  ASSUME NEW s \in Seq(Tokens), NEW text \in Seq(Tokens),
         NEW ident \in IdentTokens, NEW pid \in {<<>>, <<Pid>>},
         s = IdentPart(ident, pid) \o text
  PROVE  /\ At(s, 2) = (IF pid = <<>> THEN ":" ELSE Pid)
         /\ Span(s, IdentTokens) = 1
         /\ identifier_and_pid(s) # 0
         /\ Taken(s, 1) = <<ident>>
         /\ s[2] = Pid <=> pid # <<>>
         /\ After(s, identifier_and_pid(s)) = text
<1>. DEFINE part == IdentPart(ident, pid)
<1>1. /\ part \in Seq(Tokens) /\ part[1] = ident
      /\ pid = <<>> => Len(part) = 3 /\ part[2] = ":" /\ part[3] = Space
      /\ pid # <<>> => Len(part) = 4 /\ part[2] = Pid /\ part[3] = ":" /\ part[4] = Space
  BY IdentPartShape
<1>2. s = part \o text
  OBVIOUS
<1>. HIDE DEF part
<1>3. \A i \in 1 .. Len(part) : At(s, i) = part[i]
  BY <1>1, <1>2, AtConcat
<1>4. Len(part) \in Nat /\ (Len(part) = 3 \/ Len(part) = 4)
  BY <1>1, LenProperties
<1>5. At(s, 1) = ident /\ At(s, 2) = part[2] /\ At(s, 3) = part[3]
  <2>1. ASSUME NEW n \in Nat, n = 3 \/ n = 4 PROVE 1 \in 1 .. n /\ 2 \in 1 .. n /\ 3 \in 1 .. n
    BY <2>1
  <2>2. 1 \in 1 .. Len(part) /\ 2 \in 1 .. Len(part) /\ 3 \in 1 .. Len(part)
    BY <1>4, <2>1, Zenon
  <2>. QED  BY <1>1, <1>3, <2>2
<1>6. At(s, 2) = (IF pid = <<>> THEN ":" ELSE Pid)
  BY <1>1, <1>5
<1>7. Span(s, IdentTokens) = 1 /\ 1 \in 1 .. Len(s) /\ s[1] = ident
  BY <1>5, <1>6, TokenSets, Kinds, SpanOne
<1>8. identifier_and_pid(s) = Len(part)
  <2>1. CASE pid = <<>>
    <3>1. 1 + 1 = 2 /\ 1 + 2 = 3 /\ 1 > 0
      OBVIOUS
    <3>2. At(s, 2) = ":" /\ At(s, 3) = Space
      BY <1>1, <1>5, <2>1
    <3>3. identifier_and_pid(s) = 3
      BY <1>7, <3>1, <3>2, Kinds DEF identifier_and_pid
    <3>. QED  BY <1>1, <2>1, <3>3
  <2>2. CASE pid # <<>>
    <3>1. 1 + 1 = 2 /\ 2 + 1 = 3 /\ 2 + 2 = 4 /\ 1 > 0
      OBVIOUS
    <3>2. At(s, 2) = Pid /\ At(s, 3) = ":" /\ At(s, 4) = Space
      <4>1. 4 \in 1 .. Len(part)
        <5>1. Len(part) = 4
          BY <1>1, <2>2
        <5>. QED  BY <1>4, <5>1
      <4>. QED  BY <1>1, <1>3, <1>5, <2>2, <4>1
    <3>3. identifier_and_pid(s) = 4
      BY <1>7, <3>1, <3>2 DEF identifier_and_pid
    <3>. QED  BY <1>1, <2>2, <3>3
  <2>. QED  BY <2>1, <2>2
<1>9. s[2] = At(s, 2)
  <2>1. 2 \in Nat \ {0} /\ At(s, 2) \in Tokens
    BY <1>6, Kinds
  <2>. QED  BY <2>1, AtTells
<1>10. After(s, Len(part)) = text
  BY <1>1, <1>2, AfterConcat
<1>11. Taken(s, 1) = <<ident>>
  BY <1>7, TakenOne
<1>12. identifier_and_pid(s) # 0
  BY <1>4, <1>8
<1>13. s[2] = Pid <=> pid # <<>>
  BY <1>6, <1>9, Kinds
<1>. QED  BY <1>6, <1>7, <1>8, <1>10, <1>11, <1>12, <1>13

(* The host name likewise, whether it is there or not: an identifier is      *)
(* never taken for one, because no space ends it.                            *)
LEMMA HostnameReadBack ==
  ASSUME NEW rest \in Seq(Tokens), NEW host \in {<<>>} \cup {<<h>> : h \in HostTokens},
         At(rest, 2) # Space, At(rest, 2) \notin HostTokens
  PROVE  LET s == HostPart(host) \o rest IN
         /\ hostname(s) = Len(HostPart(host))
         /\ host # <<>> => hostname(s) = 2 /\ Taken(s, 1) = host
         /\ host = <<>> => hostname(s) = 0
         /\ After(s, hostname(s)) = rest
<1>. DEFINE s == HostPart(host) \o rest
<1>1. CASE host = <<>>
  <2>1. HostPart(host) = <<>> /\ s = rest
    BY <1>1, ConcatEmptySeq DEF HostPart
  <2>2. hostname(rest) = 0
    <3>1. CASE At(rest, 1) \in HostTokens
      <4>1. Span(rest, HostTokens) = 1
        BY <3>1, TokenSets, SpanOne
      <4>2. 1 + 1 = 2
        OBVIOUS
      <4>. QED  BY <4>1, <4>2 DEF hostname
    <3>2. CASE At(rest, 1) \notin HostTokens
      BY <3>2, TokenSets, SpanNone DEF hostname
    <3>. QED  BY <3>1, <3>2
  <2>3. Len(<<>>) = 0
    OBVIOUS
  <2>. QED  BY <1>1, <2>1, <2>2, <2>3, AfterNothing
<1>2. CASE host # <<>>
  <2>. DEFINE part == HostPart(host)
  <2>1. /\ part \in Seq(Tokens) /\ Len(part) = 2 /\ part[1] \in HostTokens /\ part[2] = Space
        /\ host = <<part[1]>>
    BY <1>2, HostPartShape
  <2>2. s = part \o rest
    OBVIOUS
  <2>. HIDE DEF part, s
  <2>3. At(s, 1) = part[1] /\ At(s, 2) = Space /\ s \in Seq(Tokens)
    <3>1. 1 \in 1 .. Len(part) /\ 2 \in 1 .. Len(part)
      BY <2>1
    <3>. QED  BY <2>1, <2>2, <3>1, AtConcat, ConcatProperties
  <2>4. Span(s, HostTokens) = 1 /\ 1 \in 1 .. Len(s) /\ s[1] = part[1]
    BY <2>1, <2>3, TokenSets, Kinds, SpanOne
  <2>5. hostname(s) = 2
    <3>1. 1 + 1 = 2 /\ 1 > 0
      OBVIOUS
    <3>. QED  BY <2>3, <2>4, <3>1 DEF hostname
  <2>6. Taken(s, 1) = host
    BY <2>1, <2>3, <2>4, TakenOne
  <2>7. After(s, 2) = rest
    BY <2>1, <2>2, AfterConcat
  <2>. QED  BY <1>2, <2>1, <2>5, <2>6, <2>7 DEF part, s
<1>. QED  BY <1>1, <1>2

LEMMA FormReadBack ==
  ASSUME IInv, pc = "send", NEW p \in Priorities,
         NEW host \in {<<>>} \cup {<<h>> : h \in HostTokens},
         NEW ident \in IdentTokens, NEW pid \in {<<>>, <<Pid>>}, NEW text \in Seq(Tokens),
         input = <<p, Rfc3164>> \o ((HostPart(host) \o IdentPart(ident, pid)) \o text)
  PROVE  /\ msg.hostname = (IF host = <<>> THEN None ELSE host)
         /\ msg.identifier = <<ident>>
         /\ msg.pid = (IF pid = <<>> THEN None ELSE Pid)
         /\ msg.message = text
<1>. DEFINE rest == IdentPart(ident, pid) \o text
            body == HostPart(host) \o rest
            stamp == <<p, Rfc3164>>
<1>1. Types /\ input \in Seq(Tokens) /\ clock.sent \in Nat /\ clock.now \in Nat /\ Stamped \in Seq(Tokens)
  BY FoundTypes DEF IInv, Types
<1>2. /\ IdentPart(ident, pid) \in Seq(Tokens) /\ HostPart(host) \in Seq(Tokens)
      /\ rest \in Seq(Tokens) /\ body \in Seq(Tokens)
  <2>1. IdentPart(ident, pid) \in Seq(Tokens) /\ HostPart(host) \in Seq(Tokens)
    BY IdentPartShape, HostPartShape
  <2>. QED  BY <2>1, ConcatProperties
<1>3. stamp \in Seq(Tokens) /\ Len(stamp) = 2 /\ stamp[1] = p /\ stamp[2] = Rfc3164
  <2>1. p \in Tokens /\ Rfc3164 \in Tokens
    BY TokenSets, Kinds
  <2>. QED  BY <2>1, TwoTokens
<1>4. input = stamp \o body
  BY <1>2, ConcatAssociative
<1>. HIDE DEF stamp, body, rest
<1>5. At(input, 1) = p /\ At(input, 2) = Rfc3164 /\ After(input, 2) = body
  <2>1. 1 \in 1 .. Len(stamp) /\ 2 \in 1 .. Len(stamp)
    BY <1>3
  <2>2. At(stamp \o body, 1) = p /\ At(stamp \o body, 2) = Rfc3164
    BY <1>2, <1>3, <2>1, AtConcat
  <2>3. After(stamp \o body, 2) = body
    BY <1>2, <1>3, AfterConcat
  <2>. QED  BY <1>4, <2>2, <2>3
<1>6. prio_and_facility(input) = 1 /\ 1 \in 0 .. Len(input) /\ Stamped = After(input, 1)
  BY <1>1, <1>5, PriorityPart, FoundTypes
<1>7. At(Stamped, 1) = Rfc3164
  <2>1. 1 \in Nat \ {0} /\ 1 + 1 = 2
    OBVIOUS
  <2>2. At(After(input, 1), 1) = At(input, 1 + 1)
    BY <1>1, <1>6, <2>1, AfterFacts
  <2>. QED  BY <1>5, <1>6, <2>1, <2>2
<1>8. version_and_rfc3339_timestamp(Stamped) = 0 /\ rfc3164_timestamp(Stamped) = 1
  <2>1. Span(Stamped, Digits) = 0
    BY <1>1, <1>7, Kinds, TokenSets, SpanNone
  <2>2. Rfc3164Time(Written(clock.sent), clock.now) # None
    <3>1. Rfc3164Time(Written(clock.sent), clock.now) \in Nat
      BY <1>1, Rfc3164Found
    <3>. QED  BY <3>1, Calendar
  <2>. QED  BY <1>7, <2>1, <2>2 DEF version_and_rfc3339_timestamp, rfc3164_timestamp
<1>9. Body = body
  <2>1. StampLength = 1
    BY <1>8 DEF StampLength
  <2>2. 1 \in 0 .. Len(input) - 1 /\ 1 + 1 = 2
    <3>1. Len(Stamped) = Len(input) - 1
      BY <1>1, <1>6, AfterFacts
    <3>2. 1 \in Nat \ {0} /\ At(Stamped, 1) \in Tokens
      BY <1>7, Kinds
    <3>3. 1 \in 1 .. Len(Stamped)
      BY <1>1, <3>2, AtTells
    <3>. QED  BY <3>1, <3>3
  <2>3. After(After(input, 1), 1) = After(input, 1 + 1)
    BY <1>1, <1>6, <2>2, AfterAfter
  <2>. QED  BY <1>5, <1>6, <2>1, <2>2, <2>3 DEF Body
<1>10. /\ At(rest, 2) = (IF pid = <<>> THEN ":" ELSE Pid)
       /\ Span(rest, IdentTokens) = 1
       /\ identifier_and_pid(rest) # 0
       /\ Taken(rest, 1) = <<ident>>
       /\ rest[2] = Pid <=> pid # <<>>
       /\ After(rest, identifier_and_pid(rest)) = text
  BY <1>2, IdentifierReadBack DEF rest
<1>11. /\ host # <<>> => hostname(body) = 2 /\ Taken(body, 1) = host
       /\ host = <<>> => hostname(body) = 0
       /\ After(body, hostname(body)) = rest
  <2>1. At(rest, 2) # Space /\ At(rest, 2) \notin HostTokens
    BY <1>10, Kinds
  <2>. QED  BY <1>2, <2>1, HostnameReadBack DEF body
<1>12. Tagged = rest /\ Remainder = text
  BY <1>9, <1>10, <1>11 DEF Tagged, Remainder
<1>13. HostFound = (IF host = <<>> THEN None ELSE host)
  <2>1. 2 - 1 = 1 /\ 2 # 0
    OBVIOUS
  <2>. QED  BY <1>9, <1>11, <2>1 DEF HostFound
<1>14. IdentFound = <<ident>> /\ PidFound = (IF pid = <<>> THEN None ELSE Pid)
  <2>1. 1 + 1 = 2
    OBVIOUS
  <2>. QED  BY <1>10, <1>12, <2>1 DEF IdentFound, PidFound
<1>15. IdentFound # None
  <2>1. <<ident>> \in Seq(Tokens)
    BY TokenSets
  <2>. QED  BY <1>14, <2>1, NoneIsNoToken
<1>. QED  BY <1>12, <1>13, <1>14, <1>15 DEF IInv, HeaderIs, TextIs

(* Whatever host name, if any, identifier and text of any length were put    *)
(* together behind a timestamp, those are the fields found, even if the text *)
(* looks like more of a header (syslog.rs lines 168-208).                    *)
THEOREM ReadBack == Spec => []ReadsBack
<1>1. ASSUME IInv, pc = "send",
             NEW host \in {<<>>} \cup {<<h>> : h \in HostTokens}, NEW ident \in IdentTokens,
             NEW pid \in {<<>>, <<Pid>>}
      PROVE  LET header == HostPart(host) \o IdentPart(ident, pid)
                 text == SubSeq(input, 3 + Len(header), Len(input))
             IN Rfc3164Form(header \o text) =>
                  /\ msg.hostname = (IF host = <<>> THEN None ELSE host)
                  /\ msg.identifier = <<ident>>
                  /\ msg.pid = (IF pid = <<>> THEN None ELSE Pid)
                  /\ msg.message = text
  <2>. DEFINE header == HostPart(host) \o IdentPart(ident, pid)
              text == SubSeq(input, 3 + Len(header), Len(input))
  <2>1. input \in Seq(Tokens)
    BY <1>1 DEF IInv, Types
  <2>2. header \in Seq(Tokens)
    <3>1. IdentPart(ident, pid) \in Seq(Tokens) /\ HostPart(host) \in Seq(Tokens)
      BY IdentPartShape, HostPartShape
    <3>. QED  BY <3>1, ConcatProperties
  <2>3. text \in Seq(Tokens)
    <3>. HIDE DEF header
    <3>1. Len(header) \in Nat /\ Len(input) \in Nat
      BY <2>1, <2>2, LenProperties
    <3>2. \A i \in 3 + Len(header) .. Len(input) : input[i] \in Tokens
      BY <2>1, <3>1, ElementOfSeq
    <3>. QED  BY <3>1, <3>2, SubSeqProperties
  <2>. SUFFICES ASSUME Rfc3164Form(header \o text)
                PROVE  /\ msg.hostname = (IF host = <<>> THEN None ELSE host)
                       /\ msg.identifier = <<ident>>
                       /\ msg.pid = (IF pid = <<>> THEN None ELSE Pid)
                       /\ msg.message = text
    OBVIOUS
  <2>. HIDE DEF text
  <2>4. PICK p \in Priorities : input = <<p, Rfc3164>> \o (header \o text)
    BY DEF Rfc3164Form
  <2>. QED  BY <1>1, <2>3, <2>4, FormReadBack
<1>2. IInv => ReadsBack
  BY <1>1 DEF ReadsBack
<1>. QED  BY <1>2, Invariance, PTL

-----------------------------------------------------------------------------
(* What run_server may rely on. *)

Phase ==
  CASE pc = "recv" -> "receiving" [] pc = "exited" -> "gone" [] OTHER -> "sending"

Loop == INSTANCE Receiver WITH phase <- Phase

LEMMA LoopStep == IInv /\ [Next]_vars => [Loop!Next]_(Loop!vars)
<1>. SUFFICES ASSUME IInv, [Next]_vars PROVE [Loop!Next]_(Loop!vars)
  OBVIOUS
<1>. USE DEF Phase, Loop!vars, Loop!Next
<1>1. CASE Recv
  BY <1>1 DEF Recv, Loop!Take
<1>2. CASE Priority \/ Timestamp \/ Hostname \/ Identifier \/ Rest
  BY <1>2 DEF Priority, Timestamp, Hostname, Identifier, Rest
<1>3. CASE Send
  BY <1>3 DEF Send, Loop!Send
<1>4. CASE SendFails
  BY <1>4 DEF SendFails, Loop!Fail
<1>5. CASE DropReceiver
  BY <1>5 DEF DropReceiver, Loop!Drop
<1>6. CASE UNCHANGED vars
  BY <1>6 DEF vars
<1>. QED  BY <1>1, <1>2, <1>3, <1>4, <1>5, <1>6 DEF Next

(* No datagram ends the loop: it hands over a message for each one it takes, *)
(* and it ends only because nobody receives (syslog.rs lines 211-229).       *)
THEOREM EndsOnlyWithIngest == Spec => Loop!Spec
<1>1. Init => Loop!Init
  BY DEF Init, Loop!Init, Phase
<1>. QED  BY <1>1, LoopStep, Invariance, PTL DEF Spec, Loop!Spec
=============================================================================
