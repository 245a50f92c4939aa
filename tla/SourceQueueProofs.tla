-------------------------- MODULE SourceQueueProofs --------------------------
(* Proofs about SourceQueue, for any number of packets and of numbers in a   *)
(* round.                                                                    *)
EXTENDS SourceQueue, RtpSourcesProofs, SequenceTheorems, WellFoundedInduction
-----------------------------------------------------------------------------
(* Numbers and their rounds.                                                 *)

LEMMA DivMod ==
  ASSUME NEW m \in Nat \ {0}, NEW i \in Int
  PROVE  i \div m \in Int /\ i % m \in 0 .. m - 1 /\ i = m * (i \div m) + (i % m)
OBVIOUS

LEMMA FullRounds ==
  ASSUME NEW m \in Nat \ {0}, NEW q \in Int, NEW r \in 0 .. m - 1
  PROVE  (m * q + r) % m = r /\ (m * q + r) \div m = q
OBVIOUS

LEMMA Below ==
  ASSUME NEW m \in Nat \ {0}, NEW r \in 1 - m .. -1
  PROVE  r % m = r + m
OBVIOUS

LEMMA NextRound ==
  ASSUME NEW m \in Nat \ {0}, NEW n \in Int, NEW k \in Int, n > k
  PROVE  m * n >= m * k + m
OBVIOUS

LEMMA SeqModPositive == SeqMod \in Nat \ {0} /\ MaxGap \in Nat /\ MaxLate \in Nat
BY QueueAssumption

LEMMA Rounds ==
  ASSUME NEW i \in Nat
  PROVE  /\ Seq16(i) \in 0 .. SeqMod - 1 /\ Round(i) \in Int
         /\ i = SeqMod * Round(i) + Seq16(i)
BY SeqModPositive, DivMod DEF Seq16, Round

(* Two indices not too far apart are of one round or of one and the next, and *)
(* the shorter way round tells which.                                         *)
LEMMA WrappedFits ==
  ASSUME NEW i \in Nat, NEW t \in Nat, Round(t) <= Round(i),
         NEW g \in Nat, 2 * g < SeqMod, t - g <= i, i <= t + g
  PROVE  i - t = Seq16(i) - Seq16(t) + IF Wrapped(Seq16(t), Seq16(i)) THEN SeqMod ELSE 0
<1> DEFINE a == Round(i)
           b == Round(t)
           seq == Seq16(i)
           max == Seq16(t)
           m == SeqMod
<1>1. m \in Nat \ {0} BY SeqModPositive
<1>2. seq \in 0 .. m - 1 /\ a \in Int /\ i = m * a + seq BY Rounds
<1>3. max \in 0 .. m - 1 /\ b \in Int /\ t = m * b + max BY Rounds
<1>4. seq < max => (seq - max) % m = seq - max + m
  <2> HIDE DEF seq, max, m
  <2>1. ASSUME seq < max PROVE seq - max \in 1 - m .. -1 BY <1>1, <1>2, <1>3, <2>1
  <2> QED BY <1>1, <2>1, Below
<1>5. Wrapped(max, seq) <=> seq < max /\ seq - max + m < max - seq
  BY <1>4 DEF Wrapped
<1>6. b <= a /\ 2 * g < m OBVIOUS
<1> HIDE DEF a, b, seq, max, m
<1>7. CASE a = b
  <2>1. m * a = m * b BY <1>7
  <2>2. i - t = seq - max BY <1>1, <1>2, <1>3, <2>1
  <2>3. ~(seq - max + m < max - seq) BY <1>1, <1>2, <1>3, <1>6, <2>2
  <2> QED BY <1>5, <2>2, <2>3 DEF seq, max, m
<1>8. CASE a = b + 1
  <2>1. m * a = m * b + m BY <1>1, <1>3, <1>8
  <2>2. i - t = seq - max + m BY <1>1, <1>2, <1>3, <2>1
  <2>3. seq < max /\ seq - max + m < max - seq BY <1>1, <1>2, <1>3, <1>6, <2>2
  <2> QED BY <1>5, <2>2, <2>3 DEF seq, max, m
<1>9. ~(a > b + 1)
  <2> SUFFICES ASSUME a > b + 1 PROVE FALSE OBVIOUS
  <2>1. m * (b + 1) = m * b + m BY <1>1, <1>3
  <2>2. m * a >= m * (b + 1) + m BY <1>1, <1>2, <1>3, NextRound
  <2>3. m * a \in Int /\ m * b \in Int BY <1>1, <1>2, <1>3
  <2> QED BY <1>1, <1>2, <1>3, <1>6, <2>1, <2>2, <2>3
<1> QED BY <1>2, <1>3, <1>6, <1>7, <1>8, <1>9
-----------------------------------------------------------------------------
(* The list.                                                                 *)

Listed == [index : Nat, ext : Nat]

Sorted(list) == \A j, k \in DOMAIN list : j < k => list[j].ext < list[k].ext

(* Nothing is in the list l that was not in the list or is the packet p. *)
From(l, list, p) ==
  \A j \in DOMAIN l : l[j] = p \/ \E k \in DOMAIN list : l[j] = list[k]

LEMMA PlaceExists ==
  ASSUME NEW list \in Seq(Listed), NEW p \in Listed
  PROVE  LET k == Place(list, p)
         IN /\ k \in 0 .. Len(list)
            /\ k # 0 => list[k].ext <= p.ext
            /\ \A j \in k + 1 .. Len(list) : list[j].ext > p.ext
<1> DEFINE n == Len(list)
           T == {k \in 0 .. n : \A j \in k + 1 .. n : list[j].ext > p.ext}
           Less == {q \in Nat \X Nat : q[1] < q[2]}
<1>1. n \in Nat OBVIOUS
<1>2. \A j \in 1 .. n : list[j].ext \in Nat
  <2>1. \A j \in 1 .. n : list[j] \in Listed OBVIOUS
  <2> QED BY <2>1 DEF Listed
<1>3. p.ext \in Nat BY DEF Listed
<1>4. IsWellFoundedOn(Less, Nat) BY NatLessThanWellFounded DEF OpToRel
<1>5. n \in T BY <1>1
<1>6. T \subseteq Nat /\ T # {} BY <1>1, <1>5
<1>7. PICK k \in T : \A y \in T : <<y, k>> \notin Less
  <2> HIDE DEF Less, T
  <2> QED BY <1>4, <1>6, WFMin
<1>8. ASSUME k # 0 PROVE list[k].ext <= p.ext
  <2>1. k \in 1 .. n /\ k - 1 \in 0 .. n /\ k - 1 \in Nat BY <1>1, <1>8
  <2>2. k - 1 \notin T
    <3>1. <<k - 1, k>> \in Less BY <2>1
    <3> QED BY <1>7, <3>1
  <2>3. PICK j \in k .. n : ~(list[j].ext > p.ext) BY <2>1, <2>2
  <2>4. j = k BY <1>1, <2>1, <2>3
  <2> QED BY <1>2, <1>3, <2>1, <2>3, <2>4
<1>9. \E l \in 0 .. n : /\ l # 0 => list[l].ext <= p.ext
                        /\ \A j \in l + 1 .. n : list[j].ext > p.ext
  BY <1>8
<1> QED BY <1>9 DEF Place

LEMMA InsertedList ==
  ASSUME NEW list \in Seq(Listed), Sorted(list), NEW p \in Listed
  PROVE  LET l == Inserted(list, p)
         IN /\ l \in Seq(Listed) /\ Sorted(l) /\ From(l, list, p)
            /\ Len(l) <= Len(list) + 1
<1> DEFINE l == Inserted(list, p)
           n == Len(list)
           k == Place(list, p)
<1>1. /\ k \in 0 .. n /\ n \in Nat
      /\ k # 0 => list[k].ext <= p.ext
      /\ \A j \in k + 1 .. n : list[j].ext > p.ext
  BY PlaceExists
<1>2. \A j \in 1 .. n : list[j] \in Listed OBVIOUS
<1>3. DOMAIN list = 1 .. n OBVIOUS
<1>4. CASE k # 0 /\ list[k].ext = p.ext
  <2>1. l = list BY <1>4 DEF Inserted
  <2> QED BY <1>1, <2>1 DEF From
<1>5. CASE ~(k # 0 /\ list[k].ext = p.ext)
  <2> DEFINE s == SubSeq(list, 1, k)
             t == SubSeq(list, k + 1, n)
             u == <<p>> \o t
             el(j) == IF j <= k THEN list[j] ELSE IF j = k + 1 THEN p ELSE list[j - 1]
  <2>1. l = s \o <<p>> \o t BY <1>5 DEF Inserted
  <2> HIDE DEF l, k, n
  <2>2. s \in Seq(Listed) /\ Len(s) = k /\ \A j \in 1 .. k : s[j] = list[j]
    <3>1. \A j \in 1 .. k : list[j] \in Listed BY <1>1, <1>2
    <3>2. Len(s) = IF 1 <= k THEN k - 1 + 1 ELSE 0 BY <1>1, <3>1, SubSeqProperties
    <3>3. \A j \in 1 .. k - 1 + 1 : s[j] = list[1 + j - 1] BY <1>1, <3>1, SubSeqProperties
    <3>4. s \in Seq(Listed) BY <1>1, <3>1, SubSeqProperties
    <3> HIDE DEF s
    <3> QED BY <1>1, <3>2, <3>3, <3>4
  <2>3. t \in Seq(Listed) /\ Len(t) = n - k /\ \A j \in 1 .. n - k : t[j] = list[k + j]
    <3> DEFINE a == k + 1
    <3>0. a \in Int /\ n \in Int BY <1>1
    <3>1. \A j \in a .. n : list[j] \in Listed BY <1>1, <1>2
    <3> HIDE DEF a
    <3>2. /\ SubSeq(list, a, n) \in Seq(Listed)
          /\ Len(SubSeq(list, a, n)) = IF a <= n THEN n - a + 1 ELSE 0
          /\ \A j \in 1 .. n - a + 1 : SubSeq(list, a, n)[j] = list[a + j - 1]
      BY <3>0, <3>1, SubSeqProperties
    <3>3. t = SubSeq(list, a, n) BY DEF a
    <3> HIDE DEF t
    <3> QED BY <1>1, <3>2, <3>3 DEF a
  <2>4. <<p>> \in Seq(Listed) /\ Len(<<p>>) = 1 /\ <<p>>[1] = p OBVIOUS
  <2> HIDE DEF s, t
  <2> DEFINE v == s \o <<p>>
  <2>5. /\ v \in Seq(Listed) /\ Len(v) = k + 1
        /\ \A j \in 1 .. k + 1 : v[j] = IF j <= k THEN list[j] ELSE p
    <3>1. v \in Seq(Listed) /\ Len(v) = Len(s) + 1 BY <2>2, <2>4, ConcatProperties
    <3>2. \A j \in 1 .. Len(s) + 1 : v[j] = IF j <= Len(s) THEN s[j] ELSE <<p>>[j - Len(s)]
      BY <2>2, <2>4, ConcatProperties
    <3> HIDE DEF v
    <3> QED BY <1>1, <2>2, <2>4, <3>1, <3>2
  <2>6. l = v \o t BY <2>1
  <2> HIDE DEF v
  <2>7. l \in Seq(Listed) /\ Len(l) = n + 1
    <3>1. l \in Seq(Listed) /\ Len(l) = Len(v) + Len(t)
      BY <2>3, <2>5, <2>6, ConcatProperties
    <3>2. (k + 1) + (n - k) = n + 1 BY <1>1
    <3> QED BY <2>3, <2>5, <3>1, <3>2
  <2>8. ASSUME NEW j \in 1 .. n + 1 PROVE l[j] = el(j)
    <3>0. j \in 1 .. Len(v) + Len(t) BY <1>1, <2>3, <2>5
    <3>1. l[j] = IF j <= k + 1 THEN v[j] ELSE t[j - (k + 1)]
      <4>1. \A i \in 1 .. Len(v) + Len(t) :
              (v \o t)[i] = IF i <= Len(v) THEN v[i] ELSE t[i - Len(v)]
        BY <2>3, <2>5, ConcatProperties
      <4> QED BY <2>5, <2>6, <3>0, <4>1
    <3>2. CASE j <= k + 1 BY <1>1, <2>5, <3>1, <3>2
    <3>3. CASE j > k + 1
      <4>1. j - (k + 1) \in 1 .. n - k /\ k + (j - (k + 1)) = j - 1 BY <1>1, <3>3
      <4>2. t[j - (k + 1)] = list[j - 1] BY <2>3, <4>1
      <4> QED BY <1>1, <3>1, <3>3, <4>2
    <3> QED BY <1>1, <3>2, <3>3
  <2>9. DOMAIN l = 1 .. n + 1 BY <2>7
  <2> HIDE DEF el
  <2>10. From(l, list, p)
    <3> SUFFICES ASSUME NEW j \in 1 .. n + 1
                 PROVE  l[j] = p \/ \E i \in DOMAIN list : l[j] = list[i]
      BY <2>9 DEF From
    <3>1. CASE j <= k
      <4>1. j \in DOMAIN list BY <1>1, <1>3, <3>1
      <4> QED BY <1>1, <2>8, <3>1, <4>1 DEF el
    <3>2. CASE j = k + 1 BY <1>1, <2>8, <3>2 DEF el
    <3>3. CASE j > k + 1
      <4>1. j - 1 \in DOMAIN list BY <1>1, <1>3, <3>3
      <4> QED BY <1>1, <2>8, <3>3, <4>1 DEF el
    <3> QED BY <1>1, <3>1, <3>2, <3>3
  <2>11. ASSUME NEW i \in 1 .. n + 1, NEW j \in 1 .. n + 1, i < j
         PROVE  l[i].ext < l[j].ext
    <3>0. p.ext \in Nat /\ \A h \in 1 .. n : list[h].ext \in Nat BY <1>2 DEF Listed
    <3>1. \A g, h \in 1 .. n : g < h => list[g].ext < list[h].ext BY <1>3 DEF Sorted
    <3>2. \A h \in 1 .. k : list[h].ext < p.ext
      <4> SUFFICES ASSUME NEW h \in 1 .. k PROVE list[h].ext < p.ext OBVIOUS
      <4>1. k \in 1 .. n /\ list[k].ext < p.ext BY <1>1, <1>5, <3>0
      <4>2. h \in 1 .. n BY <1>1
      <4>3. CASE h = k BY <4>1, <4>3
      <4>4. CASE h < k
        <5>1. list[h].ext < list[k].ext BY <3>1, <4>1, <4>2, <4>4
        <5> QED BY <3>0, <4>1, <4>2, <5>1
      <4> QED BY <1>1, <4>3, <4>4
    <3>3. l[i] = el(i) /\ l[j] = el(j) BY <2>8
    <3>4. CASE j <= k
      <4>1. i \in 1 .. n /\ j \in 1 .. n /\ i <= k BY <1>1, <2>11, <3>4
      <4> QED BY <2>11, <3>1, <3>3, <3>4, <4>1 DEF el
    <3>5. CASE j = k + 1
      <4>1. i \in 1 .. k /\ i <= k /\ ~(j <= k) BY <1>1, <2>11, <3>5
      <4> QED BY <3>2, <3>3, <3>5, <4>1 DEF el
    <3>6. CASE j > k + 1
      <4>1. /\ j - 1 \in k + 1 .. n /\ j - 1 \in 1 .. n /\ ~(j <= k) /\ j # k + 1
        BY <1>1, <3>6
      <4>2. el(j) = list[j - 1] BY <4>1 DEF el
      <4>3. list[j - 1].ext > p.ext BY <1>1, <4>1
      <4>4. CASE i <= k
        <5>1. i \in 1 .. k /\ i \in 1 .. n BY <1>1, <4>4
        <5>2. list[i].ext < p.ext BY <3>2, <5>1
        <5> QED BY <3>0, <3>3, <4>1, <4>2, <4>3, <4>4, <5>1, <5>2 DEF el
      <4>5. CASE i = k + 1
        <5>1. ~(i <= k) BY <1>1, <4>5
        <5> QED BY <3>0, <3>3, <4>1, <4>2, <4>3, <4>5, <5>1 DEF el
      <4>6. CASE i > k + 1
        <5>1. i - 1 \in 1 .. n /\ i - 1 < j - 1 /\ ~(i <= k) /\ i # k + 1
          BY <1>1, <2>11, <4>6
        <5> QED BY <3>1, <3>3, <4>1, <4>2, <5>1 DEF el
      <4> QED BY <1>1, <4>4, <4>5, <4>6
    <3> QED BY <1>1, <3>4, <3>5, <3>6
  <2>12. Sorted(l) BY <2>9, <2>11 DEF Sorted
  <2>13. /\ l \in Seq(Listed) /\ Sorted(l) /\ From(l, list, p) /\ Len(l) <= n + 1
    BY <1>1, <2>7, <2>10, <2>12
  <2> QED BY <2>13 DEF l, n
<1> QED BY <1>4, <1>5

LEMMA TrimmedList ==
  ASSUME NEW list \in Seq(Listed), Sorted(list), NEW valid \in BOOLEAN
  PROVE  LET l == Trimmed(list, valid)
         IN /\ l \in Seq(Listed) /\ Sorted(l) /\ Len(l) <= Len(list)
            /\ \A j \in DOMAIN l : \E k \in DOMAIN list : l[j] = list[k]
            /\ ~valid /\ Len(list) <= MaxProbationPackets => Len(l) < MaxProbationPackets
<1> DEFINE l == Trimmed(list, valid)
<1>0. MaxProbationPackets \in Nat /\ MaxProbationPackets > 1 /\ Len(list) \in Nat
  BY QueueAssumption
<1>1. CASE ~valid /\ Len(list) = MaxProbationPackets
  <2>1. l = Tail(list) /\ list # << >> BY <1>0, <1>1 DEF Trimmed
  <2>2. /\ l \in Seq(Listed) /\ Len(l) = Len(list) - 1
        /\ \A i \in 1 .. Len(l) : l[i] = list[i + 1]
    BY <2>1, HeadTailProperties
  <2> HIDE DEF l
  <2>3. DOMAIN l = 1 .. Len(l) /\ DOMAIN list = 1 .. Len(list) BY <2>2
  <2>4. ASSUME NEW j \in DOMAIN l PROVE j + 1 \in DOMAIN list /\ l[j] = list[j + 1]
    BY <1>0, <2>2, <2>3
  <2>5. Sorted(l)
    <3> SUFFICES ASSUME NEW i \in DOMAIN l, NEW j \in DOMAIN l, i < j
                 PROVE  l[i].ext < l[j].ext
      BY DEF Sorted
    <3>1. i + 1 < j + 1 BY <2>3
    <3> QED BY <2>4, <3>1 DEF Sorted
  <2>6. Len(l) <= Len(list) /\ Len(l) < MaxProbationPackets BY <1>0, <1>1, <2>2
  <2> QED BY <2>2, <2>4, <2>5, <2>6 DEF l
<1>2. CASE ~(~valid /\ Len(list) = MaxProbationPackets)
  <2>1. l = list BY <1>2 DEF Trimmed
  <2> QED BY <1>0, <1>2, <2>1
<1> QED BY <1>1, <1>2
-----------------------------------------------------------------------------
(* The statistics after n packets                                            *)

StatsType ==
  [sentdata : BOOLEAN, numcycles : Nat, baseseqnr : Int, exthighseqnr : Nat,
   probation : 0 .. Probation, prevseqnr : 0 .. SeqMod - 1]

StatsOK(s, n) ==
  /\ s \in StatsType
  /\ \E c \in 0 .. n : s.numcycles = SeqMod * c
  /\ s.exthighseqnr - s.numcycles \in 0 .. SeqMod - 1
  /\ IF s.sentdata THEN s.baseseqnr < s.exthighseqnr
     ELSE s.numcycles = 0 /\ s.exthighseqnr = 0

LEMMA HighestNumber ==
  ASSUME NEW n \in Nat, NEW s, StatsOK(s, n)
  PROVE  /\ s.exthighseqnr % SeqMod = s.exthighseqnr - s.numcycles
         /\ s.exthighseqnr % SeqMod \in 0 .. SeqMod - 1
<1>1. PICK c \in 0 .. n : s.numcycles = SeqMod * c BY DEF StatsOK
<1> DEFINE r == s.exthighseqnr - s.numcycles
<1>2. /\ r \in 0 .. SeqMod - 1 /\ c \in Int
      /\ s.exthighseqnr \in Nat /\ s.numcycles \in Nat
  BY DEF StatsOK, StatsType
<1>3. s.exthighseqnr = SeqMod * c + r BY <1>1, <1>2
<1> HIDE DEF r
<1>4. s.exthighseqnr % SeqMod = r BY <1>2, <1>3, SeqModPositive, FullRounds
<1> QED BY <1>2, <1>4 DEF r

LEMMA AdvancedStats ==
  ASSUME NEW n \in Nat, NEW s, StatsOK(s, n), s.sentdata, NEW seq \in 0 .. SeqMod - 1
  PROVE  LET u == Advanced(s, seq)
             e == Extended(s, seq)
             max == s.exthighseqnr % SeqMod
         IN /\ StatsOK(u, n + 1) /\ u.sentdata
            /\ e \in Nat /\ e % SeqMod = seq
            /\ e <= u.exthighseqnr /\ s.exthighseqnr <= u.exthighseqnr
            /\ u.exthighseqnr = IF seq < max /\ ~Wrapped(max, seq) THEN s.exthighseqnr ELSE e
<1> DEFINE u == Advanced(s, seq)
           e == Extended(s, seq)
           max == s.exthighseqnr % SeqMod
           w == IF Wrapped(max, seq) THEN 1 ELSE 0
           m == SeqMod
           y == s.numcycles
           z == s.exthighseqnr
<1>1. PICK c \in 0 .. n : y = m * c BY DEF StatsOK
<1>2. max = z - y /\ max \in 0 .. m - 1 BY HighestNumber
<1>3. /\ m \in Nat \ {0} /\ c \in Nat /\ y \in Nat /\ z \in Nat /\ w \in {0, 1}
      /\ s.baseseqnr \in Int /\ s.baseseqnr < z /\ s \in StatsType
  BY SeqModPositive DEF StatsOK, StatsType
<1>4. Wrapped(max, seq) => seq < max BY DEF Wrapped
<1>5. e = seq + y + (IF Wrapped(max, seq) THEN m ELSE 0) BY DEF Extended
<1>6. e = m * (c + w) + seq
  <2> HIDE DEF e, max, m, y
  <2>1. m * (c + 1) = m * c + m /\ m * (c + 0) = m * c BY <1>3
  <2>2. m * c \in Int BY <1>3
  <2>3. CASE Wrapped(max, seq) BY <1>1, <1>3, <1>5, <2>1, <2>2, <2>3
  <2>4. CASE ~Wrapped(max, seq) BY <1>1, <1>3, <1>5, <2>1, <2>2, <2>4
  <2> QED BY <2>3, <2>4
<1>7. e \in Nat /\ e % m = seq
  <2>1. c + w \in Int /\ seq \in 0 .. m - 1 BY <1>3
  <2> DEFINE q == c + w
  <2> HIDE DEF e, q, m
  <2>2. e % m = seq
    <3>1. (m * q + seq) % m = seq BY <1>3, <2>1, FullRounds DEF q
    <3> QED BY <1>6, <3>1 DEF q
  <2> HIDE DEF max, y
  <2> QED BY <1>3, <1>5, <2>2
<1>8. CASE seq < max /\ ~Wrapped(max, seq)
  <2>1. u = s BY <1>8 DEF Advanced
  <2>2. e <= z
    <3> HIDE DEF e, max, y, z, m
    <3> QED BY <1>2, <1>3, <1>5, <1>8
  <2>3. StatsOK(s, n + 1) BY <1>1 DEF StatsOK
  <2> HIDE DEF u, e, max, z
  <2>4. u.sentdata /\ u.exthighseqnr = z BY <2>1 DEF z
  <2> QED BY <1>3, <1>7, <1>8, <2>1, <2>2, <2>3, <2>4 DEF u, e, max, z
<1>9. CASE ~(seq < max /\ ~Wrapped(max, seq))
  <2> DEFINE d == IF Wrapped(max, seq) THEN y + m ELSE y
  <2>1. u = [s EXCEPT !.numcycles = d, !.exthighseqnr = e] BY <1>9 DEF Advanced
  <2> HIDE DEF u, e, max, z, y, m
  <2>2. d = m * (c + w)
    <3>1. m * (c + 1) = m * c + m /\ m * (c + 0) = m * c BY <1>3
    <3>2. CASE Wrapped(max, seq) BY <1>1, <3>1, <3>2
    <3>3. CASE ~Wrapped(max, seq) BY <1>1, <3>1, <3>3
    <3> QED BY <3>2, <3>3
  <2>3. d \in Nat /\ e - d = seq /\ e >= z
    <3>1. CASE Wrapped(max, seq) BY <1>2, <1>3, <1>4, <1>5, <3>1
    <3>2. CASE ~Wrapped(max, seq) BY <1>2, <1>3, <1>5, <1>9, <3>2
    <3> QED BY <3>1, <3>2
  <2>4. c + w \in 0 .. n + 1 BY <1>3
  <2> HIDE DEF d, w
  <2>5. /\ u \in StatsType /\ u.numcycles = d /\ u.exthighseqnr = e
        /\ u.baseseqnr = s.baseseqnr /\ u.sentdata
    BY <1>3, <1>7, <2>1, <2>3 DEF StatsType
  <2>6. \E q \in 0 .. n + 1 : u.numcycles = m * q BY <2>2, <2>4, <2>5
  <2>7. u.baseseqnr < u.exthighseqnr BY <1>3, <1>7, <2>3, <2>5
  <2>8. StatsOK(u, n + 1) BY <2>3, <2>5, <2>6, <2>7 DEF StatsOK, m
  <2>9. e <= u.exthighseqnr /\ z <= u.exthighseqnr BY <1>7, <2>3, <2>5
  <2> QED BY <1>7, <1>9, <2>5, <2>8, <2>9 DEF u, e, max, z, m
<1> QED BY <1>8, <1>9

LEMMA FirstStats ==
  ASSUME NEW n \in Nat, NEW s, StatsOK(s, n), ~s.sentdata, NEW seq \in 0 .. SeqMod - 1
  PROVE  LET u == FirstAccepted(s, seq)
         IN /\ StatsOK(u, n + 1) /\ u.sentdata /\ u.exthighseqnr % SeqMod = seq
            /\ u.exthighseqnr = IF seq = 0 THEN SeqMod ELSE seq
<1> DEFINE u == FirstAccepted(s, seq)
           ext == IF seq = 0 THEN SeqMod ELSE seq
           d == IF seq = 0 THEN SeqMod ELSE s.numcycles
           c == IF seq = 0 THEN 1 ELSE 0
           base == ext - 1
<1>1. SeqMod \in Nat \ {0} /\ s.numcycles = 0 /\ s \in StatsType
  BY SeqModPositive DEF StatsOK
<1>2. u = [s EXCEPT !.sentdata = TRUE, !.probation = 0, !.numcycles = d,
                    !.baseseqnr = base, !.exthighseqnr = ext]
  BY DEF FirstAccepted
<1>3. d \in Nat /\ ext \in Nat /\ ext - d = seq BY <1>1
<1>4. c \in 0 .. n + 1 /\ d = SeqMod * c BY <1>1
<1>5. 0 \in 0 .. Probation BY SourcesAssumption
<1>6. base \in Int /\ base < ext BY <1>3
<1> HIDE DEF u, ext, d, c, base
<1>7. /\ u \in StatsType /\ u.numcycles = d /\ u.exthighseqnr = ext
      /\ u.baseseqnr = base /\ u.sentdata
  BY <1>1, <1>2, <1>3, <1>5, <1>6 DEF StatsType
<1>8. StatsOK(u, n + 1)
  <2>1. \E q \in 0 .. n + 1 : u.numcycles = SeqMod * q BY <1>4, <1>7
  <2>2. u.exthighseqnr - u.numcycles \in 0 .. SeqMod - 1 BY <1>3, <1>7
  <2>3. u.baseseqnr < u.exthighseqnr BY <1>6, <1>7
  <2> QED BY <1>7, <2>1, <2>2, <2>3 DEF StatsOK
<1>9. n + 1 \in Nat OBVIOUS
<1>10. u.exthighseqnr % SeqMod = seq BY <1>3, <1>7, <1>8, <1>9, HighestNumber
<1> QED BY <1>7, <1>8, <1>10 DEF u, ext

LEMMA ProbationStats ==
  ASSUME NEW n \in Nat, NEW s, StatsOK(s, n), ~s.sentdata, NEW seq \in 0 .. SeqMod - 1
  PROVE  StatsOK(OnProbation(s, seq), n + 1) /\ ~OnProbation(s, seq).sentdata
<1> DEFINE u == OnProbation(s, seq)
           b == IF InSequence(s, seq) THEN s.probation - 1 ELSE Probation
<1>1. s \in StatsType /\ s.probation \in 0 .. Probation BY DEF StatsOK, StatsType
<1>2. b \in 0 .. Probation BY <1>1, SourcesAssumption DEF InSequence
<1>3. u = [s EXCEPT !.probation = b, !.prevseqnr = seq] BY DEF OnProbation
<1> HIDE DEF u, b
<1>4. /\ u \in StatsType /\ u.numcycles = s.numcycles /\ u.exthighseqnr = s.exthighseqnr
      /\ u.baseseqnr = s.baseseqnr /\ u.sentdata = s.sentdata
  BY <1>1, <1>2, <1>3 DEF StatsType
<1>5. PICK c \in 0 .. n : s.numcycles = SeqMod * c BY DEF StatsOK
<1>6. c \in 0 .. n + 1 OBVIOUS
<1>7. \E q \in 0 .. n + 1 : u.numcycles = SeqMod * q BY <1>4, <1>5, <1>6
<1> QED BY <1>4, <1>7 DEF StatsOK, u

(* What a packet that is the (n + 1)st leaves with, and the statistics after it *)
LeavesWith(r, s, seq, n) ==
  /\ StatsOK(r.stats, n + 1) /\ r.accept \in BOOLEAN
  /\ r.accept <=> r.stats.sentdata
  /\ s.sentdata => r.accept /\ s.exthighseqnr <= r.stats.exthighseqnr
  /\ r.ext \in Nat /\ r.ext % SeqMod = seq
  /\ IF r.accept THEN r.ext <= r.stats.exthighseqnr ELSE r.ext = seq

LEMMA ProcessedOK ==
  ASSUME NEW n \in Nat, NEW s, StatsOK(s, n), NEW seq \in 0 .. SeqMod - 1,
         NEW applies \in BOOLEAN
  PROVE  LeavesWith(Processed(s, seq, applies), s, seq, n)
<1> DEFINE r == Processed(s, seq, applies)
<1> SUFFICES LeavesWith(r, s, seq, n) OBVIOUS
<1> USE DEF LeavesWith
<1>1. CASE s.sentdata
  <2>1. r = [stats |-> Advanced(s, seq), accept |-> TRUE, ext |-> Extended(s, seq)]
    BY <1>1 DEF Processed
  <2>2. /\ StatsOK(Advanced(s, seq), n + 1) /\ Advanced(s, seq).sentdata
        /\ Extended(s, seq) \in Nat /\ Extended(s, seq) % SeqMod = seq
        /\ Extended(s, seq) <= Advanced(s, seq).exthighseqnr
        /\ s.exthighseqnr <= Advanced(s, seq).exthighseqnr
    BY <1>1, AdvancedStats
  <2> QED BY <2>1, <2>2
<1>2. CASE ~s.sentdata /\ applies /\ ~(InSequence(s, seq) /\ s.probation = 1)
  <2>1. r = [stats |-> OnProbation(s, seq), accept |-> FALSE, ext |-> seq]
    BY <1>2 DEF Processed
  <2>2. StatsOK(OnProbation(s, seq), n + 1) /\ ~OnProbation(s, seq).sentdata
    BY <1>2, ProbationStats
  <2>3. seq \in Nat /\ seq % SeqMod = seq
    <3>1. SeqMod * 0 + seq = seq BY SeqModPositive
    <3>2. seq % SeqMod = seq BY <3>1, SeqModPositive, FullRounds
    <3> QED BY <3>2
  <2>4. ~s.sentdata BY <1>2
  <2> QED BY <2>1, <2>2, <2>3, <2>4
<1>3. CASE ~s.sentdata /\ ~(applies /\ ~(InSequence(s, seq) /\ s.probation = 1))
  <2> DEFINE u == FirstAccepted(s, seq)
  <2>1. r = [stats |-> u, accept |-> TRUE, ext |-> u.exthighseqnr] BY <1>3 DEF Processed
  <2>2. StatsOK(u, n + 1) /\ u.sentdata /\ u.exthighseqnr % SeqMod = seq
    BY <1>3, FirstStats
  <2> HIDE DEF u, r
  <2>3. u.exthighseqnr \in Nat BY <2>2 DEF StatsOK, StatsType
  <2>4. u.exthighseqnr <= u.exthighseqnr BY <2>3
  <2>5. r.stats = u /\ r.accept /\ r.ext = u.exthighseqnr /\ ~s.sentdata BY <1>3, <2>1
  <2>6. r.accept \in BOOLEAN BY <2>1
  <2> QED BY <2>2, <2>3, <2>4, <2>5, <2>6 DEF r
<1> QED BY <1>1, <1>2, <1>3
-----------------------------------------------------------------------------
(* The queue of a source.                                                    *)

SeenType ==
  [part : {"table", "queue"}, arrivals : 0 .. MaxArrivals, highest : Nat, top : Nat,
   offset : Int, orderly : BOOLEAN, split : BOOLEAN]

(* A packet in the list: its number is the one on the wire and full rounds,  *)
(* and not above the highest but on probation. *)
PacketOK(p, s) ==
  /\ p.ext % SeqMod = Seq16(p.index)
  /\ p.ext < SeqMod \/ (s.sentdata /\ p.ext <= s.exthighseqnr)

(* While rounds come one after another, and none ends on probation: on       *)
(* probation all that is in the list is of the last round; afterwards        *)
(* numbers are indices but for a constant.                                   *)
InOrder ==
  IF stats.sentdata
  THEN /\ Round(seen.top) = Round(seen.highest)
       /\ Seq16(seen.top) = stats.exthighseqnr % SeqMod
       /\ seen.top = stats.exthighseqnr + seen.offset
       /\ \A j \in DOMAIN packetlist :
            packetlist[j].index = packetlist[j].ext + seen.offset
  ELSE \A j \in DOMAIN packetlist : Round(packetlist[j].index) = Round(seen.highest)

QueueInv ==
  /\ validated \in BOOLEAN /\ seen \in SeenType /\ StatsOK(stats, seen.arrivals)
  /\ packetlist \in Seq(Listed) /\ Sorted(packetlist)
  /\ Len(packetlist) <= seen.arrivals
  /\ ~validated => Len(packetlist) <= MaxProbationPackets
  /\ \A j \in DOMAIN packetlist : PacketOK(packetlist[j], stats)
  /\ seen.highest >= SeqMod - MaxLate
  /\ seen.arrivals = 0 => ~stats.sentdata /\ seen.highest >= SeqMod
  /\ IF stats.sentdata THEN seen.top <= seen.highest /\ seen.highest <= seen.top + MaxLate
     ELSE seen.top = 0
  /\ seen.orderly /\ ~seen.split => InOrder

LEMMA RoundMonotone ==
  ASSUME NEW i \in Nat, NEW j \in Nat, i <= j
  PROVE  Round(i) <= Round(j)
<1> DEFINE a == Round(i)
           b == Round(j)
           m == SeqMod
<1>1. m \in Nat \ {0} BY SeqModPositive
<1>2. a \in Int /\ Seq16(i) \in 0 .. m - 1 /\ i = m * a + Seq16(i) BY Rounds
<1>3. b \in Int /\ Seq16(j) \in 0 .. m - 1 /\ j = m * b + Seq16(j) BY Rounds
<1> HIDE DEF a, b, m
<1>4. ~(a > b)
  <2> SUFFICES ASSUME a > b PROVE FALSE OBVIOUS
  <2>1. m * a >= m * b + m BY <1>1, <1>2, <1>3, NextRound
  <2>2. m * a \in Int /\ m * b \in Int BY <1>1, <1>2, <1>3
  <2> QED BY <1>1, <1>2, <1>3, <2>1, <2>2
<1> QED BY <1>2, <1>3, <1>4 DEF a, b

(* A packet that begins a round comes in the round after the one before. *)
LEMMA OneRoundOn ==
  ASSUME NEW i \in Nat, NEW h \in Nat, i <= h + MaxGap, Round(i) > Round(h)
  PROVE  Round(i) = Round(h) + 1
<1> DEFINE a == Round(i)
           b == Round(h)
           m == SeqMod
<1>1. m \in Nat \ {0} /\ MaxGap \in Nat /\ MaxGap < m BY QueueAssumption
<1>2. a \in Int /\ Seq16(i) \in 0 .. m - 1 /\ i = m * a + Seq16(i) BY Rounds
<1>3. b \in Int /\ Seq16(h) \in 0 .. m - 1 /\ h = m * b + Seq16(h) BY Rounds
<1> HIDE DEF a, b, m
<1>4. ~(a > b + 1)
  <2> SUFFICES ASSUME a > b + 1 PROVE FALSE OBVIOUS
  <2>1. m * (b + 1) = m * b + m BY <1>1, <1>3
  <2>2. m * a >= m * (b + 1) + m BY <1>1, <1>2, <1>3, NextRound
  <2>3. m * a \in Int /\ m * b \in Int BY <1>1, <1>2, <1>3
  <2> QED BY <1>1, <1>2, <1>3, <2>1, <2>2, <2>3
<1> QED BY <1>2, <1>3, <1>4 DEF a, b

(* A packet in rounds that come one after another, once the first has been   *)
(* accepted *)
LEMMA OrderlyNumber ==
  ASSUME NEW n \in Nat, NEW s, StatsOK(s, n), s.sentdata,
         NEW t \in Nat, NEW i \in Nat, NEW o \in Int, t = s.exthighseqnr + o,
         Seq16(t) = s.exthighseqnr % SeqMod,
         Round(t) <= Round(i), i <= t + (MaxGap + MaxLate), t - (MaxGap + MaxLate) <= i
  PROVE  LET u == Advanced(s, Seq16(i))
         IN /\ i = Extended(s, Seq16(i)) + o
            /\ Later(t, i) = u.exthighseqnr + o
            /\ Seq16(Later(t, i)) = u.exthighseqnr % SeqMod
<1> DEFINE g == MaxGap + MaxLate
           seq == Seq16(i)
           max == Seq16(t)
           e == Extended(s, seq)
           u == Advanced(s, seq)
           w == IF Wrapped(max, seq) THEN SeqMod ELSE 0
           z == s.exthighseqnr
<1>1. g \in Nat /\ 2 * g < SeqMod BY QueueAssumption
<1>2. seq \in 0 .. SeqMod - 1 /\ max \in 0 .. SeqMod - 1 BY Rounds
<1>3. i - t = seq - max + w
  <2> HIDE DEF g
  <2>1. t - g <= i /\ i <= t + g BY DEF g
  <2> QED BY <1>1, <2>1, WrappedFits
<1>4. max = z - s.numcycles BY HighestNumber
<1>5. e = seq + s.numcycles + w BY DEF Extended
<1>6. s.numcycles \in Nat /\ z \in Nat /\ SeqMod \in Nat
  BY SeqModPositive DEF StatsOK, StatsType
<1>7. w \in {0, SeqMod} OBVIOUS
<1>8. e \in Nat /\ e % SeqMod = seq
      /\ u.exthighseqnr = IF seq < max /\ ~Wrapped(max, seq) THEN z ELSE e
  <2> HIDE DEF seq, e, u
  <2>1. max = s.exthighseqnr % SeqMod OBVIOUS
  <2> HIDE DEF max, z
  <2> QED BY <1>2, <2>1, AdvancedStats DEF e, u, z
<1>9. Wrapped(max, seq) => w = SeqMod BY DEF w
<1>10. ~Wrapped(max, seq) => w = 0 BY DEF w
<1>11. t = z + o /\ max = z % SeqMod OBVIOUS
<1>12. Seq16(t) = max /\ Seq16(i) = seq OBVIOUS
<1> HIDE DEF e, u, w, seq, max, z, g
<1>13. i = e + o BY <1>2, <1>3, <1>4, <1>5, <1>6, <1>7, <1>11
<1>14. CASE seq < max /\ ~Wrapped(max, seq)
  <2>1. i < t BY <1>2, <1>3, <1>10, <1>14
  <2>2. Later(t, i) = t BY <2>1 DEF Later
  <2> QED BY <1>8, <1>11, <1>12, <1>13, <1>14, <2>2 DEF e, u, seq
<1>15. CASE ~(seq < max /\ ~Wrapped(max, seq))
  <2>1. i >= t
    <3>1. CASE Wrapped(max, seq) BY <1>2, <1>3, <1>6, <1>9, <3>1
    <3>2. CASE ~Wrapped(max, seq) BY <1>2, <1>3, <1>10, <1>15, <3>2
    <3> QED BY <3>1, <3>2
  <2>2. Later(t, i) = i BY <2>1 DEF Later
  <2>3. u.exthighseqnr = e BY <1>8, <1>15
  <2> QED BY <1>8, <1>12, <1>13, <2>2, <2>3 DEF e, u, seq
<1> QED BY <1>14, <1>15

LEMMA SmallNumber ==
  ASSUME NEW e \in Nat, e < SeqMod
  PROVE  e % SeqMod = e
<1>1. e \in 0 .. SeqMod - 1 /\ SeqMod * 0 + e = e BY SeqModPositive
<1> QED BY <1>1, SeqModPositive, FullRounds

(* What comes with a packet, but for the order *)
LEMMA ArriveQueue ==
  ASSUME QueueInv, NEW i \in seen.highest - MaxLate .. seen.highest + MaxGap, Arrive(i)
  PROVE  LET r == Processed(stats, Seq16(i), ~validated /\ probationtype # "None")
             p == [index |-> i, ext |-> r.ext]
         IN /\ i \in Nat /\ p \in Listed /\ From(packetlist', packetlist, p)
            /\ packetlist' \in Seq(Listed) /\ Sorted(packetlist')
            /\ Len(packetlist') <= seen.arrivals + 1
            /\ ~validated' => Len(packetlist') <= MaxProbationPackets
            /\ \A j \in DOMAIN packetlist' : PacketOK(packetlist'[j], stats')
            /\ validated' \in BOOLEAN /\ StatsOK(stats', seen.arrivals + 1)
<1> DEFINE seq == Seq16(i)
           applies == ~validated /\ probationtype # "None"
           r == Processed(stats, seq, applies)
           p == [index |-> i, ext |-> r.ext]
           valid == validated \/ r.accept
           n == seen.arrivals
           old == Trimmed(packetlist, valid)
           new == Inserted(old, p)
<1>1. i \in Nat /\ n \in Nat
  BY QueueAssumption DEF QueueInv, SeenType
<1>2. seq \in 0 .. SeqMod - 1 /\ applies \in BOOLEAN BY <1>1, Rounds DEF QueueInv
<1>3. /\ StatsOK(r.stats, n + 1) /\ r.accept \in BOOLEAN
      /\ r.accept <=> r.stats.sentdata
      /\ stats.sentdata => r.accept /\ stats.exthighseqnr <= r.stats.exthighseqnr
      /\ r.ext \in Nat /\ r.ext % SeqMod = seq
      /\ IF r.accept THEN r.ext <= r.stats.exthighseqnr ELSE r.ext = seq
  <2>1. StatsOK(stats, n) BY DEF QueueInv
  <2> HIDE DEF seq, applies, n
  <2>2. LeavesWith(r, stats, seq, n) BY <1>1, <1>2, <2>1, ProcessedOK
  <2> HIDE DEF r
  <2> QED BY <2>2 DEF LeavesWith
<1>4. /\ stats' = r.stats /\ validated' = valid
      /\ packetlist' = IF r.accept \/ probationtype = "Store" THEN new ELSE packetlist
  BY DEF Arrive
<1> HIDE DEF r
<1>5. p \in Listed BY <1>1, <1>3 DEF Listed
<1>6. p.ext = r.ext /\ p.index = i OBVIOUS
<1> HIDE DEF p
<1>7. valid \in BOOLEAN BY <1>3 DEF QueueInv
<1>8. /\ old \in Seq(Listed) /\ Sorted(old) /\ Len(old) <= Len(packetlist)
      /\ \A j \in DOMAIN old : \E k \in DOMAIN packetlist : old[j] = packetlist[k]
      /\ ~valid /\ Len(packetlist) <= MaxProbationPackets => Len(old) < MaxProbationPackets
  <2> HIDE DEF valid
  <2> QED BY <1>7, TrimmedList DEF QueueInv
<1>9. /\ new \in Seq(Listed) /\ Sorted(new) /\ From(new, old, p) /\ Len(new) <= Len(old) + 1
  <2> HIDE DEF old
  <2> QED BY <1>5, <1>8, InsertedList
<1>10. /\ Len(packetlist) \in Nat /\ Len(old) \in Nat /\ Len(new) \in Nat
       /\ MaxProbationPackets \in Nat
  BY <1>8, <1>9, QueueAssumption DEF QueueInv
<1>11. Len(packetlist) <= n /\ (~validated => Len(packetlist) <= MaxProbationPackets)
  BY DEF QueueInv
<1>12. ~valid => ~validated OBVIOUS
<1> HIDE DEF new, old, valid, n
<1>13. From(packetlist', packetlist, p)
  <2>1. From(new, packetlist, p) BY <1>8, <1>9 DEF From
  <2>2. From(packetlist, packetlist, p) BY DEF From
  <2> QED BY <1>4, <2>1, <2>2
<1>14. packetlist' \in Seq(Listed) /\ Sorted(packetlist')
  BY <1>4, <1>9 DEF QueueInv
<1>15. Len(packetlist') <= n + 1
  <2>1. Len(new) <= n + 1 BY <1>1, <1>8, <1>9, <1>10, <1>11
  <2>2. Len(packetlist) <= n + 1 BY <1>1, <1>10, <1>11
  <2> QED BY <1>4, <2>1, <2>2
<1>16. ASSUME ~valid PROVE Len(packetlist') <= MaxProbationPackets
  <2>1. Len(packetlist) <= MaxProbationPackets BY <1>11, <1>12, <1>16
  <2>2. Len(new) <= MaxProbationPackets BY <1>8, <1>9, <1>10, <1>16, <2>1
  <2> QED BY <1>4, <2>1, <2>2
<1>17. ASSUME NEW j \in DOMAIN packetlist' PROVE PacketOK(packetlist'[j], stats')
  <2>1. stats'.exthighseqnr \in Nat /\ stats.exthighseqnr \in Nat
    BY <1>3, <1>4 DEF QueueInv, StatsOK, StatsType
  <2>2. PacketOK(p, stats')
    <3>1. p.ext % SeqMod = Seq16(p.index) BY <1>3, <1>6 DEF seq
    <3>2. p.ext < SeqMod \/ (stats'.sentdata /\ p.ext <= stats'.exthighseqnr)
      <4>1. CASE r.accept BY <1>3, <1>4, <1>6, <4>1
      <4>2. CASE ~r.accept BY <1>2, <1>3, <1>6, <4>2, SeqModPositive
      <4> QED BY <1>3, <4>1, <4>2
    <3> QED BY <3>1, <3>2 DEF PacketOK
  <2>3. ASSUME NEW k \in DOMAIN packetlist PROVE PacketOK(packetlist[k], stats')
    <3>1. PacketOK(packetlist[k], stats) BY DEF QueueInv
    <3>2. packetlist[k].ext \in Nat
      <4>1. packetlist[k] \in Listed BY DEF QueueInv
      <4> QED BY <4>1 DEF Listed
    <3>3. stats.sentdata => stats'.sentdata /\ stats.exthighseqnr <= stats'.exthighseqnr
      BY <1>3, <1>4
    <3> QED BY <2>1, <3>1, <3>2, <3>3 DEF PacketOK
  <2> QED BY <1>13, <2>2, <2>3 DEF From
<1>18. stats' = r.stats /\ validated' = valid BY <1>4
<1> QED BY <1>1, <1>3, <1>5, <1>7, <1>13, <1>14, <1>15, <1>16, <1>17, <1>18
        DEF r, p, n, seq, applies

(* and the order. *)
LEMMA ArriveInOrder ==
  ASSUME QueueInv, NEW i \in seen.highest - MaxLate .. seen.highest + MaxGap, Arrive(i),
         seen'.orderly, ~seen'.split
  PROVE  InOrder'
<1> DEFINE seq == Seq16(i)
           applies == ~validated /\ probationtype # "None"
           r == Processed(stats, seq, applies)
           p == [index |-> i, ext |-> r.ext]
           h == seen.highest
           t == seen.top
           o == seen.offset
           z == stats.exthighseqnr
           high == IF seen.arrivals = 0 THEN i ELSE Later(h, i)
           top == IF r.accept THEN Later(t, i) ELSE t
           off == IF r.accept /\ ~stats.sentdata THEN i - r.ext ELSE o
<1>1. i \in Nat /\ p \in Listed /\ From(packetlist', packetlist, p) BY ArriveQueue
<1>2. /\ h \in Nat /\ t \in Nat /\ o \in Int /\ seen.arrivals \in Nat
      /\ h - MaxLate <= i /\ i <= h + MaxGap /\ MaxLate \in Nat /\ MaxGap \in Nat
  BY QueueAssumption DEF QueueInv, SeenType
<1>3. seen' = Seen(i, r) /\ stats' = r.stats BY DEF Arrive
<1>4. seen'.highest = high /\ seen'.top = top /\ seen'.offset = off
      /\ seen.orderly /\ Orderly(i) /\ ~seen.split /\ ~Split(i, r.accept)
  BY <1>3 DEF Seen, QueueInv, SeenType
<1>5. /\ seen.arrivals = 0 => ~stats.sentdata /\ packetlist = << >>
      /\ seen.arrivals # 0 =>
           /\ Round(i) >= Round(h)
           /\ \/ stats.sentdata \/ packetlist = << >>
              \/ (r.accept /\ seq = 0 <=> Round(i) > Round(h))
  <2>1. seen.arrivals = 0 => packetlist = << >>
    <3>1. Len(packetlist) <= seen.arrivals /\ packetlist \in Seq(Listed) BY DEF QueueInv
    <3> QED BY <1>2, <3>1
  <2>2. seen.arrivals = 0 => ~stats.sentdata BY DEF QueueInv
  <2> QED BY <1>4, <2>1, <2>2 DEF Orderly, Split
<1>6. seq \in 0 .. SeqMod - 1 /\ Round(i) \in Int /\ i = SeqMod * Round(i) + seq
  BY <1>1, Rounds
<1>7. Round(h) \in Int BY <1>2, Rounds
<1>8. Round(high) = Round(i) /\ high \in Nat /\ i <= high
  <2>1. CASE seen.arrivals = 0 BY <1>1, <2>1
  <2>2. CASE seen.arrivals # 0 /\ h > i
    <3>1. Round(i) <= Round(h) BY <1>1, <1>2, <2>2, RoundMonotone
    <3>2. Round(i) = Round(h) BY <1>5, <1>6, <1>7, <2>2, <3>1
    <3> QED BY <1>1, <1>2, <2>2, <3>2 DEF Later
  <2>3. CASE seen.arrivals # 0 /\ ~(h > i) BY <1>1, <1>2, <2>3 DEF Later
  <2> QED BY <2>1, <2>2, <2>3
<1>9. applies \in BOOLEAN BY DEF QueueInv
<1>10. /\ r.accept \in BOOLEAN /\ (r.accept <=> r.stats.sentdata)
       /\ stats.sentdata => r.accept /\ r.ext \in Nat
  <2>1. StatsOK(stats, seen.arrivals) BY DEF QueueInv
  <2> HIDE DEF applies, seq
  <2>2. LeavesWith(r, stats, seq, seen.arrivals)
    BY <1>2, <1>6, <1>9, <2>1, ProcessedOK
  <2> HIDE DEF r
  <2> QED BY <2>2 DEF LeavesWith
<1>11. p.index = i /\ p.ext = r.ext OBVIOUS
<1>12. seen.orderly /\ ~seen.split => InOrder BY DEF QueueInv
<1>13. CASE stats.sentdata
  <2>1. r = [stats |-> Advanced(stats, seq), accept |-> TRUE, ext |-> Extended(stats, seq)]
    BY <1>13 DEF Processed
  <2>2. /\ r.stats = Advanced(stats, seq) /\ r.accept /\ r.ext = Extended(stats, seq)
    BY <2>1
  <2>3. /\ Round(t) = Round(h) /\ Seq16(t) = z % SeqMod /\ t = z + o
        /\ \A j \in DOMAIN packetlist : packetlist[j].index = packetlist[j].ext + o
    BY <1>4, <1>12, <1>13 DEF InOrder
  <2>4. t <= h /\ h <= t + MaxLate BY <1>13 DEF QueueInv
  <2>5. Round(i) >= Round(h) BY <1>5, <1>13
  <2>6. top = Later(t, i) /\ off = o BY <1>13, <2>2
  <2>7. i <= t + (MaxGap + MaxLate) /\ t - (MaxGap + MaxLate) <= i BY <1>1, <1>2, <2>4
  <2>8. StatsOK(stats, seen.arrivals) BY DEF QueueInv
  <2>9. /\ i = r.ext + o
        /\ Later(t, i) = r.stats.exthighseqnr + o
        /\ Seq16(Later(t, i)) = r.stats.exthighseqnr % SeqMod
    <3>1. Round(t) <= Round(i) BY <1>6, <1>7, <2>3, <2>5
    <3> HIDE DEF r, h, t, o
    <3>2. t = stats.exthighseqnr + o /\ Seq16(t) = stats.exthighseqnr % SeqMod
      BY <2>3 DEF z
    <3> HIDE DEF seq
    <3> QED BY <1>1, <1>2, <1>13, <2>2, <2>7, <2>8, <3>1, <3>2, OrderlyNumber DEF seq
  <2>10. Round(Later(t, i)) = Round(i)
    <3>1. CASE t > i
      <4>1. Round(i) <= Round(t) BY <1>1, <1>2, <3>1, RoundMonotone
      <4>2. Round(i) = Round(t) BY <1>6, <1>7, <2>3, <2>5, <4>1
      <4> QED BY <3>1, <4>2 DEF Later
    <3>2. CASE ~(t > i) BY <3>2 DEF Later
    <3> QED BY <3>1, <3>2
  <2>11. ASSUME NEW j \in DOMAIN packetlist'
         PROVE  packetlist'[j].index = packetlist'[j].ext + o
    <3> HIDE DEF p, r, o
    <3> QED BY <1>1, <1>11, <2>3, <2>9 DEF From
  <2>12. stats'.sentdata BY <1>3, <1>10, <2>2
  <2> HIDE DEF r, p, h, t, o, z, high, top, off
  <2> QED BY <1>3, <1>4, <1>8, <2>6, <2>9, <2>10, <2>11, <2>12 DEF InOrder
<1>14. CASE ~stats.sentdata
  <2>1. \A j \in DOMAIN packetlist : Round(packetlist[j].index) = Round(h)
    BY <1>4, <1>12, <1>14 DEF InOrder
  <2>2. ASSUME NEW j \in DOMAIN packetlist
        PROVE  /\ packetlist[j].index = SeqMod * Round(h) + packetlist[j].ext
               /\ packetlist[j].ext \in Nat
    <3>1. packetlist[j] \in Listed /\ PacketOK(packetlist[j], stats) BY DEF QueueInv
    <3>2. packetlist[j].ext \in Nat /\ packetlist[j].index \in Nat BY <3>1 DEF Listed
    <3>3. packetlist[j].ext < SeqMod BY <1>14, <3>1 DEF PacketOK
    <3>4. packetlist[j].ext = Seq16(packetlist[j].index)
      BY <3>1, <3>2, <3>3, SmallNumber DEF PacketOK
    <3>5. packetlist[j].index = SeqMod * Round(packetlist[j].index) + Seq16(packetlist[j].index)
      BY <3>2, Rounds
    <3> QED BY <2>1, <3>2, <3>4, <3>5
  <2>3. ASSUME NEW j \in DOMAIN packetlist PROVE seen.arrivals # 0 /\ packetlist # << >>
    BY <1>5, <2>3
  <2>4. CASE r.accept
    <3> DEFINE u == FirstAccepted(stats, seq)
    <3>1. r.stats = u /\ r.ext = u.exthighseqnr
      BY <1>14, <2>4 DEF Processed
    <3>2. u.exthighseqnr % SeqMod = seq /\ u.exthighseqnr = IF seq = 0 THEN SeqMod ELSE seq
      <4>1. StatsOK(stats, seen.arrivals) BY DEF QueueInv
      <4> HIDE DEF seq
      <4> QED BY <1>2, <1>6, <1>14, <4>1, FirstStats
    <3>3. t = 0 BY <1>14 DEF QueueInv
    <3>4. top = i /\ off = i - r.ext
      <4>1. Later(t, i) = i BY <1>1, <3>3 DEF Later
      <4> QED BY <1>14, <2>4, <4>1
    <3>5. r.ext \in Int BY <3>1, <3>2, <1>6, SeqModPositive
    <3>6. ASSUME NEW j \in DOMAIN packetlist
          PROVE  packetlist[j].index = packetlist[j].ext + off
      <4>1. r.accept /\ seq = 0 <=> Round(i) > Round(h) BY <1>5, <1>14, <2>3
      <4>2. Round(i) >= Round(h) BY <1>5, <2>3
      <4> DEFINE b == Round(h)
      <4>3. SeqMod * b = i - r.ext
        <5>1. CASE seq = 0
          <6>1. Round(i) = b + 1 BY <1>1, <1>2, <2>4, <4>1, <5>1, OneRoundOn
          <6>2. SeqMod * (b + 1) = SeqMod * b + SeqMod BY <1>7, SeqModPositive
          <6>3. SeqMod * b \in Int BY <1>7, SeqModPositive
          <6>4. r.ext = SeqMod BY <3>1, <3>2, <5>1
          <6>5. i = SeqMod * b + SeqMod BY <1>6, <5>1, <6>1, <6>2, <6>3, SeqModPositive
          <6> HIDE DEF r, b
          <6> QED BY <6>3, <6>4, <6>5, SeqModPositive
        <5>2. CASE seq # 0
          <6>1. Round(i) = b BY <1>6, <1>7, <4>1, <4>2, <5>2
          <6>2. r.ext = seq BY <3>1, <3>2, <5>2
          <6>3. SeqMod * b \in Int BY <1>7, SeqModPositive
          <6>4. i = SeqMod * b + seq BY <1>6, <6>1
          <6> HIDE DEF r, b
          <6> QED BY <1>6, <6>2, <6>3, <6>4
        <5> QED BY <5>1, <5>2
      <4>4. packetlist[j].index = SeqMod * b + packetlist[j].ext /\ packetlist[j].ext \in Nat
        BY <2>2
      <4>5. SeqMod * b \in Int BY <1>7, SeqModPositive
      <4> HIDE DEF r, b, off
      <4> QED BY <1>1, <3>4, <3>5, <4>3, <4>4, <4>5
    <3>7. ASSUME NEW j \in DOMAIN packetlist'
          PROVE  packetlist'[j].index = packetlist'[j].ext + off
      <4>1. p.index = p.ext + off
        <5> HIDE DEF p, r, off
        <5> QED BY <1>1, <1>11, <3>4, <3>5
      <4> HIDE DEF p, off
      <4> QED BY <1>1, <3>6, <4>1 DEF From
    <3>8. i = r.ext + off
      <4> HIDE DEF r, off
      <4> QED BY <1>1, <3>4, <3>5
    <3>9. stats'.sentdata /\ stats'.exthighseqnr = r.ext BY <1>3, <1>10, <2>4, <3>1
    <3>10. stats'.exthighseqnr % SeqMod = Seq16(i) BY <3>1, <3>2, <3>9
    <3> HIDE DEF r, p, h, t, o, z, high, top, off, seq
    <3> QED BY <1>4, <1>8, <3>4, <3>7, <3>8, <3>9, <3>10 DEF InOrder
  <2>5. CASE ~r.accept
    <3>1. ASSUME NEW j \in DOMAIN packetlist
          PROVE  Round(packetlist[j].index) = Round(i)
      <4>1. ~(Round(i) > Round(h)) /\ Round(i) >= Round(h)
        BY <1>5, <1>14, <2>3, <2>5
      <4>2. Round(i) = Round(h) BY <1>6, <1>7, <4>1
      <4> QED BY <2>1, <4>2
    <3>2. ASSUME NEW j \in DOMAIN packetlist'
          PROVE  Round(packetlist'[j].index) = Round(i)
      <4> HIDE DEF p
      <4> QED BY <1>1, <1>11, <3>1 DEF From
    <3>3. ~stats'.sentdata BY <1>3, <1>10, <2>5
    <3> HIDE DEF high
    <3> QED BY <1>4, <1>8, <3>2, <3>3 DEF InOrder
  <2> QED BY <1>10, <2>4, <2>5
<1> QED BY <1>13, <1>14

LEMMA ArriveInv ==
  ASSUME QueueInv, NEW i \in seen.highest - MaxLate .. seen.highest + MaxGap, Arrive(i)
  PROVE  QueueInv'
<1> DEFINE r == Processed(stats, Seq16(i), ~validated /\ probationtype # "None")
           h == seen.highest
           t == seen.top
           o == seen.offset
           a == seen.arrivals
           high == IF a = 0 THEN i ELSE Later(h, i)
           top == IF r.accept THEN Later(t, i) ELSE t
           off == IF r.accept /\ ~stats.sentdata THEN i - r.ext ELSE o
           orderly == seen.orderly /\ Orderly(i)
           split == seen.split \/ Split(i, r.accept)
<1>1. /\ h \in Nat /\ t \in Nat /\ o \in Int /\ a \in 0 .. MaxArrivals /\ a < MaxArrivals
      /\ h - MaxLate <= i /\ i <= h + MaxGap /\ MaxLate \in Nat /\ MaxGap \in Nat
      /\ MaxArrivals \in Nat /\ SeqMod \in Nat
  BY QueueAssumption DEF QueueInv, SeenType, Arrive
<1>2. /\ i \in Nat
      /\ packetlist' \in Seq(Listed) /\ Sorted(packetlist')
      /\ Len(packetlist') <= a + 1
      /\ ~validated' => Len(packetlist') <= MaxProbationPackets
      /\ \A j \in DOMAIN packetlist' : PacketOK(packetlist'[j], stats')
      /\ validated' \in BOOLEAN /\ StatsOK(stats', a + 1)
  BY ArriveQueue
<1>3. seen' = [seen EXCEPT !.arrivals = a + 1, !.highest = high, !.top = top,
                           !.offset = off, !.orderly = orderly, !.split = split]
  BY DEF Arrive, Seen
<1>4. /\ r.accept \in BOOLEAN /\ (r.accept <=> stats'.sentdata) /\ r.ext \in Nat
      /\ stats.sentdata => r.accept
  <2>1. StatsOK(stats, a) /\ (~validated /\ probationtype # "None") \in BOOLEAN
    BY DEF QueueInv
  <2>2. Seq16(i) \in 0 .. SeqMod - 1 BY <1>2, Rounds
  <2>3. stats' = r.stats BY DEF Arrive
  <2>4. a \in Nat BY <1>1
  <2> HIDE DEF a
  <2>5. LeavesWith(r, stats, Seq16(i), a)
    BY <2>1, <2>2, <2>4, ProcessedOK
  <2> HIDE DEF r
  <2> QED BY <2>3, <2>5 DEF LeavesWith
<1>5. high \in Nat /\ top \in Nat /\ off \in Int BY <1>1, <1>2, <1>4 DEF Later
<1>6. a + 1 \in 0 .. MaxArrivals /\ a + 1 # 0 BY <1>1
<1>7. orderly \in BOOLEAN /\ split \in BOOLEAN
  BY <1>4 DEF QueueInv, SeenType, Orderly, Split
<1>8. seen \in SeenType BY DEF QueueInv
<1>9. h >= SeqMod - MaxLate /\ (a = 0 => h >= SeqMod) => high >= SeqMod - MaxLate
  BY <1>1, <1>2 DEF Later
<1>10. /\ h >= SeqMod - MaxLate
       /\ IF stats.sentdata THEN t <= h /\ h <= t + MaxLate ELSE t = 0
       /\ a = 0 => ~stats.sentdata
  BY DEF QueueInv
<1>11. IF stats'.sentdata THEN top <= high /\ high <= top + MaxLate ELSE top = 0
  <2> HIDE DEF r, h, t, a
  <2>1. CASE ~r.accept BY <1>4, <1>10, <2>1
  <2>2. CASE r.accept /\ stats.sentdata
    <3>1. high = Later(h, i) /\ top = Later(t, i) BY <1>10, <2>2
    <3> HIDE DEF high, top
    <3> QED BY <1>1, <1>2, <1>4, <1>10, <2>2, <3>1 DEF Later
  <2>3. CASE r.accept /\ ~stats.sentdata
    <3>1. top = i BY <1>2, <1>10, <2>3 DEF Later
    <3>2. high = i \/ (high = h /\ h > i)
      <4>1. Later(h, i) = i \/ (Later(h, i) = h /\ h > i) BY DEF Later
      <4>2. high = i \/ high = Later(h, i) OBVIOUS
      <4> HIDE DEF high
      <4> QED BY <4>1, <4>2
    <3> HIDE DEF high, top
    <3> QED BY <1>1, <1>2, <1>4, <2>3, <3>1, <3>2
  <2> QED BY <1>4, <2>1, <2>2, <2>3
<1>12. orderly /\ ~split => InOrder'
  <2>1. seen'.orderly = orderly /\ seen'.split = split BY <1>3, <1>8 DEF SeenType
  <2> QED BY <2>1, ArriveInOrder
<1> HIDE DEF r, h, t, o, a, high, top, off, orderly, split
<1>13. /\ seen' \in SeenType /\ seen'.arrivals = a + 1 /\ seen'.highest = high
       /\ seen'.top = top /\ seen'.orderly = orderly /\ seen'.split = split
  BY <1>3, <1>5, <1>6, <1>7, <1>8 DEF SeenType
<1>14. high >= SeqMod - MaxLate
  <2>1. seen.arrivals = 0 => seen.highest >= SeqMod BY DEF QueueInv
  <2> QED BY <1>9, <1>10, <2>1 DEF h, a
<1> QED BY <1>2, <1>6, <1>11, <1>12, <1>13, <1>14 DEF QueueInv

LEMMA QueueInit == QInit => QueueInv
<1> SUFFICES ASSUME QInit PROVE QueueInv OBVIOUS
<1>1. /\ validated = FALSE /\ packetlist = << >>
      /\ stats = [sentdata |-> FALSE, numcycles |-> 0, baseseqnr |-> 0, exthighseqnr |-> 0,
                  probation |-> 0, prevseqnr |-> 0]
  BY DEF QInit
<1>2. PICK part \in {"table", "queue"}, i \in SeqMod .. 2 * SeqMod - 1 :
        seen = [part |-> part, arrivals |-> 0, highest |-> i, top |-> 0, offset |-> 0,
                orderly |-> TRUE, split |-> FALSE]
  BY DEF QInit
<1>3. SeqMod \in Nat \ {0} /\ i \in Nat /\ MaxArrivals \in Nat /\ MaxProbationPackets \in Nat
      /\ MaxLate \in Nat /\ i >= SeqMod
  BY QueueAssumption
<1>4. seen \in SeenType /\ seen.arrivals = 0 /\ seen.highest = i /\ seen.top = 0
  BY <1>2, <1>3 DEF SeenType
<1>5. StatsOK(stats, 0)
  <2>1. 0 \in 0 .. Probation /\ 0 \in 0 .. SeqMod - 1 BY <1>3, SourcesAssumption
  <2>2. stats \in StatsType BY <1>1, <2>1 DEF StatsType
  <2>3. SeqMod * 0 = 0 /\ 0 \in 0 .. 0 BY <1>3
  <2>4. \E c \in 0 .. 0 : stats.numcycles = SeqMod * c BY <1>1, <2>3
  <2>5. ~stats.sentdata /\ stats.numcycles = 0 /\ stats.exthighseqnr = 0 BY <1>1
  <2>6. stats.exthighseqnr - stats.numcycles \in 0 .. SeqMod - 1 BY <2>1, <2>5
  <2> QED BY <2>2, <2>4, <2>5, <2>6 DEF StatsOK
<1>6. packetlist \in Seq(Listed) /\ Len(packetlist) = 0 /\ DOMAIN packetlist = {} BY <1>1
<1>7. ~stats.sentdata BY <1>1
<1>8. InOrder BY <1>6, <1>7 DEF InOrder
<1>9. StatsOK(stats, seen.arrivals) BY <1>4, <1>5
<1>10. seen.highest >= SeqMod - MaxLate /\ seen.highest >= SeqMod BY <1>3, <1>4
<1>11. Len(packetlist) <= seen.arrivals /\ Len(packetlist) <= MaxProbationPackets
  BY <1>3, <1>4, <1>6
<1>12. Sorted(packetlist) BY <1>6 DEF Sorted
<1> QED BY <1>1, <1>4, <1>6, <1>7, <1>8, <1>9, <1>10, <1>11, <1>12 DEF QueueInv

LEMMA QueueStep == QueueInv /\ QueueNext => QueueInv'
<1> SUFFICES ASSUME QueueInv, QueueNext PROVE QueueInv' OBVIOUS
<1>1. CASE \E i \in seen.highest - MaxLate .. seen.highest + MaxGap : Arrive(i)
  BY <1>1, ArriveInv
<1>2. CASE Named
  <2>1. validated' = TRUE /\ stats' = stats /\ packetlist' = packetlist /\ seen' = seen
    BY <1>2 DEF Named
  <2> QED BY <2>1 DEF QueueInv, InOrder
<1>3. CASE OnPollThreadStep
  <2>1. /\ packetlist' = << >> /\ validated' = validated /\ stats' = stats /\ seen' = seen
    BY <1>3 DEF OnPollThreadStep
  <2>2. packetlist' \in Seq(Listed) /\ Len(packetlist') = 0 /\ DOMAIN packetlist' = {}
    BY <2>1
  <2>3. seen.arrivals \in Nat /\ MaxProbationPackets \in Nat
    BY QueueAssumption DEF QueueInv, SeenType
  <2>4. InOrder => InOrder' BY <2>1, <2>2 DEF InOrder
  <2> QED BY <2>1, <2>2, <2>3, <2>4 DEF QueueInv, Sorted
<1> QED BY <1>1, <1>2, <1>3 DEF QueueNext

(* All that is kept of the sources and of the queue of one of them *)
AllInv == Inv /\ Counted(table) /\ QueueInv

LEMMA AllInit == QInit => AllInv
BY InitInv, InitCounted, QueueInit DEF QInit, AllInv

LEMMA AllStep == AllInv /\ [QNext]_qvars => AllInv'
<1> SUFFICES ASSUME AllInv, [QNext]_qvars PROVE AllInv' OBVIOUS
<1>1. CASE seen.part = "table" /\ Next /\ UNCHANGED <<queue, seen>>
  <2>1. Inv' /\ Counted(table)' BY <1>1, NextInv, NextCounted DEF AllInv
  <2>2. /\ validated' = validated /\ stats' = stats /\ packetlist' = packetlist
        /\ seen' = seen
    BY <1>1 DEF queue
  <2>3. QueueInv' BY <2>2 DEF AllInv, QueueInv, InOrder
  <2> QED BY <2>1, <2>3 DEF AllInv
<1>2. CASE seen.part = "queue" /\ QueueNext /\ UNCHANGED vars
  <2>1. QueueInv' BY <1>2, QueueStep DEF AllInv
  <2>2. Inv' BY <1>2, NextInv DEF AllInv
  <2>3. Counted(table)' BY <1>2 DEF AllInv, vars
  <2> QED BY <2>1, <2>2, <2>3 DEF AllInv
<1>3. CASE UNCHANGED qvars
  <2>1. UNCHANGED vars /\ UNCHANGED <<queue, seen>> BY <1>3 DEF qvars
  <2>2. Inv' BY <2>1, NextInv DEF AllInv
  <2>3. Counted(table)' BY <2>1 DEF AllInv, vars
  <2>4. /\ validated' = validated /\ stats' = stats /\ packetlist' = packetlist
        /\ seen' = seen
    BY <2>1 DEF queue
  <2>5. QueueInv' BY <2>4 DEF AllInv, QueueInv, InOrder
  <2> QED BY <2>2, <2>3, <2>5 DEF AllInv
<1> QED BY <1>1, <1>2, <1>3 DEF QNext

LEMMA QueueFits == QueueInv => QueueTypeOK /\ ListIsSorted /\ NumbersFit
<1> SUFFICES ASSUME QueueInv PROVE QueueTypeOK /\ ListIsSorted /\ NumbersFit OBVIOUS
<1>1. /\ seen.arrivals \in 0 .. MaxArrivals /\ MaxArrivals \in Nat /\ SeqMod \in Nat
      /\ Len(packetlist) \in Nat /\ Len(packetlist) <= seen.arrivals
  BY QueueAssumption DEF QueueInv, SeenType
<1>2. stats.numcycles \in {k * SeqMod : k \in 0 .. MaxArrivals}
  <2>1. PICK c \in 0 .. seen.arrivals : stats.numcycles = SeqMod * c
    BY DEF QueueInv, StatsOK
  <2>2. c \in 0 .. MaxArrivals /\ SeqMod * c = c * SeqMod BY <1>1
  <2> QED BY <2>1, <2>2
<1>3. QueueTypeOK
  <2>1. /\ stats.probation \in 0 .. Probation
        /\ stats.exthighseqnr - stats.numcycles \in 0 .. SeqMod - 1
    BY DEF QueueInv, StatsOK, StatsType
  <2>2. Len(packetlist) <= MaxArrivals BY <1>1
  <2> QED BY <1>2, <2>1, <2>2 DEF QueueTypeOK, QueueInv
<1>4. ListIsSorted
  <2>1. stats.sentdata => stats.baseseqnr < stats.exthighseqnr BY DEF QueueInv, StatsOK
  <2> QED BY <2>1 DEF QueueInv, PacketOK, Sorted, ListIsSorted
<1>5. NumbersFit BY DEF QueueInv, InOrder, NumbersFit
<1> QED BY <1>3, <1>4, <1>5
-----------------------------------------------------------------------------
(* The table beside the queue of a source is the table alone. *)
LEMMA Beside == QSpec => Spec
<1>1. QInit => Init BY DEF QInit
<1>2. [QNext]_qvars => [Next]_vars BY DEF QNext, qvars
<1> QED BY <1>1, <1>2, PTL DEF QSpec, Spec

(* The counters fit the table, only validated sources with an address are    *)
(* among the senders, and the list a source's packets wait in is sorted by   *)
(* numbers that, while rounds come one after another and none ends among the *)
(* packets kept on probation, are the order they were sent in: for any       *)
(* number of sources, of packets and of numbers in a round, however long the *)
(* probation and however late packets are.                                   *)
THEOREM Sources == QSpec => []SourcesInv
<1>1. AllInv => SourcesInv BY CountedAgree, QueueFits DEF AllInv, SourcesInv
<1> QED BY <1>1, AllInit, AllStep, PTL DEF QSpec

(* Beside the queue, too, a source is one host and ours is always there. *)
THEOREM HostsBeside == QSpec => [](OneHostPerSource /\ OwnSurvives)
BY Beside, OneHost, OwnAlwaysThere, PTL

(* And no packet takes a source over. *)
THEOREM NotTakenBeside == QSpec => NoTakeover
BY Beside, NeverTakenOver, PTL
=============================================================================
