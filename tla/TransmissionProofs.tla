------------------------- MODULE TransmissionProofs -------------------------
(* To whom data is sent and from whom it is taken.                           *)
(* The transmitters, for any hosts, ports, groups and destinations: hash     *)
(* tables whose links lead to what was added and not deleted, whatever the   *)
(* order (KeyHashTable, HashTable); RTPUDPv4Transmitter, v6 and Fake, which  *)
(* keep such tables (UdpTransmitter, UdpTransmitter6, FakeTransmitter), and  *)
(* whose lists of addresses implement SourceFilter; RTPExternalTransmitter   *)
(* (ExternalTransmitter); and the transmitter of a session (Transmitter).    *)
EXTENDS RtcpProofs, Transmitter

-----------------------------------------------------------------------------
(* Hash tables.                                                              *)

(* A doubly linked list as a sequence: `s` is met along n from start on, and *)
(* backwards along p.                                                        *)
Threaded(s, start, n, p) ==
  /\ s \in Seq(Heap)
  /\ \A i, j \in 1 .. Len(s) : s[i] = s[j] => i = j
  /\ start = IF s = << >> THEN Null ELSE s[1]
  /\ \A i \in 1 .. Len(s) :
       /\ n[s[i]] = IF i < Len(s) THEN s[i + 1] ELSE Null
       /\ p[s[i]] = IF i > 1 THEN s[i - 1] ELSE Null

Members(s) == {s[i] : i \in 1 .. Len(s)}

(* Nothing is met from Null.                                                 *)
LEMMA EmptyThread ==
  ASSUME NEW n, NEW p
  PROVE  Threaded(<< >>, Null, n, p) /\ Members(<< >>) = {}
BY DEF Threaded, Members

(* What is met depends on the links of what is met only.                     *)
LEMMA SameThread ==
  ASSUME NEW s, NEW start, NEW n, NEW p, NEW m, NEW q, Threaded(s, start, n, p),
         \A e \in Members(s) : m[e] = n[e] /\ q[e] = p[e]
  PROVE  Threaded(s, start, m, q)
BY DEF Threaded, Members

(* An element linked in at the head, as AddElement does to a chain.          *)
LEMMA PrependToThread ==
  ASSUME NEW s, NEW start, NEW n, NEW p, NEW m, NEW q, Threaded(s, start, n, p),
         NEW e \in Heap, e \notin Members(s), Null \notin Heap,
         m[e] = start, q[e] = Null,
         \A f \in Members(s) : m[f] = n[f] /\ q[f] = IF f = start THEN e ELSE p[f]
  PROVE  /\ Threaded(<<e>> \o s, e, m, q)
         /\ Members(<<e>> \o s) = Members(s) \union {e}
<1> DEFINE t == <<e>> \o s
<1>1. /\ s \in Seq(Heap) /\ Len(s) \in Nat
      /\ \A i \in 1 .. Len(s) : s[i] \in Heap /\ s[i] \in Members(s)
  BY DEF Threaded, Members
<1>2. /\ t \in Seq(Heap) /\ Len(t) = Len(s) + 1 /\ t # << >> /\ t[1] = e
      /\ \A i \in 1 .. Len(s) : t[i + 1] = s[i]
  BY <1>1
<1>3. \A i \in 2 .. Len(t) : i - 1 \in 1 .. Len(s) /\ t[i] = s[i - 1]
  BY <1>1, <1>2
<1>4. \A i, j \in 1 .. Len(t) : t[i] = t[j] => i = j
  <2> SUFFICES ASSUME NEW i \in 1 .. Len(t), NEW j \in 1 .. Len(t), t[i] = t[j] PROVE i = j
    OBVIOUS
  <2>1. CASE i = 1 /\ j = 1 BY <2>1
  <2>2. CASE i = 1 /\ j # 1 BY <2>2, <1>1, <1>2, <1>3
  <2>3. CASE i # 1 /\ j = 1 BY <2>3, <1>1, <1>2, <1>3
  <2>4. CASE i # 1 /\ j # 1
    <3>1. i \in 2 .. Len(t) /\ j \in 2 .. Len(t) BY <2>4, <1>1, <1>2
    <3>2. s[i - 1] = s[j - 1] BY <3>1, <1>3
    <3>3. i - 1 = j - 1 BY <3>1, <3>2, <1>3 DEF Threaded
    <3> QED BY <3>1, <3>3
  <2> QED BY <2>1, <2>2, <2>3, <2>4
<1>5. ASSUME NEW i \in 1 .. Len(t)
      PROVE  /\ m[t[i]] = IF i < Len(t) THEN t[i + 1] ELSE Null
             /\ q[t[i]] = IF i > 1 THEN t[i - 1] ELSE Null
  <2>1. CASE i = 1
    <3>1. CASE s = << >> BY <2>1, <3>1, <1>1, <1>2 DEF Threaded
    <3>2. CASE s # << >> BY <2>1, <3>2, <1>1, <1>2 DEF Threaded
    <3> QED BY <3>1, <3>2
  <2>2. CASE i # 1
    <3>1. /\ i \in 2 .. Len(t) /\ t[i] = s[i - 1] /\ i - 1 \in 1 .. Len(s)
      BY <2>2, <1>1, <1>2, <1>3
    <3>2. m[t[i]] = IF i - 1 < Len(s) THEN s[i] ELSE Null BY <3>1, <1>1 DEF Threaded
    <3>3. i - 1 < Len(s) => i \in 1 .. Len(s) /\ t[i + 1] = s[i] BY <3>1, <1>1, <1>2
    <3>4. q[t[i]] = IF s[i - 1] = start THEN e ELSE p[s[i - 1]] BY <3>1, <1>1
    <3>5. start = s[1] /\ 1 \in 1 .. Len(s) BY <3>1, <1>1 DEF Threaded
    <3>6. CASE i = 2 BY <3>6, <3>1, <3>2, <3>3, <3>4, <3>5, <1>2
    <3>7. CASE i # 2
      <4>1. s[i - 1] # start BY <3>1, <3>5, <3>7 DEF Threaded
      <4>2. p[s[i - 1]] = s[i - 2] /\ i - 1 \in 2 .. Len(t) BY <3>1, <3>7, <1>1, <1>2 DEF Threaded
      <4>3. t[i - 1] = s[i - 2] BY <4>2, <1>3
      <4> QED BY <3>1, <3>2, <3>3, <3>4, <4>1, <4>2, <4>3, <1>2
    <3> QED BY <3>6, <3>7
  <2> QED BY <2>1, <2>2
<1>6. Members(t) = Members(s) \union {e}
  <2>1. ASSUME NEW x \in Members(t) PROVE x \in Members(s) \union {e}
    <3>1. PICK i \in 1 .. Len(t) : x = t[i] BY <2>1 DEF Members
    <3>2. i = 1 \/ i \in 2 .. Len(t) BY <1>1, <1>2
    <3> QED BY <3>1, <3>2, <1>1, <1>2, <1>3
  <2>2. ASSUME NEW x \in Members(s) PROVE x \in Members(t)
    <3>1. PICK i \in 1 .. Len(s) : x = s[i] BY <2>2 DEF Members
    <3>2. i + 1 \in 1 .. Len(t) /\ x = t[i + 1] BY <3>1, <1>1, <1>2
    <3> QED BY <3>2 DEF Members
  <2>3. e \in Members(t) BY <1>1, <1>2 DEF Members
  <2> QED BY <2>1, <2>2, <2>3
<1> HIDE DEF t
<1>7. Threaded(t, e, m, q) BY <1>2, <1>4, <1>5 DEF Threaded
<1> QED BY <1>6, <1>7 DEF t

(* An element linked in at the end, as AddElement does to the list.          *)
LEMMA AppendToThread ==
  ASSUME NEW s, NEW start, NEW n, NEW p, NEW m, NEW q, Threaded(s, start, n, p),
         NEW e \in Heap, e \notin Members(s), Null \notin Heap,
         m[e] = Null, q[e] = IF s = << >> THEN Null ELSE s[Len(s)],
         \A f \in Members(s) :
           /\ m[f] = IF f = s[Len(s)] THEN e ELSE n[f]
           /\ q[f] = p[f]
  PROVE  /\ Threaded(Append(s, e), IF s = << >> THEN e ELSE start, m, q)
         /\ Members(Append(s, e)) = Members(s) \union {e}
<1> DEFINE t == Append(s, e)
<1>1. /\ s \in Seq(Heap) /\ Len(s) \in Nat
      /\ \A i \in 1 .. Len(s) : s[i] \in Heap /\ s[i] \in Members(s)
  BY DEF Threaded, Members
<1>2. /\ t \in Seq(Heap) /\ Len(t) = Len(s) + 1 /\ t # << >> /\ t[Len(s) + 1] = e
      /\ \A i \in 1 .. Len(s) : t[i] = s[i]
  BY <1>1
<1>3. \A i, j \in 1 .. Len(t) : t[i] = t[j] => i = j
  <2> SUFFICES ASSUME NEW i \in 1 .. Len(t), NEW j \in 1 .. Len(t), t[i] = t[j] PROVE i = j
    OBVIOUS
  <2>1. (i = Len(s) + 1 \/ i \in 1 .. Len(s)) /\ (j = Len(s) + 1 \/ j \in 1 .. Len(s))
    BY <1>1, <1>2
  <2>2. CASE i \in 1 .. Len(s) /\ j \in 1 .. Len(s) BY <2>2, <1>2 DEF Threaded
  <2>3. CASE i = Len(s) + 1 /\ j \in 1 .. Len(s) BY <2>3, <1>1, <1>2
  <2>4. CASE i \in 1 .. Len(s) /\ j = Len(s) + 1 BY <2>4, <1>1, <1>2
  <2> QED BY <2>1, <2>2, <2>3, <2>4
<1>4. ASSUME NEW i \in 1 .. Len(t)
      PROVE  /\ m[t[i]] = IF i < Len(t) THEN t[i + 1] ELSE Null
             /\ q[t[i]] = IF i > 1 THEN t[i - 1] ELSE Null
  <2>1. CASE i = Len(s) + 1
    <3>1. CASE s = << >> BY <2>1, <3>1, <1>1, <1>2
    <3>2. CASE s # << >>
      <4>1. Len(s) \in 1 .. Len(s) BY <3>2, <1>1
      <4> QED BY <2>1, <3>2, <4>1, <1>1, <1>2
    <3> QED BY <3>1, <3>2
  <2>2. CASE i \in 1 .. Len(s)
    <3>1. t[i] = s[i] /\ Len(s) \in 1 .. Len(s) BY <2>2, <1>1, <1>2
    <3>2. q[t[i]] = IF i > 1 THEN t[i - 1] ELSE Null
      <4>1. q[t[i]] = IF i > 1 THEN s[i - 1] ELSE Null BY <2>2, <3>1, <1>1 DEF Threaded
      <4>2. i > 1 => t[i - 1] = s[i - 1] BY <2>2, <1>1, <1>2
      <4> QED BY <4>1, <4>2
    <3>3. CASE i = Len(s) BY <2>2, <3>1, <3>2, <3>3, <1>1, <1>2
    <3>4. CASE i # Len(s)
      <4>1. s[i] # s[Len(s)] BY <2>2, <3>1, <3>4 DEF Threaded
      <4>2. i < Len(s) /\ i + 1 \in 1 .. Len(s) BY <2>2, <3>4, <1>1
      <4>3. m[s[i]] = s[i + 1] BY <2>2, <4>1, <4>2, <1>1 DEF Threaded
      <4> QED BY <3>1, <3>2, <4>2, <4>3, <1>1, <1>2
    <3> QED BY <3>3, <3>4
  <2>3. i = Len(s) + 1 \/ i \in 1 .. Len(s) BY <1>1, <1>2
  <2> QED BY <2>1, <2>2, <2>3
<1>5. t[1] = IF s = << >> THEN e ELSE start
  <2>1. CASE s = << >> BY <2>1, <1>1, <1>2
  <2>2. CASE s # << >>
    <3>1. 1 \in 1 .. Len(s) BY <2>2, <1>1
    <3> QED BY <2>2, <3>1, <1>2 DEF Threaded
  <2> QED BY <2>1, <2>2
<1>6. Members(t) = Members(s) \union {e}
  <2>1. ASSUME NEW x \in Members(t) PROVE x \in Members(s) \union {e}
    <3>1. PICK i \in 1 .. Len(t) : x = t[i] BY <2>1 DEF Members
    <3>2. i = Len(s) + 1 \/ i \in 1 .. Len(s) BY <1>1, <1>2
    <3> QED BY <3>1, <3>2, <1>1, <1>2
  <2>2. ASSUME NEW x \in Members(s) PROVE x \in Members(t)
    <3>1. PICK i \in 1 .. Len(s) : x = s[i] BY <2>2 DEF Members
    <3>2. i \in 1 .. Len(t) /\ x = t[i] BY <3>1, <1>1, <1>2
    <3> QED BY <3>2 DEF Members
  <2>3. e \in Members(t)
    <3>1. Len(s) + 1 \in 1 .. Len(t) BY <1>1, <1>2
    <3> QED BY <3>1, <1>2 DEF Members
  <2> QED BY <2>1, <2>2, <2>3
<1> HIDE DEF t
<1>7. Threaded(t, t[1], m, q) BY <1>2, <1>3, <1>4 DEF Threaded
<1>8. Threaded(t, IF s = << >> THEN e ELSE start, m, q) BY <1>5, <1>7
<1> QED BY <1>6, <1>8 DEF t

(* RemoveAt, place by place.                                                 *)
LEMMA RemovedAt ==
  ASSUME NEW A, NEW s \in Seq(A), NEW i \in 1 .. Len(s)
  PROVE  /\ RemoveAt(s, i) \in Seq(A)
         /\ Len(RemoveAt(s, i)) = Len(s) - 1
         /\ \A j \in 1 .. Len(s) - 1 : RemoveAt(s, i)[j] = s[IF j < i THEN j ELSE j + 1]
<1> DEFINE a == SubSeq(s, 1, i - 1)  b == SubSeq(s, i + 1, Len(s))
<1>1. Len(s) \in Nat /\ i \in Nat OBVIOUS
<1>2. a \in Seq(A) /\ Len(a) = i - 1 /\ \A j \in 1 .. i - 1 : a[j] = s[j] BY <1>1
<1>3. b \in Seq(A) /\ Len(b) = Len(s) - i /\ \A j \in 1 .. Len(s) - i : b[j] = s[i + j]
  <2>1. CASE i = Len(s) BY <1>1, <2>1
  <2>2. CASE i < Len(s) BY <1>1, <2>2
  <2> QED BY <1>1, <2>1, <2>2
<1> HIDE DEF a, b
<1>4. a \o b \in Seq(A) /\ Len(a \o b) = Len(s) - 1 BY <1>1, <1>2, <1>3
<1>5. ASSUME NEW j \in 1 .. Len(s) - 1
      PROVE  (a \o b)[j] = s[IF j < i THEN j ELSE j + 1]
  <2>1. CASE j < i BY <1>1, <1>2, <1>3, <2>1
  <2>2. CASE ~(j < i)
    <3>1. (a \o b)[j] = b[j - (i - 1)] BY <1>1, <1>2, <1>3, <2>2
    <3>2. j - (i - 1) \in 1 .. Len(s) - i BY <1>1, <2>2
    <3>3. b[j - (i - 1)] = s[i + (j - (i - 1))] BY <1>3, <3>2
    <3>4. i + (j - (i - 1)) = j + 1 BY <1>1
    <3> QED BY <2>2, <3>1, <3>3, <3>4
  <2> QED BY <2>1, <2>2
<1> QED BY <1>4, <1>5 DEF a, b, RemoveAt

(* An element unlinked, as DeleteCurrentElement does.                        *)
LEMMA RemoveFromThread ==
  ASSUME NEW s, NEW start, NEW n, NEW p, NEW m, NEW q, Threaded(s, start, n, p),
         NEW i \in 1 .. Len(s), Null \notin Heap,
         \A f \in Members(s) \ {s[i]} :
           /\ m[f] = IF f = p[s[i]] THEN n[s[i]] ELSE n[f]
           /\ q[f] = IF f = n[s[i]] THEN p[s[i]] ELSE p[f]
  PROVE  /\ Threaded(RemoveAt(s, i), IF p[s[i]] = Null THEN n[s[i]] ELSE start, m, q)
         /\ Members(RemoveAt(s, i)) = Members(s) \ {s[i]}
<1> DEFINE t == RemoveAt(s, i)
           Place(j) == IF j < i THEN j ELSE j + 1
<1>1. /\ s \in Seq(Heap) /\ Len(s) \in Nat /\ i \in Nat
      /\ \A j \in 1 .. Len(s) : s[j] \in Heap /\ s[j] \in Members(s)
  BY DEF Threaded, Members
<1>2. /\ t \in Seq(Heap) /\ Len(t) = Len(s) - 1 /\ Len(t) \in Nat
      /\ \A j \in 1 .. Len(t) : t[j] = s[Place(j)]
  BY <1>1, RemovedAt
<1> HIDE DEF t
<1>3. \A j \in 1 .. Len(t) : Place(j) \in 1 .. Len(s) /\ Place(j) # i BY <1>1, <1>2
<1>4. \A j, k \in 1 .. Len(s) : s[j] = s[k] => j = k BY DEF Threaded
<1>5. \A j, k \in 1 .. Len(t) : t[j] = t[k] => j = k
  <2> SUFFICES ASSUME NEW j \in 1 .. Len(t), NEW k \in 1 .. Len(t), t[j] = t[k] PROVE j = k
    OBVIOUS
  <2>1. Place(j) = Place(k) BY <1>2, <1>3, <1>4
  <2> QED BY <2>1, <1>1, <1>2
<1>6. /\ n[s[i]] = IF i < Len(s) THEN s[i + 1] ELSE Null
      /\ p[s[i]] = IF i > 1 THEN s[i - 1] ELSE Null
  BY DEF Threaded
<1>7. ASSUME NEW j \in 1 .. Len(t)
      PROVE  /\ m[t[j]] = IF j < Len(t) THEN t[j + 1] ELSE Null
             /\ q[t[j]] = IF j > 1 THEN t[j - 1] ELSE Null
  <2> DEFINE k == Place(j)
  <2>1. /\ t[j] = s[k] /\ k \in 1 .. Len(s) /\ k # i /\ k \in Nat /\ s[k] \in Members(s) \ {s[i]}
    BY <1>1, <1>2, <1>3, <1>4
  <2>2. /\ n[s[k]] = IF k < Len(s) THEN s[k + 1] ELSE Null
        /\ p[s[k]] = IF k > 1 THEN s[k - 1] ELSE Null
    BY <2>1 DEF Threaded
  <2>3. s[k] # Null BY <1>1, <2>1
  <2>4. s[k] = p[s[i]] <=> k + 1 = i
    <3>1. CASE i > 1
      <4>1. p[s[i]] = s[i - 1] /\ i - 1 \in 1 .. Len(s) BY <3>1, <1>1, <1>6
      <4>2. s[k] = s[i - 1] <=> k = i - 1 BY <4>1, <2>1, <1>4
      <4> QED BY <4>1, <4>2, <2>1, <1>1
    <3>2. CASE ~(i > 1)
      <4>1. p[s[i]] = Null /\ i = 1 BY <3>2, <1>1, <1>6
      <4> QED BY <4>1, <2>1, <2>3
    <3> QED BY <3>1, <3>2
  <2>5. s[k] = n[s[i]] <=> k = i + 1
    <3>1. CASE i < Len(s)
      <4>1. n[s[i]] = s[i + 1] /\ i + 1 \in 1 .. Len(s) BY <3>1, <1>1, <1>6
      <4>2. s[k] = s[i + 1] <=> k = i + 1 BY <4>1, <2>1, <1>4
      <4> QED BY <4>1, <4>2
    <3>2. CASE ~(i < Len(s))
      <4>1. n[s[i]] = Null /\ i = Len(s) BY <3>2, <1>1, <1>6
      <4> QED BY <4>1, <2>1, <2>3, <1>1
    <3> QED BY <3>1, <3>2
  <2>6. /\ m[s[k]] = IF k + 1 = i THEN n[s[i]] ELSE n[s[k]]
        /\ q[s[k]] = IF k = i + 1 THEN p[s[i]] ELSE p[s[k]]
    BY <2>1, <2>4, <2>5
  <2>7. m[s[k]] = IF j < Len(t) THEN t[j + 1] ELSE Null
    <3>1. j < Len(t) => j + 1 \in 1 .. Len(t) /\ t[j + 1] = s[Place(j + 1)] BY <1>1, <1>2
    <3>2. CASE k + 1 = i
      <4>1. j = k /\ Place(j + 1) = i + 1 BY <3>2, <2>1, <1>1
      <4>2. j < Len(t) <=> i < Len(s) BY <4>1, <3>2, <1>1, <1>2
      <4> QED BY <4>1, <4>2, <3>1, <3>2, <2>6, <1>6
    <3>3. CASE k + 1 # i
      <4>1. Place(j + 1) = k + 1 BY <3>3, <1>1
      <4>2. j < Len(t) <=> k < Len(s) BY <3>3, <2>1, <1>1, <1>2
      <4> QED BY <4>1, <4>2, <3>1, <3>3, <2>6, <2>2
    <3> QED BY <3>2, <3>3
  <2>8. q[s[k]] = IF j > 1 THEN t[j - 1] ELSE Null
    <3>1. j > 1 => j - 1 \in 1 .. Len(t) /\ t[j - 1] = s[Place(j - 1)] BY <1>1, <1>2
    <3>2. CASE k = i + 1
      <4>1. j = i /\ Place(j - 1) = i - 1 BY <3>2, <2>1, <1>1
      <4> QED BY <4>1, <3>1, <3>2, <2>6, <1>6
    <3>3. CASE k # i + 1
      <4>1. j > 1 => Place(j - 1) = k - 1 BY <3>3, <2>1, <1>1
      <4>2. j > 1 <=> k > 1 BY <3>3, <2>1, <1>1
      <4> QED BY <4>1, <4>2, <3>1, <3>3, <2>6, <2>2
    <3> QED BY <3>2, <3>3
  <2> QED BY <2>1, <2>7, <2>8
<1>8. (IF p[s[i]] = Null THEN n[s[i]] ELSE start) = IF t = << >> THEN Null ELSE t[1]
  <2>1. CASE i > 1
    <3>1. p[s[i]] = s[i - 1] /\ s[i - 1] # Null BY <2>1, <1>1, <1>6
    <3>2. start = s[1] BY <2>1, <1>1 DEF Threaded
    <3>3. 1 \in 1 .. Len(t) /\ Place(1) = 1 /\ t # << >> BY <2>1, <1>1, <1>2
    <3> QED BY <3>1, <3>2, <3>3, <1>2
  <2>2. CASE ~(i > 1)
    <3>1. p[s[i]] = Null /\ i = 1 BY <2>2, <1>1, <1>6
    <3>2. CASE Len(s) = 1
      <4>1. t = << >> BY <3>2, <1>2
      <4> QED BY <3>1, <3>2, <4>1, <1>6
    <3>3. CASE Len(s) # 1
      <4>1. 1 \in 1 .. Len(t) /\ Place(1) = 2 /\ t # << >> /\ 1 < Len(s) BY <3>1, <3>3, <1>1, <1>2
      <4> QED BY <3>1, <4>1, <1>2, <1>6
    <3> QED BY <3>2, <3>3
  <2> QED BY <2>1, <2>2
<1>9. Members(t) = Members(s) \ {s[i]}
  <2>1. ASSUME NEW x \in Members(t) PROVE x \in Members(s) \ {s[i]}
    <3>1. PICK j \in 1 .. Len(t) : x = t[j] BY <2>1 DEF Members
    <3> QED BY <3>1, <1>1, <1>2, <1>3, <1>4
  <2>2. ASSUME NEW x \in Members(s) \ {s[i]} PROVE x \in Members(t)
    <3>1. PICK k \in 1 .. Len(s) : x = s[k] BY <2>2 DEF Members
    <3>2. k # i BY <2>2, <3>1
    <3>3. CASE k < i
      <4>1. k \in 1 .. Len(t) /\ Place(k) = k BY <3>3, <1>1, <1>2
      <4> QED BY <4>1, <3>1, <1>2 DEF Members
    <3>4. CASE k > i
      <4>1. k - 1 \in 1 .. Len(t) /\ Place(k - 1) = k BY <3>4, <1>1, <1>2
      <4> QED BY <4>1, <3>1, <1>2 DEF Members
    <3> QED BY <3>2, <3>3, <3>4, <1>1
  <2> QED BY <2>1, <2>2
<1> DEFINE first == IF p[s[i]] = Null THEN n[s[i]] ELSE start
<1>10. first = IF t = << >> THEN Null ELSE t[1] BY <1>8
<1> HIDE DEF first
<1>11. Threaded(t, first, m, q) BY <1>2, <1>5, <1>7, <1>10 DEF Threaded
<1> QED BY <1>9, <1>11 DEF t, first

-----------------------------------------------------------------------------
(* Hash tables.                                                              *)
Link(h, f) == [e \in DOMAIN h.elem |-> h.elem[e][f]]

(* A table with such keys and values in its elements *)
ElementType(keys, vals) ==
  [key : keys, val : vals,
   hashprev : Heap \union {Null}, hashnext : Heap \union {Null},
   listprev : Heap \union {Null}, listnext : Heap \union {Null}]

HashTableOf(h, keys, vals) ==
  /\ keys \subseteq Keys
  /\ h = [elem |-> h.elem, table |-> h.table, first |-> h.first, last |-> h.last]
  /\ DOMAIN h.elem \subseteq Heap
  /\ h.elem \in [DOMAIN h.elem -> ElementType(keys, vals)]
  /\ h.table = [b \in Buckets |-> h.table[b]]

(* l is its list, c[b] the chain of bucket b. *)
Ordered(h, l, c) ==
  /\ Threaded(l, h.first, Link(h, "listnext"), Link(h, "listprev"))
  /\ Members(l) = DOMAIN h.elem
  /\ h.last = IF l = << >> THEN Null ELSE l[Len(l)]
  /\ \A b \in Buckets :
       /\ Threaded(c[b], h.table[b], Link(h, "hashnext"), Link(h, "hashprev"))
       /\ Members(c[b]) = {e \in DOMAIN h.elem : Bucket[h.elem[e].key] = b}
  /\ \A e, f \in DOMAIN h.elem : h.elem[e].key = h.elem[f].key => e = f

(* A thread is no longer than there are elements.                            *)
LEMMA ThreadLength ==
  ASSUME NEW s, NEW start, NEW n, NEW p, Threaded(s, start, n, p),
         NEW D, D \subseteq Heap, Members(s) \subseteq D
  PROVE  /\ IsFiniteSet(D) /\ Cardinality(D) \in Nat /\ Len(s) <= Cardinality(D)
         /\ Members(s) = D => Len(s) = Cardinality(D)
<1>1. IsFiniteSet(D) /\ Cardinality(D) \in Nat
  BY HashAssumption, FS_Subset, FS_CardinalityType
<1>2. s \in Seq(Heap) /\ Len(s) \in Nat BY DEF Threaded
<1>3. s \in Injection(1 .. Len(s), D)
  BY <1>2 DEF Threaded, Members, Injection, IsInjective
<1>4. Cardinality(1 .. Len(s)) = Len(s) BY <1>2, FS_Interval
<1>5. /\ Cardinality(1 .. Len(s)) <= Cardinality(D)
      /\ Cardinality(1 .. Len(s)) = Cardinality(D) <=> s \in Surjection(1 .. Len(s), D)
  BY <1>1, <1>3, FS_Injection
<1>6. Members(s) = D => s \in Surjection(1 .. Len(s), D)
  BY <1>2, <1>3 DEF Members, Surjection, Injection
<1> QED BY <1>1, <1>4, <1>5, <1>6

(* Walk meets the thread, and then Null.                                     *)
LEMMA WalkAlong ==
  ASSUME NEW h, DOMAIN h.elem \subseteq Heap, NEW next, NEW prev, NEW s, NEW start,
         Threaded(s, start, Link(h, next), Link(h, prev)), Members(s) \subseteq DOMAIN h.elem
  PROVE  /\ DOMAIN Walk(h, start, next) = 0 .. Cardinality(DOMAIN h.elem)
         /\ \A k \in 0 .. Cardinality(DOMAIN h.elem) :
              Walk(h, start, next)[k] = IF k < Len(s) THEN s[k + 1] ELSE Null
<1> DEFINE N == Cardinality(DOMAIN h.elem)
           g == [k \in 0 .. N |-> IF k < Len(s) THEN s[k + 1] ELSE Null]
           at == Walk(h, start, next)
<1>1. N \in Nat /\ Len(s) <= N BY ThreadLength
<1>2. s \in Seq(Heap) /\ Len(s) \in Nat /\ Null \notin Heap BY HashAssumption DEF Threaded
<1>3. ASSUME NEW k \in 1 .. Len(s)
      PROVE  /\ s[k] \in DOMAIN h.elem /\ s[k] # Null
             /\ h.elem[s[k]][next] = IF k < Len(s) THEN s[k + 1] ELSE Null
  <2>1. s[k] \in DOMAIN h.elem /\ s[k] \in Heap BY <1>2 DEF Members
  <2>2. Link(h, next)[s[k]] = IF k < Len(s) THEN s[k + 1] ELSE Null BY DEF Threaded
  <2>3. Link(h, next)[s[k]] = h.elem[s[k]][next] BY <2>1 DEF Link
  <2> QED BY <2>1, <2>2, <2>3, <1>2
<1>4. ASSUME NEW k \in 0 .. N
      PROVE  g[k] = IF k = 0 THEN start
                    ELSE IF g[k - 1] = Null THEN Null ELSE h.elem[g[k - 1]][next]
  <2>1. CASE k = 0
    <3>1. CASE s = << >> BY <2>1, <3>1, <1>1 DEF Threaded
    <3>2. CASE s # << >> BY <2>1, <3>2, <1>1, <1>2 DEF Threaded
    <3> QED BY <3>1, <3>2
  <2>2. CASE k # 0 /\ k - 1 < Len(s)
    <3>1. k \in 1 .. Len(s) /\ k - 1 \in 0 .. N BY <2>2, <1>1, <1>2
    <3>2. g[k - 1] = s[k] BY <3>1, <2>2, <1>1, <1>2
    <3>3. g[k] = IF k < Len(s) THEN s[k + 1] ELSE Null OBVIOUS
    <3> QED BY <2>2, <3>1, <3>2, <3>3, <1>3
  <2>3. CASE k # 0 /\ ~(k - 1 < Len(s))
    <3>1. k - 1 \in 0 .. N /\ ~(k < Len(s)) BY <2>3, <1>1, <1>2
    <3>2. g[k - 1] = Null BY <2>3, <3>1
    <3> QED BY <2>3, <3>1, <3>2
  <2> QED BY <2>1, <2>2, <2>3
<1> DEFINE Step(f) == [k \in 0 .. N |-> IF k = 0 THEN start
                         ELSE IF f[k - 1] = Null THEN Null ELSE h.elem[f[k - 1]][next]]
<1>5. g = Step(g) BY <1>4
<1>6. at = Step(at)
  <2>1. \E f : f = Step(f) BY <1>5
  <2>2. at = CHOOSE f : f = Step(f) BY Zenon DEF Walk
  <2> HIDE DEF at, Step
  <2> QED BY <2>1, <2>2, Zenon
<1> DEFINE Bad == {k \in 0 .. N : at[k] # g[k]}
<1>7. Bad = {}
  <2> SUFFICES ASSUME Bad # {} PROVE FALSE OBVIOUS
  <2> HIDE DEF at, g
  <2>1. PICK k \in Bad : \A j \in Bad : k <= j
    <3>1. Bad \in SUBSET Nat BY <1>1
    <3> QED BY <3>1, SmallestExists
  <2>2. k \in 0 .. N /\ k \in Nat BY <1>1
  <2>3. /\ at[k] = IF k = 0 THEN start
                   ELSE IF at[k - 1] = Null THEN Null ELSE h.elem[at[k - 1]][next]
        /\ g[k] = IF k = 0 THEN start
                   ELSE IF g[k - 1] = Null THEN Null ELSE h.elem[g[k - 1]][next]
    BY <1>6, <2>2, <1>4
  <2>4. k # 0 => at[k - 1] = g[k - 1]
    <3>1. k # 0 => k - 1 \in 0 .. N /\ k - 1 < k BY <2>2, <1>1
    <3>2. k # 0 => k - 1 \notin Bad BY <3>1, <2>1, <2>2
    <3> QED BY <3>1, <3>2
  <2> QED BY <2>2, <2>3, <2>4
<1>8. DOMAIN at = 0 .. N BY <1>6
<1>9. \A k \in 0 .. N : at[k] = IF k < Len(s) THEN s[k + 1] ELSE Null
  <2> HIDE DEF at
  <2> QED BY <1>7
<1> QED BY <1>8, <1>9

(* So what is reached is what the thread holds.                              *)
LEMMA ReachedAlong ==
  ASSUME NEW h, DOMAIN h.elem \subseteq Heap, NEW next, NEW prev, NEW s, NEW start,
         Threaded(s, start, Link(h, next), Link(h, prev)), Members(s) \subseteq DOMAIN h.elem
  PROVE  Reached(h, start, next) = Members(s)
<1> DEFINE N == Cardinality(DOMAIN h.elem)  at == Walk(h, start, next)
<1>1. N \in Nat /\ Len(s) <= N BY ThreadLength
<1>2. /\ s \in Seq(Heap) /\ Len(s) \in Nat /\ Null \notin Heap
      /\ \A k \in 1 .. Len(s) : s[k] # Null
  BY HashAssumption DEF Threaded
<1>3. DOMAIN at = 0 .. N /\ \A k \in 0 .. N : at[k] = IF k < Len(s) THEN s[k + 1] ELSE Null
  BY WalkAlong
<1> HIDE DEF at, N
<1>4. {at[n] : n \in DOMAIN at} \ {Null} = Members(s)
  <2>1. ASSUME NEW x \in {at[n] : n \in DOMAIN at} \ {Null} PROVE x \in Members(s)
    <3>1. PICK n \in 0 .. N : x = at[n] BY <1>3, <2>1
    <3>2. n < Len(s) /\ x = s[n + 1] BY <1>3, <2>1, <3>1
    <3>3. n + 1 \in 1 .. Len(s) BY <1>1, <1>2, <3>2
    <3> QED BY <3>2, <3>3 DEF Members
  <2>2. ASSUME NEW x \in Members(s) PROVE x \in {at[n] : n \in DOMAIN at} \ {Null}
    <3>1. PICK k \in 1 .. Len(s) : x = s[k] BY <2>2 DEF Members
    <3>2. k - 1 \in 0 .. N /\ k - 1 < Len(s) /\ k - 1 + 1 = k BY <3>1, <1>1, <1>2
    <3>3. at[k - 1] = x BY <3>1, <3>2, <1>3
    <3>4. k - 1 \in DOMAIN at BY <3>2, <1>3
    <3> QED BY <3>1, <3>3, <3>4, <1>2
  <2> QED BY <2>1, <2>2
<1> QED BY <1>4 DEF Reached, at

(* A thread is a sequence.                                                   *)
LEMMA ThreadIsSequence ==
  ASSUME NEW s, NEW start, NEW n, NEW p, Threaded(s, start, n, p)
  PROVE  s \in Seq(Heap) /\ Len(s) \in Nat
BY DEF Threaded

(* HashTable walks as KeyHashTable does.                                     *)
LEMMA SameWalk ==
  ASSUME NEW h, NEW start, NEW link
  PROVE  S!K!Walk(h, start, link) = Walk(h, start, link)
BY Zenon DEF S!K!Walk, Walk, S!K!Cardinality, Cardinality

(* And counts the same.                                                      *)
LEMMA SameCardinality ==
  ASSUME NEW T PROVE S!Cardinality(T) = Cardinality(T)
BY Zenon DEF S!Cardinality, Cardinality

(* A lookup finds the element with the key. *)
LEMMA FindIs ==
  ASSUME NEW keys, NEW vals, NEW h, HashTableOf(h, keys, vals),
         NEW l, NEW c, Ordered(h, l, c), NEW k \in Keys
  PROVE  /\ HasElement(h, k) <=> \E e \in DOMAIN h.elem : h.elem[e].key = k
         /\ HasElement(h, k) => Find(h, k) \in DOMAIN h.elem /\ h.elem[Find(h, k)].key = k
<1> DEFINE found == {e \in Chain(h, Bucket[k]) : h.elem[e].key = k}
<1>1. Bucket[k] \in Buckets /\ Null \notin Heap /\ DOMAIN h.elem \subseteq Heap
  BY HashAssumption DEF HashTableOf
<1>2. Chain(h, Bucket[k]) = {e \in DOMAIN h.elem : Bucket[h.elem[e].key] = Bucket[k]}
  <2>1. /\ Threaded(c[Bucket[k]], h.table[Bucket[k]], Link(h, "hashnext"), Link(h, "hashprev"))
        /\ Members(c[Bucket[k]]) = {e \in DOMAIN h.elem : Bucket[h.elem[e].key] = Bucket[k]}
    BY <1>1, Zenon DEF Ordered
  <2>2. Members(c[Bucket[k]]) \subseteq DOMAIN h.elem BY <2>1
  <2> QED BY <1>1, <2>1, <2>2, ReachedAlong DEF Chain
<1>3. found = {e \in DOMAIN h.elem : h.elem[e].key = k} BY <1>2
<1>4. Find(h, k) = IF found = {} THEN Null ELSE CHOOSE e \in found : TRUE BY Zenon DEF Find
<1> HIDE DEF found
<1>5. found # {} => Find(h, k) \in found BY <1>4
<1>6. found # {} => Find(h, k) # Null BY <1>1, <1>3, <1>5
<1> QED BY <1>3, <1>4, <1>5, <1>6 DEF HasElement

(* What a table's links have to satisfy, from the sequences. *)
LEMMA OrderedIsLinked ==
  ASSUME NEW keys, NEW vals, NEW h, HashTableOf(h, keys, vals),
         NEW l, NEW c, Ordered(h, l, c)
  PROVE  Linked(h)
<1> DEFINE D == DOMAIN h.elem
           ln == Link(h, "listnext")  lp == Link(h, "listprev")
           hn == Link(h, "hashnext")  hp == Link(h, "hashprev")
           b(e) == Bucket[h.elem[e].key]
<1>1. D \subseteq Heap /\ Null \notin Heap BY HashAssumption DEF HashTableOf
<1>2. ASSUME NEW e \in D
      PROVE  /\ h.elem[e].key \in Keys /\ b(e) \in Buckets
             /\ h.elem[e].listnext = ln[e] /\ h.elem[e].listprev = lp[e]
             /\ h.elem[e].hashnext = hn[e] /\ h.elem[e].hashprev = hp[e]
             /\ h.elem[e]["listnext"] = ln[e] /\ h.elem[e]["listprev"] = lp[e]
             /\ h.elem[e]["hashnext"] = hn[e] /\ h.elem[e]["hashprev"] = hp[e]
  <2>1. h.elem[e] \in ElementType(keys, vals) /\ keys \subseteq Keys BY DEF HashTableOf
  <2>2. h.elem[e].key \in Keys BY <2>1 DEF ElementType
  <2> QED BY <2>2, HashAssumption DEF Link
<1>3. Threaded(l, h.first, ln, lp) /\ Members(l) = D /\ Len(l) \in Nat /\ l \in Seq(Heap)
  <2>1. Threaded(l, h.first, ln, lp) /\ Members(l) = D BY Zenon DEF Ordered
  <2> QED BY <2>1, ThreadIsSequence
<1>4. ASSUME NEW e \in D
      PROVE  LET s == c[b(e)] IN
             /\ Threaded(s, h.table[b(e)], hn, hp) /\ e \in Members(s)
             /\ Members(s) = {f \in D : b(f) = b(e)} /\ s \in Seq(Heap) /\ Len(s) \in Nat
  <2>1. b(e) \in Buckets BY <1>2
  <2>2. /\ Threaded(c[b(e)], h.table[b(e)], hn, hp)
        /\ Members(c[b(e)]) = {f \in D : b(f) = b(e)}
    BY <2>1, Zenon DEF Ordered
  <2>3. e \in Members(c[b(e)]) BY <2>2
  <2>4. c[b(e)] \in Seq(Heap) /\ Len(c[b(e)]) \in Nat
    <3> HIDE DEF hn, hp, b
    <3> QED BY <2>2, ThreadIsSequence, Zenon
  <2> QED BY <2>2, <2>3, <2>4
<1> HIDE DEF ln, lp, hn, hp, b
<1>5. List(h) = D BY <1>1, <1>3, ReachedAlong DEF List, ln, lp
<1>6. \A s, start, n, p :
        Threaded(s, start, n, p) /\ Members(s) \subseteq D =>
          \A e, f \in Members(s) :
            /\ n[e] = f <=> p[f] = e
            /\ n[e] = Null <=> e = s[Len(s)]
            /\ p[e] = Null <=> e = start
            /\ n[e] \in Members(s) \union {Null} /\ p[e] \in Members(s) \union {Null}
  <2> SUFFICES ASSUME NEW s, NEW start, NEW n, NEW p, Threaded(s, start, n, p),
                      Members(s) \subseteq D, NEW e \in Members(s), NEW f \in Members(s)
               PROVE  /\ n[e] = f <=> p[f] = e
                      /\ n[e] = Null <=> e = s[Len(s)]
                      /\ p[e] = Null <=> e = start
                      /\ n[e] \in Members(s) \union {Null} /\ p[e] \in Members(s) \union {Null}
    BY Zenon
  <2>1. PICK i \in 1 .. Len(s) : e = s[i] BY DEF Members
  <2>2. PICK j \in 1 .. Len(s) : f = s[j] BY DEF Members
  <2>3. s \in Seq(Heap) /\ Len(s) \in Nat /\ \A k \in 1 .. Len(s) : s[k] # Null /\ s[k] \in Members(s)
    BY <1>1 DEF Threaded, Members
  <2>4. \A k, m \in 1 .. Len(s) : s[k] = s[m] => k = m BY DEF Threaded
  <2>5. /\ n[e] = IF i < Len(s) THEN s[i + 1] ELSE Null
        /\ p[e] = IF i > 1 THEN s[i - 1] ELSE Null
        /\ p[f] = IF j > 1 THEN s[j - 1] ELSE Null
    BY <2>1, <2>2 DEF Threaded
  <2>6. n[e] = f <=> j = i + 1
    <3>1. i < Len(s) => i + 1 \in 1 .. Len(s) BY <2>3
    <3> QED BY <2>2, <2>3, <2>4, <2>5, <3>1
  <2>7. p[f] = e <=> j = i + 1
    <3>1. j > 1 => j - 1 \in 1 .. Len(s) BY <2>3
    <3> QED BY <2>1, <2>3, <2>4, <2>5, <3>1
  <2>8. n[e] = Null <=> e = s[Len(s)]
    <3>1. i < Len(s) => i + 1 \in 1 .. Len(s) BY <2>3
    <3>2. Len(s) \in 1 .. Len(s) BY <2>3
    <3> QED BY <2>1, <2>3, <2>4, <2>5, <3>1, <3>2
  <2>9. p[e] = Null <=> e = start
    <3>1. i > 1 => i - 1 \in 1 .. Len(s) BY <2>3
    <3>2. start = s[1] /\ 1 \in 1 .. Len(s) BY <2>3 DEF Threaded
    <3> QED BY <2>1, <2>3, <2>4, <2>5, <3>1, <3>2
  <2>10. n[e] \in Members(s) \union {Null} /\ p[e] \in Members(s) \union {Null}
    <3>1. i < Len(s) => i + 1 \in 1 .. Len(s) BY <2>3
    <3>2. i > 1 => i - 1 \in 1 .. Len(s) BY <2>3
    <3> QED BY <2>3, <2>5, <3>1, <3>2
  <2> QED BY <2>6, <2>7, <2>8, <2>9, <2>10
<1>7. ASSUME NEW e \in D
      PROVE  /\ e \in Chain(h, Bucket[h.elem[e].key])
             /\ h.elem[e].listnext = Null <=> e = h.last
             /\ h.elem[e].listprev = Null <=> e = h.first
             /\ h.elem[e].hashprev = Null <=> e = h.table[Bucket[h.elem[e].key]]
  <2>1. e \in Chain(h, b(e))
    <3>1. Members(c[b(e)]) \subseteq D BY <1>4
    <3> QED BY <1>1, <1>4, <3>1, ReachedAlong DEF Chain, hn, hp
  <2>2. h.last = l[Len(l)]
    <3>1. l # << >> BY <1>3 DEF Members
    <3> QED BY <3>1 DEF Ordered
  <2>3. /\ ln[e] = Null <=> e = l[Len(l)]
        /\ lp[e] = Null <=> e = h.first
    BY <1>3, <1>6
  <2>4. hp[e] = Null <=> e = h.table[b(e)]
    <3>1. Members(c[b(e)]) \subseteq D BY <1>4
    <3> QED BY <1>4, <1>6, <3>1
  <2> QED BY <1>2, <2>1, <2>2, <2>3, <2>4 DEF b
<1>8. TwoWay(h, "listnext", "listprev")
  <2> SUFFICES ASSUME NEW e \in D, NEW f \in D PROVE ln[e] = f <=> lp[f] = e
    BY <1>2 DEF TwoWay
  <2> QED BY <1>3, <1>6
<1>9. TwoWay(h, "hashnext", "hashprev")
  <2> SUFFICES ASSUME NEW e \in D, NEW f \in D PROVE hn[e] = f <=> hp[f] = e
    BY <1>2 DEF TwoWay
  <2>1. e # Null /\ f # Null BY <1>1
  <2>2. CASE b(e) = b(f)
    <3>1. Members(c[b(e)]) \subseteq D /\ f \in Members(c[b(e)]) BY <1>4, <2>2
    <3> QED BY <1>4, <1>6, <3>1
  <2>3. CASE b(e) # b(f)
    <3>1. hn[e] # f
      <4>1. Members(c[b(e)]) \subseteq D /\ f \notin Members(c[b(e)]) BY <1>4, <2>3
      <4>2. hn[e] \in Members(c[b(e)]) \union {Null} BY <1>4, <1>6, <4>1
      <4> QED BY <2>1, <4>1, <4>2
    <3>2. hp[f] # e
      <4>1. Members(c[b(f)]) \subseteq D /\ e \notin Members(c[b(f)]) BY <1>4, <2>3
      <4>2. hp[f] \in Members(c[b(f)]) \union {Null} BY <1>4, <1>6, <4>1
      <4> QED BY <2>1, <4>1, <4>2
    <3> QED BY <3>1, <3>2
  <2> QED BY <2>2, <2>3
<1> QED BY <1>5, <1>7, <1>8, <1>9 DEF Linked, Ordered

(* The elements the list leads to, in its order. *)
Listed(h, l) == [i \in 1 .. Len(l) |-> h.elem[l[i]].val]

(* The list of HashTable, in its order.                                      *)
LEMMA ElementsAre ==
  ASSUME NEW h, DOMAIN h.elem \subseteq Heap, NEW l, NEW c, Ordered(h, l, c)
  PROVE  S!Elements(h) = Listed(h, l)
<1> DEFINE N == Cardinality(DOMAIN h.elem)  at == Walk(h, h.first, "listnext")
           some == {i \in DOMAIN at : at[i] # Null}
<1>1. Threaded(l, h.first, Link(h, "listnext"), Link(h, "listprev")) /\ Members(l) = DOMAIN h.elem
  BY Zenon DEF Ordered
<1>2. N \in Nat /\ Len(l) = N
  <2>1. Members(l) \subseteq DOMAIN h.elem BY <1>1
  <2> QED BY <1>1, <2>1, ThreadLength, Zenon
<1>3. DOMAIN at = 0 .. N /\ \A k \in 0 .. N : at[k] = IF k < Len(l) THEN l[k + 1] ELSE Null
  <2>1. Members(l) \subseteq DOMAIN h.elem BY <1>1
  <2> QED BY <1>1, <2>1, WalkAlong
<1>4. \A k \in 1 .. Len(l) : l[k] # Null BY HashAssumption, <1>1 DEF Threaded
<1> HIDE DEF at, N
<1>5. some = 0 .. Len(l) - 1
  <2>1. ASSUME NEW i \in DOMAIN at PROVE at[i] # Null <=> i < Len(l)
    <3>1. i \in 0 .. N /\ at[i] = IF i < Len(l) THEN l[i + 1] ELSE Null BY <1>3
    <3>2. i < Len(l) => i + 1 \in 1 .. Len(l) BY <1>2, <3>1
    <3> QED BY <1>4, <3>1, <3>2
  <2>2. DOMAIN at = 0 .. N BY <1>3
  <2> QED BY <1>2, <2>1, <2>2
<1>6. Cardinality(some) = Len(l)
  <2> HIDE DEF some
  <2>1. 0 \in Int /\ Len(l) - 1 \in Int /\ (0 > Len(l) - 1 <=> Len(l) = 0) BY <1>2
  <2>2. Cardinality(0 .. Len(l) - 1) = IF 0 > Len(l) - 1 THEN 0 ELSE Len(l) - 1 - 0 + 1
    BY <2>1, FS_Interval
  <2> QED BY <1>2, <1>5, <2>1, <2>2
<1>7. S!Elements(h) = [i \in 1 .. Cardinality(some) |-> h.elem[at[i - 1]].val]
  BY SameWalk, SameCardinality, Zenon DEF S!Elements, at
<1>8. ASSUME NEW i \in 1 .. Len(l) PROVE at[i - 1] = l[i]
  <2>1. i - 1 \in 0 .. N /\ i - 1 < Len(l) /\ i - 1 + 1 = i BY <1>2
  <2> QED BY <2>1, <1>3
<1> QED BY <1>6, <1>7, <1>8 DEF Listed

(* A table whose links are in order, and what it holds. *)
Sound(h, keys, vals) == HashTableOf(h, keys, vals) /\ \E l, c : Ordered(h, l, c)

Entries(h) == {<<h.elem[e].key, h.elem[e].val>> : e \in DOMAIN h.elem}

(* The table of the constructor.                                             *)
LEMMA EmptyIsSound ==
  ASSUME NEW keys, keys \subseteq Keys, NEW vals
  PROVE  /\ Sound(EmptyHashTable, keys, vals)
         /\ Entries(EmptyHashTable) = {}
         /\ DOMAIN EmptyHashTable.elem = {}
         /\ S!Elements(EmptyHashTable) = << >>
<1> DEFINE h == EmptyHashTable  c == [b \in Buckets |-> << >>]
<1>1. /\ h = [elem |-> h.elem, table |-> h.table, first |-> h.first, last |-> h.last]
      /\ DOMAIN h.elem = {} /\ h.first = Null /\ h.last = Null
      /\ h.table = [b \in Buckets |-> Null]
      /\ h.elem \in [DOMAIN h.elem -> ElementType(keys, vals)]
  BY DEF EmptyHashTable
<1> HIDE DEF h
<1>2. HashTableOf(h, keys, vals) BY <1>1 DEF HashTableOf
<1>3. Ordered(h, << >>, c)
  <2>1. \A n, p : Threaded(<< >>, Null, n, p) /\ Members(<< >>) = {} BY EmptyThread
  <2>2. \A b \in Buckets : c[b] = << >> /\ h.table[b] = Null BY <1>1
  <2> HIDE DEF c
  <2> QED BY <1>1, <2>1, <2>2 DEF Ordered
<1>4. Entries(h) = {} BY <1>1 DEF Entries
<1>5. S!Elements(h) = << >>
  <2>1. S!Elements(h) = Listed(h, << >>)
    <3>1. DOMAIN h.elem \subseteq Heap BY <1>1
    <3> QED BY <1>3, <3>1, ElementsAre
  <2> QED BY <2>1 DEF Listed
<1> QED BY <1>1, <1>2, <1>3, <1>4, <1>5, Zenon DEF h, Sound

(* As long as there is memory, a new element is none of the others.          *)
LEMMA NewAddressIsFree ==
  ASSUME NEW h, DOMAIN h.elem \subseteq Heap,
         Cardinality(DOMAIN h.elem) < Cardinality(Heap)
  PROVE  NewAddress(h) \in Heap \ DOMAIN h.elem
<1>1. Heap \ DOMAIN h.elem \in SUBSET Nat BY HashAssumption
<1>2. Heap \ DOMAIN h.elem # {}
  <2> SUFFICES ASSUME Heap \ DOMAIN h.elem = {} PROVE FALSE OBVIOUS
  <2>1. DOMAIN h.elem = Heap OBVIOUS
  <2>2. Cardinality(Heap) \in Nat BY HashAssumption, FS_CardinalityType
  <2>3. ~(Cardinality(Heap) < Cardinality(Heap)) BY <2>2
  <2> QED BY <2>1, <2>3
<1>3. \E e \in Heap \ DOMAIN h.elem : \A f \in Heap \ DOMAIN h.elem : e <= f
  BY <1>1, <1>2, SmallestExists
<1> QED BY <1>3, Zenon DEF NewAddress

(* AddElement: the links stay in order, and the entry comes last.            *)
LEMMA AddElementIs ==
  ASSUME NEW keys, NEW vals, NEW h, Sound(h, keys, vals),
         NEW k \in keys, NEW v \in vals, ~HasElement(h, k),
         Cardinality(DOMAIN h.elem) < Cardinality(Heap)
  PROVE  /\ Sound(AddElement(h, k, v), keys, vals)
         /\ Entries(AddElement(h, k, v)) = Entries(h) \union {<<k, v>>}
         /\ S!Elements(AddElement(h, k, v)) = Append(S!Elements(h), v)
<1> DEFINE g    == AddElement(h, k, v)
           e    == NewAddress(h)
           B    == Bucket[k]
           head == h.table[B]
           D    == DOMAIN h.elem
<1>1. PICK l, c : Ordered(h, l, c) BY Zenon DEF Sound
<1>2. /\ HashTableOf(h, keys, vals) /\ D \subseteq Heap /\ Null \notin Heap
      /\ B \in Buckets /\ e \in Heap /\ e \notin D /\ k \in Keys
  <2>1. HashTableOf(h, keys, vals) /\ D \subseteq Heap /\ k \in Keys BY DEF Sound, HashTableOf
  <2>2. B \in Buckets /\ Null \notin Heap BY <2>1, HashAssumption
  <2>3. e \in Heap \ D BY <2>1, NewAddressIsFree
  <2> QED BY <2>1, <2>2, <2>3
<1>3. \A f \in D : h.elem[f].key # k BY <1>1, <1>2, FindIs
<1> DEFINE new == [key |-> k, val |-> v, hashprev |-> Null, hashnext |-> head,
                   listprev |-> h.last, listnext |-> Null]
           linked(f) == [h.elem[f] EXCEPT !.hashprev = IF f = head THEN e ELSE @,
                                          !.listnext = IF f = h.last THEN e ELSE @]
           elem == [f \in D \union {e} |-> IF f = e THEN new ELSE linked(f)]
<1>4. g = [h EXCEPT !.elem = elem, !.table[B] = e,
                    !.first = IF h.first = Null THEN e ELSE h.first, !.last = e]
  BY Zenon DEF AddElement
<1> HIDE DEF g, e, B
<1>5. /\ h = [elem |-> h.elem, table |-> h.table, first |-> h.first, last |-> h.last]
      /\ h.table = [b \in Buckets |-> h.table[b]]
      /\ h.elem \in [D -> ElementType(keys, vals)]
  BY <1>2 DEF HashTableOf
<1>6. /\ g = [elem |-> elem, table |-> [h.table EXCEPT ![B] = e],
              first |-> IF h.first = Null THEN e ELSE h.first, last |-> e]
  BY <1>4, <1>5
<1> HIDE DEF elem
<1>7. /\ g.elem = elem /\ g.table = [h.table EXCEPT ![B] = e]
      /\ g.first = (IF h.first = Null THEN e ELSE h.first) /\ g.last = e
      /\ g = [elem |-> g.elem, table |-> g.table, first |-> g.first, last |-> g.last]
  BY <1>6
<1>8. DOMAIN g.elem = D \union {e} BY <1>7 DEF elem
<1>9. ASSUME NEW f \in D
      PROVE  /\ g.elem[f] = linked(f)
             /\ g.elem[f].key = h.elem[f].key /\ g.elem[f].val = h.elem[f].val
             /\ g.elem[f].hashnext = h.elem[f].hashnext
             /\ g.elem[f].hashprev = (IF f = head THEN e ELSE h.elem[f].hashprev)
             /\ g.elem[f].listnext = (IF f = h.last THEN e ELSE h.elem[f].listnext)
             /\ g.elem[f].listprev = h.elem[f].listprev
             /\ h.elem[f].key \in keys
  <2>1. f # e BY <1>2
  <2>2. g.elem[f] = linked(f) BY <1>7, <2>1 DEF elem
  <2>3. h.elem[f] \in ElementType(keys, vals) BY <1>5
  <2> QED BY <2>2, <2>3 DEF ElementType
<1>10. g.elem[e] = new BY <1>7 DEF elem
<1>11. /\ head \in Heap \union {Null} /\ h.last \in Heap \union {Null}
       /\ \A f \in D : h.elem[f] \in ElementType(keys, vals)
  <2>1. h.last \in Heap \union {Null}
    <3>1. l \in Seq(Heap) BY <1>1 DEF Ordered, Threaded
    <3>2. CASE l = << >> BY <1>1, <3>2 DEF Ordered
    <3>3. CASE l # << >>
      <4>1. l[Len(l)] \in Heap BY <3>1, <3>3
      <4> QED BY <1>1, <3>3, <4>1 DEF Ordered
    <3> QED BY <3>2, <3>3
  <2>2. head \in Heap \union {Null}
    <3>1. Threaded(c[B], head, Link(h, "hashnext"), Link(h, "hashprev"))
      BY <1>1, <1>2, Zenon DEF Ordered
    <3>2. c[B] \in Seq(Heap) /\ head = IF c[B] = << >> THEN Null ELSE c[B][1]
      BY <3>1 DEF Threaded
    <3> QED BY <3>2
  <2> QED BY <1>5, <2>1, <2>2
<1>12. HashTableOf(g, keys, vals)
  <2>1. ASSUME NEW f \in D \union {e} PROVE g.elem[f] \in ElementType(keys, vals)
    <3>1. CASE f = e
      <4>1. new \in ElementType(keys, vals) BY <1>11 DEF ElementType
      <4> QED BY <3>1, <4>1, <1>10
    <3>2. CASE f \in D
      <4>1. h.elem[f] \in ElementType(keys, vals) /\ g.elem[f] = linked(f) BY <1>5, <1>9, <3>2
      <4>2. linked(f) \in ElementType(keys, vals) BY <4>1, <1>2 DEF ElementType
      <4> QED BY <4>1, <4>2
    <3> QED BY <3>1, <3>2
  <2>2. g.elem = [f \in D \union {e} |-> g.elem[f]] BY <1>7 DEF elem
  <2>3. g.elem \in [D \union {e} -> ElementType(keys, vals)] BY <2>1, <2>2
  <2>4. g.table = [b \in Buckets |-> g.table[b]] BY <1>5, <1>7
  <2> QED BY <1>2, <1>7, <1>8, <2>3, <2>4 DEF HashTableOf
<1> DEFINE d == [b \in Buckets |-> IF b = B THEN <<e>> \o c[B] ELSE c[b]]
<1>13. ASSUME NEW f \in D
       PROVE  /\ Link(g, "hashnext")[f] = Link(h, "hashnext")[f]
              /\ Link(g, "hashprev")[f] = (IF f = head THEN e ELSE Link(h, "hashprev")[f])
              /\ Link(g, "listnext")[f] = (IF f = h.last THEN e ELSE Link(h, "listnext")[f])
              /\ Link(g, "listprev")[f] = Link(h, "listprev")[f]
  <2>1. f \in DOMAIN g.elem BY <1>8
  <2> QED BY <1>9, <2>1 DEF Link
<1>14. /\ Link(g, "hashnext")[e] = head /\ Link(g, "hashprev")[e] = Null
       /\ Link(g, "listnext")[e] = Null /\ Link(g, "listprev")[e] = h.last
  <2>1. e \in DOMAIN g.elem BY <1>8
  <2> QED BY <1>10, <2>1 DEF Link
<1>15. /\ Threaded(Append(l, e), g.first, Link(g, "listnext"), Link(g, "listprev"))
       /\ Members(Append(l, e)) = DOMAIN g.elem
       /\ g.last = Append(l, e)[Len(Append(l, e))] /\ Append(l, e) # << >>
  <2>1. /\ Threaded(l, h.first, Link(h, "listnext"), Link(h, "listprev"))
        /\ Members(l) = D /\ h.last = IF l = << >> THEN Null ELSE l[Len(l)]
    BY <1>1, Zenon DEF Ordered
  <2>2. \A f \in Members(l) : l # << >> BY DEF Members
  <2>3. /\ Threaded(Append(l, e), IF l = << >> THEN e ELSE h.first,
                    Link(g, "listnext"), Link(g, "listprev"))
        /\ Members(Append(l, e)) = Members(l) \union {e}
    <3> DEFINE n == Link(h, "listnext")  p == Link(h, "listprev")
               m == Link(g, "listnext")  q == Link(g, "listprev")
    <3>1. e \in Heap /\ Null \notin Heap /\ e \notin Members(l) BY <1>2, <2>1
    <3>2. \A f \in Members(l) : /\ m[f] = IF f = l[Len(l)] THEN e ELSE n[f]
                                /\ q[f] = p[f]
      BY <1>13, <2>1, <2>2
    <3>3. m[e] = Null /\ q[e] = IF l = << >> THEN Null ELSE l[Len(l)] BY <1>14, <2>1
    <3>4. Threaded(l, h.first, n, p) BY <2>1
    <3> HIDE DEF n, p, m, q
    <3>5. /\ Threaded(Append(l, e), IF l = << >> THEN e ELSE h.first, m, q)
          /\ Members(Append(l, e)) = Members(l) \union {e}
      BY <3>1, <3>2, <3>3, <3>4, AppendToThread
    <3> QED BY <3>5 DEF m, q
  <2>4. l \in Seq(Heap) BY <2>1 DEF Threaded
  <2>5. h.first = Null <=> l = << >>
    <3>1. h.first = IF l = << >> THEN Null ELSE l[1] BY <2>1 DEF Threaded
    <3>2. l # << >> => l[1] \in Heap BY <2>4
    <3> QED BY <1>2, <3>1, <3>2
  <2>6. Append(l, e)[Len(Append(l, e))] = e /\ Append(l, e) # << >> BY <2>4, <1>2
  <2> QED BY <1>7, <1>8, <2>1, <2>3, <2>5, <2>6
<1>16. ASSUME NEW b \in Buckets
       PROVE  /\ Threaded(d[b], g.table[b], Link(g, "hashnext"), Link(g, "hashprev"))
              /\ Members(d[b]) = {f \in DOMAIN g.elem : Bucket[g.elem[f].key] = b}
  <2>1. /\ Threaded(c[b], h.table[b], Link(h, "hashnext"), Link(h, "hashprev"))
        /\ Members(c[b]) = {f \in D : Bucket[h.elem[f].key] = b}
    BY <1>1, Zenon DEF Ordered
  <2>2. {f \in DOMAIN g.elem : Bucket[g.elem[f].key] = b} =
          Members(c[b]) \union (IF b = B THEN {e} ELSE {})
    <3>1. \A f \in D : g.elem[f].key = h.elem[f].key BY <1>9
    <3>2. g.elem[e].key = k BY <1>10
    <3> QED BY <1>8, <2>1, <3>1, <3>2 DEF B
  <2>3. CASE b = B
    <3>1. d[b] = <<e>> \o c[B] /\ g.table[b] = e BY <2>3, <1>5, <1>7
    <3> DEFINE n == Link(h, "hashnext")  p == Link(h, "hashprev")
               m == Link(g, "hashnext")  q == Link(g, "hashprev")  s == c[B]
    <3>2. \A f \in Members(s) : /\ m[f] = n[f]
                                /\ q[f] = IF f = head THEN e ELSE p[f]
      BY <1>13, <2>1, <2>3
    <3>3. e \in Heap /\ Null \notin Heap /\ e \notin Members(s) BY <1>2, <2>1, <2>3
    <3>4. m[e] = head /\ q[e] = Null BY <1>14
    <3>5. Threaded(s, head, n, p) BY <2>1, <2>3
    <3> HIDE DEF n, p, m, q, s, head
    <3>6. /\ Threaded(<<e>> \o s, e, m, q)
          /\ Members(<<e>> \o s) = Members(s) \union {e}
      BY <3>2, <3>3, <3>4, <3>5, PrependToThread
    <3>7. /\ Threaded(<<e>> \o c[B], e, Link(g, "hashnext"), Link(g, "hashprev"))
          /\ Members(<<e>> \o c[B]) = Members(c[B]) \union {e}
      BY <3>6 DEF m, q, s
    <3> QED BY <2>2, <2>3, <3>1, <3>7
  <2>4. CASE b # B
    <3>1. d[b] = c[b] /\ g.table[b] = h.table[b] BY <2>4, <1>5, <1>7
    <3>2. head \notin Members(c[b])
      <4>1. /\ Threaded(c[B], head, Link(h, "hashnext"), Link(h, "hashprev"))
            /\ Members(c[B]) = {f \in D : Bucket[h.elem[f].key] = B}
        BY <1>1, <1>2, Zenon DEF Ordered
      <4>2. head \in Members(c[B]) \union {Null}
        <5>1. c[B] \in Seq(Heap) /\ head = IF c[B] = << >> THEN Null ELSE c[B][1]
          BY <4>1 DEF Threaded
        <5>2. c[B] # << >> => 1 \in 1 .. Len(c[B]) BY <5>1
        <5> QED BY <5>1, <5>2 DEF Members
      <4> QED BY <1>2, <2>1, <2>4, <4>1, <4>2
    <3>3. \A f \in Members(c[b]) :
            /\ Link(g, "hashnext")[f] = Link(h, "hashnext")[f]
            /\ Link(g, "hashprev")[f] = Link(h, "hashprev")[f]
      BY <1>13, <2>1, <3>2
    <3>4. Threaded(c[b], h.table[b], Link(g, "hashnext"), Link(g, "hashprev"))
      BY <2>1, <3>3, SameThread
    <3> QED BY <2>2, <2>4, <3>1, <3>4
  <2> QED BY <2>3, <2>4
<1>17. \A f1, f2 \in DOMAIN g.elem : g.elem[f1].key = g.elem[f2].key => f1 = f2
  <2> SUFFICES ASSUME NEW f1 \in D \union {e}, NEW f2 \in D \union {e},
                      g.elem[f1].key = g.elem[f2].key
               PROVE  f1 = f2
    BY <1>8
  <2>1. g.elem[e].key = k BY <1>10
  <2>2. CASE f1 \in D /\ f2 \in D BY <1>1, <1>9, <2>2 DEF Ordered
  <2>3. CASE f1 \in D /\ f2 = e BY <1>3, <1>9, <2>1, <2>3
  <2>4. CASE f1 = e /\ f2 \in D BY <1>3, <1>9, <2>1, <2>4
  <2>5. CASE f1 = e /\ f2 = e BY <2>5
  <2> QED BY <2>2, <2>3, <2>4, <2>5
<1>18. Ordered(g, Append(l, e), d)
  <2> HIDE DEF d
  <2> QED BY <1>15, <1>16, <1>17 DEF Ordered
<1>19. Entries(g) = Entries(h) \union {<<k, v>>}
  <2>1. ASSUME NEW x \in Entries(g) PROVE x \in Entries(h) \union {<<k, v>>}
    <3>1. PICK f \in D \union {e} : x = <<g.elem[f].key, g.elem[f].val>> BY <1>8 DEF Entries
    <3>2. CASE f = e BY <1>10, <3>1, <3>2
    <3>3. CASE f \in D BY <1>9, <3>1, <3>3 DEF Entries
    <3> QED BY <3>2, <3>3
  <2>2. ASSUME NEW x \in Entries(h) PROVE x \in Entries(g)
    <3>1. PICK f \in D : x = <<h.elem[f].key, h.elem[f].val>> BY DEF Entries
    <3>2. f \in DOMAIN g.elem /\ x = <<g.elem[f].key, g.elem[f].val>> BY <1>8, <1>9, <3>1
    <3> QED BY <3>2 DEF Entries
  <2>3. <<k, v>> \in Entries(g)
    <3>1. e \in DOMAIN g.elem /\ g.elem[e].key = k /\ g.elem[e].val = v BY <1>8, <1>10
    <3> QED BY <3>1 DEF Entries
  <2> QED BY <2>1, <2>2, <2>3
<1>20. S!Elements(g) = Append(S!Elements(h), v)
  <2>1. S!Elements(h) = Listed(h, l) BY <1>1, <1>2, ElementsAre
  <2>2. S!Elements(g) = Listed(g, Append(l, e))
    <3>1. DOMAIN g.elem \subseteq Heap BY <1>2, <1>8
    <3> QED BY <1>18, <3>1, ElementsAre
  <2>3. l \in Seq(Heap) /\ Members(l) = D /\ Len(l) \in Nat
    BY <1>1 DEF Ordered, Threaded
  <2>4. /\ Len(Append(l, e)) = Len(l) + 1 /\ Append(l, e)[Len(l) + 1] = e
        /\ \A i \in 1 .. Len(l) : Append(l, e)[i] = l[i] /\ l[i] \in D
    BY <1>2, <2>3 DEF Members
  <2>5. /\ Len(Listed(h, l)) = Len(l)
        /\ Listed(h, l) = [i \in 1 .. Len(l) |-> h.elem[l[i]].val]
    BY <2>3 DEF Listed
  <2>6. \A i \in 1 .. Len(l) + 1 :
          g.elem[Append(l, e)[i]].val = IF i <= Len(l) THEN h.elem[l[i]].val ELSE v
    <3> SUFFICES ASSUME NEW i \in 1 .. Len(l) + 1
                 PROVE  g.elem[Append(l, e)[i]].val = IF i <= Len(l) THEN h.elem[l[i]].val ELSE v
      OBVIOUS
    <3>1. CASE i <= Len(l)
      <4>1. i \in 1 .. Len(l) BY <2>3, <3>1
      <4>2. Append(l, e)[i] = l[i] /\ l[i] \in D BY <2>4, <4>1
      <4> QED BY <1>9, <3>1, <4>2
    <3>2. CASE ~(i <= Len(l))
      <4>1. i = Len(l) + 1 BY <2>3, <3>2
      <4> QED BY <1>10, <2>4, <3>2, <4>1
    <3> QED BY <3>1, <3>2
  <2>7. Listed(g, Append(l, e)) =
          [i \in 1 .. Len(l) + 1 |-> IF i <= Len(l) THEN h.elem[l[i]].val ELSE v]
    BY <2>4, <2>6 DEF Listed
  <2>8. Append(Listed(h, l), v) =
          [i \in 1 .. Len(l) + 1 |-> IF i <= Len(l) THEN h.elem[l[i]].val ELSE v]
    <3> DEFINE w(i) == h.elem[l[i]].val
    <3> HIDE DEF w
    <3>1. Listed(h, l) = [i \in 1 .. Len(l) |-> w(i)] BY <2>5 DEF w
    <3>2. Append(Listed(h, l), v) = [i \in 1 .. Len(l) + 1 |-> IF i <= Len(l) THEN w(i) ELSE v]
      BY <2>3, <2>5, <3>1
    <3> QED BY <3>2 DEF w
  <2> QED BY <2>1, <2>2, <2>7, <2>8
<1> QED BY <1>12, <1>18, <1>19, <1>20, Zenon DEF g, Sound

(* What DeleteCurrentElement makes the last element is the last one left.    *)
LEMMA LastOfThread ==
  ASSUME NEW s, NEW start, NEW n, NEW p, Threaded(s, start, n, p),
         NEW i \in 1 .. Len(s), Null \notin Heap
  PROVE  LET t == RemoveAt(s, i)
         IN (IF n[s[i]] = Null THEN p[s[i]] ELSE s[Len(s)]) =
              IF t = << >> THEN Null ELSE t[Len(t)]
<1> DEFINE t == RemoveAt(s, i)
<1>1. /\ s \in Seq(Heap) /\ Len(s) \in Nat /\ i \in Nat /\ \A j \in 1 .. Len(s) : s[j] # Null
  BY DEF Threaded
<1>2. /\ t \in Seq(Heap) /\ Len(t) = Len(s) - 1
      /\ \A j \in 1 .. Len(t) : t[j] = s[IF j < i THEN j ELSE j + 1]
  BY <1>1, RemovedAt
<1>3. /\ n[s[i]] = IF i < Len(s) THEN s[i + 1] ELSE Null
      /\ p[s[i]] = IF i > 1 THEN s[i - 1] ELSE Null
  BY DEF Threaded
<1> HIDE DEF t
<1>4. CASE i = Len(s)
  <2>1. n[s[i]] = Null BY <1>3, <1>4, <1>1
  <2>2. CASE i = 1
    <3>1. t = << >> BY <1>1, <1>2, <1>4, <2>2
    <3> QED BY <2>1, <2>2, <3>1, <1>3 DEF t
  <2>3. CASE i # 1
    <3>1. Len(t) = i - 1 /\ i - 1 \in 1 .. Len(t) /\ t # << >> /\ i > 1 BY <1>1, <1>2, <1>4, <2>3
    <3>2. t[Len(t)] = s[i - 1] BY <1>1, <1>2, <3>1
    <3> QED BY <2>1, <3>1, <3>2, <1>3 DEF t
  <2> QED BY <2>2, <2>3
<1>5. CASE i # Len(s)
  <2>1. i < Len(s) /\ i + 1 \in 1 .. Len(s) BY <1>1, <1>5
  <2>2. n[s[i]] # Null BY <1>1, <1>3, <2>1
  <2>3. Len(t) \in 1 .. Len(t) /\ t # << >> /\ ~(Len(t) < i) /\ Len(t) + 1 = Len(s)
    BY <1>1, <1>2, <2>1
  <2>4. t[Len(t)] = s[Len(s)] BY <1>2, <2>3
  <2> QED BY <2>2, <2>3, <2>4 DEF t
<1> QED BY <1>4, <1>5

(* DeleteElement: the links stay in order, and one place of the list is gone. *)
LEMMA DeleteElementIs ==
  ASSUME NEW keys, NEW vals, NEW h, Sound(h, keys, vals), NEW k \in Keys
  PROVE  /\ Sound(DeleteElement(h, k), keys, vals)
         /\ Entries(DeleteElement(h, k)) = {x \in Entries(h) : x[1] # k}
         /\ IF HasElement(h, k)
            THEN \E i \in 1 .. Len(S!Elements(h)) :
                   /\ <<k, S!Elements(h)[i]>> \in Entries(h)
                   /\ S!Elements(DeleteElement(h, k)) = RemoveAt(S!Elements(h), i)
            ELSE DeleteElement(h, k) = h
<1> DEFINE D == DOMAIN h.elem
<1>1. PICK l, c : Ordered(h, l, c) BY Zenon DEF Sound
<1>2. HashTableOf(h, keys, vals) /\ D \subseteq Heap /\ Null \notin Heap
  BY HashAssumption DEF Sound, HashTableOf
<1>3. CASE ~HasElement(h, k)
  <2>1. DeleteElement(h, k) = h BY <1>3 DEF DeleteElement
  <2>2. \A f \in D : h.elem[f].key # k BY <1>1, <1>2, <1>3, FindIs
  <2>3. Entries(h) = {x \in Entries(h) : x[1] # k} BY <2>2 DEF Entries
  <2> QED BY <1>3, <2>1, <2>3
<1>4. CASE HasElement(h, k)
  <2> DEFINE g == DeleteElement(h, k)  e == Find(h, k)  a == h.elem[e]  B == Bucket[k]
  <2>1. e \in D /\ a.key = k BY <1>1, <1>2, <1>4, FindIs
  <2>2. B \in Buckets BY HashAssumption
  <2> DEFINE linked(f) ==
               [h.elem[f] EXCEPT
                  !.hashnext = IF f = a.hashprev THEN a.hashnext ELSE @,
                  !.hashprev = IF f = a.hashnext THEN a.hashprev ELSE @,
                  !.listnext = IF f = a.listprev THEN a.listnext ELSE @,
                  !.listprev = IF f = a.listnext THEN a.listprev ELSE @]
             elem == [f \in D \ {e} |-> linked(f)]
  <2>3. g = [h EXCEPT !.elem = elem,
                      !.table[Bucket[a.key]] =
                         IF a.hashprev = Null THEN a.hashnext ELSE h.table[Bucket[a.key]],
                      !.first = IF a.listprev = Null THEN a.listnext ELSE h.first,
                      !.last = IF a.listnext = Null THEN a.listprev ELSE h.last]
    BY <1>4, Zenon DEF DeleteElement, DeleteCurrentElement
  <2> HIDE DEF g, e, B, elem
  <2>4. /\ h = [elem |-> h.elem, table |-> h.table, first |-> h.first, last |-> h.last]
        /\ h.table = [b \in Buckets |-> h.table[b]]
        /\ h.elem \in [D -> ElementType(keys, vals)]
    BY <1>2 DEF HashTableOf
  <2> DEFINE head == IF a.hashprev = Null THEN a.hashnext ELSE h.table[B]
  <2>5. g = [elem |-> elem, table |-> [h.table EXCEPT ![B] = head],
             first |-> IF a.listprev = Null THEN a.listnext ELSE h.first,
             last |-> IF a.listnext = Null THEN a.listprev ELSE h.last]
    BY <2>1, <2>3, <2>4 DEF B
  <2>6. /\ g.elem = elem /\ g.table = [h.table EXCEPT ![B] = head]
        /\ g.first = (IF a.listprev = Null THEN a.listnext ELSE h.first)
        /\ g.last = (IF a.listnext = Null THEN a.listprev ELSE h.last)
        /\ g = [elem |-> g.elem, table |-> g.table, first |-> g.first, last |-> g.last]
    BY <2>5
  <2>7. DOMAIN g.elem = D \ {e} BY <2>6 DEF elem
  <2>8. \A f \in D : h.elem[f] \in ElementType(keys, vals) BY <2>4
  <2> HIDE DEF a
  <2>9. a \in ElementType(keys, vals) BY <2>1, <2>8 DEF a
  <2>10. ASSUME NEW f \in D \ {e}
         PROVE  /\ g.elem[f] = linked(f)
                /\ g.elem[f].key = h.elem[f].key /\ g.elem[f].val = h.elem[f].val
                /\ g.elem[f].hashnext = (IF f = a.hashprev THEN a.hashnext ELSE h.elem[f].hashnext)
                /\ g.elem[f].hashprev = (IF f = a.hashnext THEN a.hashprev ELSE h.elem[f].hashprev)
                /\ g.elem[f].listnext = (IF f = a.listprev THEN a.listnext ELSE h.elem[f].listnext)
                /\ g.elem[f].listprev = (IF f = a.listnext THEN a.listprev ELSE h.elem[f].listprev)
    <3>1. g.elem[f] = linked(f) BY <2>6 DEF elem
    <3>2. h.elem[f] \in ElementType(keys, vals) BY <2>8
    <3> QED BY <3>1, <3>2 DEF ElementType
  <2>11. HashTableOf(g, keys, vals)
    <3>1. ASSUME NEW f \in D \ {e} PROVE g.elem[f] \in ElementType(keys, vals)
      <4>1. h.elem[f] \in ElementType(keys, vals) /\ g.elem[f] = linked(f) BY <2>8, <2>10
      <4>2. linked(f) = [key |-> h.elem[f].key, val |-> h.elem[f].val,
              hashprev |-> IF f = a.hashnext THEN a.hashprev ELSE h.elem[f].hashprev,
              hashnext |-> IF f = a.hashprev THEN a.hashnext ELSE h.elem[f].hashnext,
              listprev |-> IF f = a.listnext THEN a.listprev ELSE h.elem[f].listprev,
              listnext |-> IF f = a.listprev THEN a.listnext ELSE h.elem[f].listnext]
        BY <4>1 DEF ElementType
      <4>3. /\ a.hashprev \in Heap \union {Null} /\ a.hashnext \in Heap \union {Null}
            /\ a.listprev \in Heap \union {Null} /\ a.listnext \in Heap \union {Null}
        BY <2>9 DEF ElementType
      <4> HIDE DEF linked
      <4> QED BY <4>1, <4>2, <4>3 DEF ElementType
    <3>2. g.elem = [f \in D \ {e} |-> g.elem[f]] BY <2>6 DEF elem
    <3>3. g.elem \in [D \ {e} -> ElementType(keys, vals)] BY <3>1, <3>2
    <3>4. g.table = [b \in Buckets |-> g.table[b]] BY <2>4, <2>6
    <3> QED BY <1>2, <2>6, <2>7, <3>3, <3>4 DEF HashTableOf
  <2>12. ASSUME NEW f \in D \ {e}
         PROVE  /\ Link(g, "hashnext")[f] = IF f = a.hashprev THEN a.hashnext ELSE Link(h, "hashnext")[f]
                /\ Link(g, "hashprev")[f] = IF f = a.hashnext THEN a.hashprev ELSE Link(h, "hashprev")[f]
                /\ Link(g, "listnext")[f] = IF f = a.listprev THEN a.listnext ELSE Link(h, "listnext")[f]
                /\ Link(g, "listprev")[f] = IF f = a.listnext THEN a.listprev ELSE Link(h, "listprev")[f]
    <3>1. f \in DOMAIN g.elem /\ f \in D BY <2>7
    <3> QED BY <2>10, <3>1 DEF Link
  <2>13. /\ Link(h, "hashnext")[e] = a.hashnext /\ Link(h, "hashprev")[e] = a.hashprev
         /\ Link(h, "listnext")[e] = a.listnext /\ Link(h, "listprev")[e] = a.listprev
    BY <2>1 DEF Link, a
  <2>14. /\ Threaded(l, h.first, Link(h, "listnext"), Link(h, "listprev"))
         /\ Members(l) = D /\ h.last = IF l = << >> THEN Null ELSE l[Len(l)]
    BY <1>1, Zenon DEF Ordered
  <2>15. PICK i \in 1 .. Len(l) : e = l[i] BY <2>1, <2>14 DEF Members
  <2> DEFINE t == RemoveAt(l, i)
  <2>16. /\ Threaded(t, g.first, Link(g, "listnext"), Link(g, "listprev"))
         /\ Members(t) = DOMAIN g.elem
         /\ g.last = IF t = << >> THEN Null ELSE t[Len(t)]
    <3> DEFINE n == Link(h, "listnext")  p == Link(h, "listprev")
               m == Link(g, "listnext")  q == Link(g, "listprev")
               start == h.first  first == g.first
    <3>1. n[l[i]] = a.listnext /\ p[l[i]] = a.listprev BY <2>13, <2>15
    <3>2. \A f \in Members(l) \ {l[i]} :
            /\ m[f] = IF f = p[l[i]] THEN n[l[i]] ELSE n[f]
            /\ q[f] = IF f = n[l[i]] THEN p[l[i]] ELSE p[f]
      BY <2>12, <2>14, <2>15, <3>1
    <3>3. Threaded(l, start, n, p) BY <2>14
    <3>4. first = IF p[l[i]] = Null THEN n[l[i]] ELSE start BY <2>6, <3>1
    <3>5. g.last = IF n[l[i]] = Null THEN p[l[i]] ELSE l[Len(l)]
      <4>1. l # << >> BY <2>15
      <4> QED BY <2>6, <2>14, <3>1, <4>1
    <3> HIDE DEF n, p, m, q, t, start, first
    <3>6. Threaded(t, first, m, q) /\ Members(t) = Members(l) \ {l[i]}
      BY <1>2, <3>2, <3>3, <3>4, RemoveFromThread DEF t
    <3>7. g.last = IF t = << >> THEN Null ELSE t[Len(t)]
      BY <1>2, <3>3, <3>5, LastOfThread DEF t
    <3>8. Members(t) = DOMAIN g.elem BY <3>6, <2>7, <2>14, <2>15
    <3> QED BY <3>6, <3>7, <3>8 DEF m, q, first
  <2>17. /\ Threaded(c[B], h.table[B], Link(h, "hashnext"), Link(h, "hashprev"))
         /\ Members(c[B]) = {f \in D : Bucket[h.elem[f].key] = B}
    BY <1>1, <2>2, Zenon DEF Ordered
  <2>18. PICK j \in 1 .. Len(c[B]) : e = c[B][j]
    <3>1. e \in Members(c[B]) BY <2>1, <2>17 DEF a, B
    <3> QED BY <3>1 DEF Members
  <2> DEFINE d == [b \in Buckets |-> IF b = B THEN RemoveAt(c[B], j) ELSE c[b]]
  <2>19. ASSUME NEW b \in Buckets
         PROVE  /\ Threaded(d[b], g.table[b], Link(g, "hashnext"), Link(g, "hashprev"))
                /\ Members(d[b]) = {f \in DOMAIN g.elem : Bucket[g.elem[f].key] = b}
    <3>1. /\ Threaded(c[b], h.table[b], Link(h, "hashnext"), Link(h, "hashprev"))
          /\ Members(c[b]) = {f \in D : Bucket[h.elem[f].key] = b}
      BY <1>1, Zenon DEF Ordered
    <3>2. {f \in DOMAIN g.elem : Bucket[g.elem[f].key] = b} = Members(c[b]) \ {e}
      <4>1. \A f \in D \ {e} : g.elem[f].key = h.elem[f].key BY <2>10
      <4> QED BY <2>7, <3>1, <4>1
    <3>3. CASE b = B
      <4> DEFINE n == Link(h, "hashnext")  p == Link(h, "hashprev")
                 m == Link(g, "hashnext")  q == Link(g, "hashprev")
                 s == c[B]  r == RemoveAt(s, j)  first == g.table[b]
      <4>1. n[s[j]] = a.hashnext /\ p[s[j]] = a.hashprev BY <2>13, <2>18
      <4>2. \A f \in Members(s) \ {s[j]} :
              /\ m[f] = IF f = p[s[j]] THEN n[s[j]] ELSE n[f]
              /\ q[f] = IF f = n[s[j]] THEN p[s[j]] ELSE p[f]
        BY <2>12, <2>17, <2>18, <4>1
      <4>3. Threaded(s, h.table[B], n, p) BY <2>17
      <4>4. first = IF p[s[j]] = Null THEN n[s[j]] ELSE h.table[B]
        BY <2>2, <2>4, <2>6, <3>3, <4>1
      <4>5. d[b] = r BY <3>3
      <4>6. j \in 1 .. Len(s) /\ e = s[j] BY <2>18
      <4> HIDE DEF n, p, m, q, s, r, first, d
      <4>7. Threaded(r, first, m, q) /\ Members(r) = Members(s) \ {s[j]}
        BY <1>2, <4>2, <4>3, <4>4, <4>6, RemoveFromThread DEF r
      <4> QED BY <3>2, <3>3, <4>5, <4>6, <4>7 DEF m, q, s, first
    <3>4. CASE b # B
      <4>1. d[b] = c[b] /\ g.table[b] = h.table[b] BY <2>4, <2>6, <3>4
      <4> DEFINE s == c[B]
      <4>2. a.hashnext \in Members(s) \union {Null} /\ a.hashprev \in Members(s) \union {Null}
        <5>1. /\ a.hashnext = IF j < Len(s) THEN s[j + 1] ELSE Null
              /\ a.hashprev = IF j > 1 THEN s[j - 1] ELSE Null
          BY <2>13, <2>17, <2>18 DEF Threaded
        <5>2. Len(s) \in Nat BY <2>17 DEF Threaded
        <5>3. (j < Len(s) => j + 1 \in 1 .. Len(s)) /\ (j > 1 => j - 1 \in 1 .. Len(s)) BY <5>2
        <5> QED BY <5>1, <5>3 DEF Members
      <4>3. \A f \in Members(c[b]) : f # a.hashnext /\ f # a.hashprev /\ f \in D \ {e}
        <5>1. \A f \in Members(c[b]) : f \notin Members(s) /\ f # Null /\ f \in D
          BY <1>2, <2>17, <3>1, <3>4
        <5>2. e \in Members(s) BY <2>18 DEF Members
        <5> QED BY <4>2, <5>1, <5>2
      <4>4. \A f \in Members(c[b]) :
              /\ Link(g, "hashnext")[f] = Link(h, "hashnext")[f]
              /\ Link(g, "hashprev")[f] = Link(h, "hashprev")[f]
        BY <2>12, <4>3
      <4>5. Threaded(c[b], h.table[b], Link(g, "hashnext"), Link(g, "hashprev"))
        BY <3>1, <4>4, SameThread
      <4>6. Members(c[b]) \ {e} = Members(c[b]) BY <4>3
      <4> QED BY <3>2, <4>1, <4>5, <4>6
    <3> QED BY <3>3, <3>4
  <2>20. \A f1, f2 \in DOMAIN g.elem : g.elem[f1].key = g.elem[f2].key => f1 = f2
    <3>1. \A f1, f2 \in D : h.elem[f1].key = h.elem[f2].key => f1 = f2 BY <1>1, Zenon DEF Ordered
    <3> QED BY <2>7, <2>10, <3>1
  <2>21. Ordered(g, t, d)
    <3> HIDE DEF t, d
    <3> QED BY <2>16, <2>19, <2>20 DEF Ordered
  <2>22. Entries(g) = {x \in Entries(h) : x[1] # k}
    <3>1. \A f \in D : h.elem[f].key = k => f = e BY <1>1, <2>1 DEF Ordered, a
    <3>2. ASSUME NEW x \in Entries(g) PROVE x \in Entries(h) /\ x[1] # k
      <4>1. PICK f \in D \ {e} : x = <<g.elem[f].key, g.elem[f].val>> BY <2>7 DEF Entries
      <4>2. x = <<h.elem[f].key, h.elem[f].val>> BY <2>10, <4>1
      <4> QED BY <3>1, <4>2 DEF Entries
    <3>3. ASSUME NEW x \in Entries(h), x[1] # k PROVE x \in Entries(g)
      <4>1. PICK f \in D : x = <<h.elem[f].key, h.elem[f].val>> BY DEF Entries
      <4>2. f # e BY <2>1, <3>3, <4>1 DEF a
      <4>3. f \in DOMAIN g.elem /\ x = <<g.elem[f].key, g.elem[f].val>> BY <2>7, <2>10, <4>1, <4>2
      <4> QED BY <4>3 DEF Entries
    <3> QED BY <3>2, <3>3
  <2>23. /\ i \in 1 .. Len(S!Elements(h))
         /\ <<k, S!Elements(h)[i]>> \in Entries(h)
         /\ S!Elements(g) = RemoveAt(S!Elements(h), i)
    <3>1. S!Elements(h) = Listed(h, l) BY <1>1, <1>2, ElementsAre
    <3>2. S!Elements(g) = Listed(g, t)
      <4>1. DOMAIN g.elem \subseteq Heap BY <1>2, <2>7
      <4> HIDE DEF t, d
      <4> QED BY <2>21, <4>1, ElementsAre
    <3>3. /\ l \in Seq(D) /\ Len(l) \in Nat /\ i \in Nat /\ l \in Seq(Heap)
          /\ \A x, y \in 1 .. Len(l) : l[x] = l[y] => x = y
      <4>1. l \in Seq(Heap) BY <2>14 DEF Threaded
      <4>2. \A x \in 1 .. Len(l) : l[x] \in D BY <2>14 DEF Members
      <4>3. \A x, y \in 1 .. Len(l) : l[x] = l[y] => x = y BY <2>14 DEF Threaded
      <4> QED BY <4>1, <4>2, <4>3
    <3>4. /\ Listed(h, l) \in Seq(vals) /\ Len(Listed(h, l)) = Len(l)
          /\ \A x \in 1 .. Len(l) : Listed(h, l)[x] = h.elem[l[x]].val
      <4>1. \A x \in 1 .. Len(l) : l[x] \in D BY <3>3
      <4>2. \A x \in 1 .. Len(l) : h.elem[l[x]].val \in vals BY <2>8, <4>1 DEF ElementType
      <4> QED BY <3>3, <4>2 DEF Listed
    <3>5. /\ Len(t) = Len(l) - 1 /\ Len(t) \in Nat
          /\ \A x \in 1 .. Len(l) - 1 : t[x] = l[IF x < i THEN x ELSE x + 1]
      BY <3>3, RemovedAt
    <3> DEFINE u == RemoveAt(Listed(h, l), i)
    <3>6. /\ u \in Seq(vals) /\ Len(u) = Len(l) - 1
          /\ \A x \in 1 .. Len(l) - 1 : u[x] = Listed(h, l)[IF x < i THEN x ELSE x + 1]
      BY <3>3, <3>4, RemovedAt
    <3> HIDE DEF t, u
    <3>7. \A x \in 1 .. Len(l) - 1 : g.elem[t[x]].val = u[x]
      <4> SUFFICES ASSUME NEW x \in 1 .. Len(l) - 1 PROVE g.elem[t[x]].val = u[x] OBVIOUS
      <4> DEFINE y == IF x < i THEN x ELSE x + 1
      <4>1. y \in 1 .. Len(l) /\ y # i BY <3>3
      <4>2. l[y] \in D \ {e} BY <2>15, <3>3, <4>1
      <4>3. t[x] = l[y] /\ u[x] = Listed(h, l)[y] BY <3>5, <3>6
      <4>4. g.elem[l[y]].val = h.elem[l[y]].val BY <2>10, <4>2
      <4> HIDE DEF y
      <4> QED BY <3>4, <4>1, <4>3, <4>4
    <3>8. Listed(g, t) = u
      <4>1. Listed(g, t) = [x \in 1 .. Len(l) - 1 |-> u[x]] BY <3>5, <3>7 DEF Listed
      <4>2. u = [x \in 1 .. Len(l) - 1 |-> u[x]] BY <3>6
      <4> QED BY <4>1, <4>2
    <3>9. <<k, Listed(h, l)[i]>> \in Entries(h)
      <4>1. Listed(h, l)[i] = h.elem[e].val /\ h.elem[e].key = k BY <2>1, <2>15, <3>4 DEF a
      <4> QED BY <2>1, <4>1 DEF Entries
    <3> QED BY <3>1, <3>2, <3>4, <3>8, <3>9 DEF u
  <2>24. Sound(g, keys, vals) BY <2>11, <2>21, Zenon DEF Sound
  <2> QED BY <1>4, <2>22, <2>23, <2>24 DEF g
<1> QED BY <1>3, <1>4

(* What a lookup finds is the entry with the key, and there is one at most.  *)
LEMMA EntryIs ==
  ASSUME NEW keys, NEW vals, NEW h, Sound(h, keys, vals), NEW k \in Keys
  PROVE  /\ Entries(h) \subseteq keys \X vals
         /\ HasElement(h, k) <=> \E v : <<k, v>> \in Entries(h)
         /\ HasElement(h, k) => <<k, Element(h, k)>> \in Entries(h)
         /\ \A v, w : <<k, v>> \in Entries(h) /\ <<k, w>> \in Entries(h) => v = w
         /\ DOMAIN h.elem \subseteq Heap /\ Linked(h)
<1> DEFINE D == DOMAIN h.elem
<1>1. PICK l, c : Ordered(h, l, c) BY Zenon DEF Sound
<1>2. HashTableOf(h, keys, vals) BY DEF Sound
<1>3. \A e \in D : h.elem[e] \in ElementType(keys, vals) BY <1>2 DEF HashTableOf
<1>4. \A e \in D : h.elem[e].key \in keys /\ h.elem[e].val \in vals BY <1>3 DEF ElementType
<1>5. Entries(h) \subseteq keys \X vals BY <1>4 DEF Entries
<1>6. /\ HasElement(h, k) <=> \E e \in D : h.elem[e].key = k
      /\ HasElement(h, k) => Find(h, k) \in D /\ h.elem[Find(h, k)].key = k
  <2>1. HasElement(h, k) => Find(h, k) \in D /\ h.elem[Find(h, k)].key = k
    BY <1>1, <1>2, FindIs
  <2>2. ASSUME NEW e \in D, h.elem[e].key = k PROVE HasElement(h, k)
    BY <1>1, <1>2, <2>2, FindIs
  <2> QED BY <2>1, <2>2
<1>7. HasElement(h, k) <=> \E v : <<k, v>> \in Entries(h) BY <1>6 DEF Entries
<1>8. HasElement(h, k) => <<k, Element(h, k)>> \in Entries(h) BY <1>6 DEF Entries, Element
<1>9. ASSUME NEW v, NEW w, <<k, v>> \in Entries(h), <<k, w>> \in Entries(h) PROVE v = w
  <2>1. PICK e \in D : <<k, v>> = <<h.elem[e].key, h.elem[e].val>> BY <1>9 DEF Entries
  <2>2. PICK f \in D : <<k, w>> = <<h.elem[f].key, h.elem[f].val>> BY <1>9 DEF Entries
  <2>3. e = f BY <1>1, <2>1, <2>2 DEF Ordered
  <2> QED BY <2>1, <2>2, <2>3
<1>10. DOMAIN h.elem \subseteq Heap BY <1>2 DEF HashTableOf
<1>11. Linked(h) BY <1>1, <1>2, OrderedIsLinked
<1> QED BY <1>5, <1>7, <1>8, <1>9, <1>10, <1>11

(* An element changed in place.                                              *)
LEMMA SetElementIs ==
  ASSUME NEW keys, NEW vals, NEW h, Sound(h, keys, vals),
         NEW k \in Keys, NEW v \in vals, HasElement(h, k)
  PROVE  /\ Sound(SetElement(h, k, v), keys, vals)
         /\ Entries(SetElement(h, k, v)) = {x \in Entries(h) : x[1] # k} \union {<<k, v>>}
<1> DEFINE D == DOMAIN h.elem  e == Find(h, k)  g == SetElement(h, k, v)
<1>1. PICK l, c : Ordered(h, l, c) BY Zenon DEF Sound
<1>2. HashTableOf(h, keys, vals) /\ D \subseteq Heap BY DEF Sound, HashTableOf
<1>3. e \in D /\ h.elem[e].key = k BY <1>1, <1>2, FindIs
<1>4. /\ h = [elem |-> h.elem, table |-> h.table, first |-> h.first, last |-> h.last]
      /\ h.table = [b \in Buckets |-> h.table[b]]
      /\ h.elem \in [D -> ElementType(keys, vals)]
  BY <1>2 DEF HashTableOf
<1>5. g = [h EXCEPT !.elem = [h.elem EXCEPT ![e] = [h.elem[e] EXCEPT !.val = v]]]
  BY DEF SetElement
<1> HIDE DEF e, g
<1>6. /\ g.elem = [h.elem EXCEPT ![e] = [h.elem[e] EXCEPT !.val = v]]
      /\ g.table = h.table /\ g.first = h.first /\ g.last = h.last
      /\ g = [elem |-> g.elem, table |-> g.table, first |-> g.first, last |-> g.last]
  BY <1>4, <1>5
<1>7. DOMAIN g.elem = D BY <1>6
<1>8. ASSUME NEW f \in D
      PROVE  /\ g.elem[f] \in ElementType(keys, vals)
             /\ g.elem[f].key = h.elem[f].key
             /\ g.elem[f].val = IF f = e THEN v ELSE h.elem[f].val
             /\ g.elem[f]["hashnext"] = h.elem[f]["hashnext"]
             /\ g.elem[f]["hashprev"] = h.elem[f]["hashprev"]
             /\ g.elem[f]["listnext"] = h.elem[f]["listnext"]
             /\ g.elem[f]["listprev"] = h.elem[f]["listprev"]
  <2>1. h.elem[f] \in ElementType(keys, vals) BY <1>4
  <2>2. CASE f = e
    <3>1. g.elem[f] = [h.elem[f] EXCEPT !.val = v] BY <1>3, <1>4, <1>6, <2>2
    <3> QED BY <2>1, <2>2, <3>1 DEF ElementType
  <2>3. CASE f # e
    <3>1. g.elem[f] = h.elem[f] BY <1>4, <1>6, <2>3
    <3> QED BY <2>1, <2>3, <3>1
  <2> QED BY <2>2, <2>3
<1>9. HashTableOf(g, keys, vals)
  <2>1. g.elem = [f \in D |-> g.elem[f]] BY <1>4, <1>6
  <2>2. g.elem \in [D -> ElementType(keys, vals)] BY <1>8, <2>1
  <2> QED BY <1>2, <1>4, <1>6, <1>7, <2>2 DEF HashTableOf
<1>10. /\ Link(g, "hashnext") = Link(h, "hashnext") /\ Link(g, "hashprev") = Link(h, "hashprev")
       /\ Link(g, "listnext") = Link(h, "listnext") /\ Link(g, "listprev") = Link(h, "listprev")
  BY <1>7, <1>8 DEF Link
<1>11. Ordered(g, l, c)
  <2>1. \A b \in Buckets :
          {f \in DOMAIN g.elem : Bucket[g.elem[f].key] = b} =
          {f \in DOMAIN h.elem : Bucket[h.elem[f].key] = b}
    BY <1>7, <1>8
  <2>2. \A f1, f2 \in D : g.elem[f1].key = g.elem[f2].key => f1 = f2
    BY <1>1, <1>8 DEF Ordered
  <2> QED BY <1>1, <1>6, <1>7, <1>10, <2>1, <2>2, Zenon DEF Ordered
<1>12. Entries(g) = {x \in Entries(h) : x[1] # k} \union {<<k, v>>}
  <2>1. \A f \in D : f # e <=> h.elem[f].key # k BY <1>1, <1>3 DEF Ordered
  <2>2. ASSUME NEW x \in Entries(g) PROVE x \in {y \in Entries(h) : y[1] # k} \union {<<k, v>>}
    <3>1. PICK f \in D : x = <<g.elem[f].key, g.elem[f].val>> BY <1>7 DEF Entries
    <3>2. CASE f = e BY <1>3, <1>8, <3>1, <3>2
    <3>3. CASE f # e
      <4>1. x = <<h.elem[f].key, h.elem[f].val>> BY <1>8, <3>1, <3>3
      <4> QED BY <2>1, <3>3, <4>1 DEF Entries
    <3> QED BY <3>2, <3>3
  <2>3. ASSUME NEW x \in Entries(h), x[1] # k PROVE x \in Entries(g)
    <3>1. PICK f \in D : x = <<h.elem[f].key, h.elem[f].val>> BY DEF Entries
    <3>2. f # e BY <2>1, <2>3, <3>1
    <3>3. x = <<g.elem[f].key, g.elem[f].val>> BY <1>8, <3>1, <3>2
    <3> QED BY <1>7, <3>3 DEF Entries
  <2>4. <<k, v>> \in Entries(g)
    <3>1. <<k, v>> = <<g.elem[e].key, g.elem[e].val>> BY <1>3, <1>8
    <3> QED BY <1>3, <1>7, <3>1 DEF Entries
  <2> QED BY <2>2, <2>3, <2>4
<1>13. Sound(g, keys, vals) BY <1>9, <1>11, Zenon DEF Sound
<1> QED BY <1>12, <1>13 DEF g

(* In a table of keys alone the list has each key once. *)
OwnKeys(h) == \A x \in Entries(h) : x[1] = x[2]

(* The list of a table of keys has each key that a lookup finds, once.       *)
LEMMA ListedOnce ==
  ASSUME NEW keys, NEW h, Sound(h, keys, keys), OwnKeys(h)
  PROVE  /\ S!Elements(h) \in Seq(keys)
         /\ \A i, j \in 1 .. Len(S!Elements(h)) : S!Elements(h)[i] = S!Elements(h)[j] => i = j
         /\ \A k \in Keys : HasElement(h, k) <=> k \in ToSet(S!Elements(h))
<1> DEFINE D == DOMAIN h.elem  q == S!Elements(h)
<1>1. PICK l, c : Ordered(h, l, c) BY Zenon DEF Sound
<1>2. /\ HashTableOf(h, keys, keys) /\ D \subseteq Heap
      /\ \A e \in D : h.elem[e] \in ElementType(keys, keys)
  BY DEF Sound, HashTableOf
<1>3. \A e \in D : h.elem[e].key \in keys /\ h.elem[e].val = h.elem[e].key
  <2>1. \A e \in D : <<h.elem[e].key, h.elem[e].val>> \in Entries(h) BY DEF Entries
  <2> QED BY <1>2, <2>1 DEF ElementType, OwnKeys
<1>4. q = Listed(h, l) BY <1>1, <1>2, ElementsAre
<1>5. /\ l \in Seq(Heap) /\ Len(l) \in Nat /\ Members(l) = D
      /\ \A i, j \in 1 .. Len(l) : l[i] = l[j] => i = j
  BY <1>1 DEF Ordered, Threaded
<1>6. \A i \in 1 .. Len(l) : l[i] \in D BY <1>5 DEF Members
<1> HIDE DEF q
<1>7. q \in Seq(keys) /\ Len(q) = Len(l) /\ \A i \in 1 .. Len(l) : q[i] = h.elem[l[i]].key
  <2>1. q = [i \in 1 .. Len(l) |-> h.elem[l[i]].val] BY <1>4 DEF Listed
  <2>2. \A i \in 1 .. Len(l) : h.elem[l[i]].val \in keys BY <1>3, <1>6
  <2> QED BY <1>3, <1>5, <1>6, <2>1, <2>2
<1>8. \A i, j \in 1 .. Len(q) : q[i] = q[j] => i = j
  <2>1. \A e, f \in D : h.elem[e].key = h.elem[f].key => e = f BY <1>1, Zenon DEF Ordered
  <2> QED BY <1>5, <1>6, <1>7, <2>1
<1>9. ASSUME NEW k \in Keys PROVE HasElement(h, k) <=> k \in ToSet(q)
  <2>1. HasElement(h, k) <=> \E e \in D : h.elem[e].key = k
    <3>1. ASSUME HasElement(h, k) PROVE <<k, Element(h, k)>> \in Entries(h) BY <3>1, EntryIs
    <3>2. ASSUME NEW e \in D, h.elem[e].key = k PROVE HasElement(h, k)
      <4>1. <<k, h.elem[e].val>> \in Entries(h) BY <3>2 DEF Entries
      <4> QED BY <4>1, EntryIs
    <3> QED BY <3>1, <3>2 DEF Entries
  <2>2. \A e \in D : \E i \in 1 .. Len(l) : e = l[i] BY <1>5 DEF Members
  <2>3. ToSet(q) = {q[i] : i \in 1 .. Len(q)} BY <1>7 DEF ToSet
  <2> QED BY <1>6, <1>7, <2>1, <2>2, <2>3
<1> QED BY <1>7, <1>8, <1>9 DEF q

(* The tables of keys alone are the same tables.                             *)
LEMMA SameFind == \A h, k : S!K!Find(h, k) = Find(h, k)
BY Zenon DEF S!K!Find, Find, S!K!Chain, Chain, S!K!Reached, Reached, S!K!Walk, Walk,
             S!K!Cardinality, Cardinality

(* The methods of HashTable are those of KeyHashTable.                       *)
LEMMA SameTables ==
  \A h, k :
    /\ S!EmptyTable = EmptyHashTable /\ S!Clear(h) = EmptyHashTable
    /\ S!HasElement(h, k) <=> HasElement(h, k)
    /\ S!AddElement(h, k) = AddElement(h, k, k)
    /\ S!DeleteElement(h, k) = DeleteElement(h, k)
<1> TAKE h, k
<1>1. S!EmptyTable = EmptyHashTable BY Zenon DEF S!EmptyTable, S!K!EmptyHashTable, EmptyHashTable
<1>2. S!Clear(h) = EmptyHashTable
  BY Zenon DEF S!Clear, S!K!Clear, S!K!EmptyHashTable, EmptyHashTable
<1>3. S!HasElement(h, k) <=> HasElement(h, k)
  BY SameFind, Zenon DEF S!HasElement, S!K!HasElement, HasElement
<1>4. S!AddElement(h, k) = AddElement(h, k, k)
  BY Zenon DEF S!AddElement, S!K!AddElement, AddElement, S!K!NewAddress, NewAddress,
               S!K!HasElement, HasElement, S!K!Find, Find, S!K!Chain, Chain,
               S!K!Reached, Reached, S!K!Walk, Walk, S!K!Cardinality, Cardinality
<1>5. S!DeleteElement(h, k) = DeleteElement(h, k)
  BY Zenon DEF S!DeleteElement, S!K!DeleteElement, DeleteElement,
               S!K!HasElement, HasElement, S!K!Find, Find, S!K!Chain, Chain,
               S!K!Reached, Reached, S!K!Walk, Walk, S!K!Cardinality, Cardinality,
               S!K!DeleteCurrentElement, DeleteCurrentElement
<1> QED BY <1>1, <1>2, <1>3, <1>4, <1>5

-----------------------------------------------------------------------------
(* Tables of destinations and of groups.                                     *)
OwnTable(h, keys) == Sound(h, keys, keys) /\ OwnKeys(h)

(* A table of keys: made and cleared,                                        *)
LEMMA OwnEmpty ==
  ASSUME NEW keys, keys \subseteq Keys
  PROVE  /\ OwnTable(EmptyHashTable, keys) /\ S!Elements(EmptyHashTable) = << >>
         /\ \A k \in Keys : ~HasElement(EmptyHashTable, k)
<1>1. /\ Sound(EmptyHashTable, keys, keys) /\ Entries(EmptyHashTable) = {}
      /\ S!Elements(EmptyHashTable) = << >>
  BY EmptyIsSound
<1>2. \A k \in Keys : ~HasElement(EmptyHashTable, k)
  <2> SUFFICES ASSUME NEW k \in Keys PROVE ~HasElement(EmptyHashTable, k) OBVIOUS
  <2>1. HasElement(EmptyHashTable, k) => <<k, Element(EmptyHashTable, k)>> \in Entries(EmptyHashTable)
    BY <1>1, EntryIs
  <2> QED BY <1>1, <2>1
<1> QED BY <1>1, <1>2 DEF OwnTable, OwnKeys

(* with a key added, once and at the end,                                    *)
LEMMA OwnAdded ==
  ASSUME NEW keys, NEW h, OwnTable(h, keys), NEW k \in keys,
         HasElement(h, k) \/ Cardinality(DOMAIN h.elem) < Cardinality(Heap)
  PROVE  LET g == S!AddElement(h, k) IN
         /\ OwnTable(g, keys)
         /\ S!Elements(g) = IF k \in ToSet(S!Elements(h)) THEN S!Elements(h)
                            ELSE Append(S!Elements(h), k)
         /\ \A j \in Keys : HasElement(g, j) <=> HasElement(h, j) \/ j = k
<1> DEFINE g == S!AddElement(h, k)
<1>1. g = AddElement(h, k, k) BY SameTables
<1>2. Sound(h, keys, keys) /\ OwnKeys(h) /\ k \in Keys BY DEF OwnTable, Sound, HashTableOf
<1>3. HasElement(h, k) <=> k \in ToSet(S!Elements(h)) BY <1>2, ListedOnce
<1> HIDE DEF g
<1>4. CASE HasElement(h, k)
  <2>1. g = h BY <1>1, <1>4 DEF AddElement
  <2> QED BY <1>3, <1>4, <2>1 DEF g
<1>5. CASE ~HasElement(h, k)
  <2>1. /\ Sound(g, keys, keys) /\ Entries(g) = Entries(h) \union {<<k, k>>}
        /\ S!Elements(g) = Append(S!Elements(h), k)
    <3>1. Cardinality(DOMAIN h.elem) < Cardinality(Heap) BY <1>5
    <3>2. /\ Sound(AddElement(h, k, k), keys, keys)
          /\ Entries(AddElement(h, k, k)) = Entries(h) \union {<<k, k>>}
          /\ S!Elements(AddElement(h, k, k)) = Append(S!Elements(h), k)
      BY <1>2, <1>5, <3>1, AddElementIs
    <3> QED BY <1>1, <3>2, Zenon
  <2>2. OwnKeys(g) BY <1>2, <2>1 DEF OwnKeys
  <2>3. ASSUME NEW j \in Keys PROVE HasElement(g, j) <=> HasElement(h, j) \/ j = k
    <3>1. HasElement(g, j) <=> \E v : <<j, v>> \in Entries(g) BY <2>1, EntryIs, Zenon
    <3>2. HasElement(h, j) <=> \E v : <<j, v>> \in Entries(h) BY <1>2, EntryIs, Zenon
    <3> QED BY <2>1, <3>1, <3>2
  <2> QED BY <1>3, <1>5, <2>1, <2>2, <2>3 DEF OwnTable, g
<1> QED BY <1>4, <1>5

(* and with a key deleted.                                                   *)
LEMMA OwnDeleted ==
  ASSUME NEW keys, NEW h, OwnTable(h, keys), NEW k \in Keys
  PROVE  LET g == S!DeleteElement(h, k) IN
         /\ OwnTable(g, keys)
         /\ S!Elements(g) = Without(S!Elements(h), k)
         /\ \A j \in Keys : HasElement(g, j) <=> HasElement(h, j) /\ j # k
<1> DEFINE g == S!DeleteElement(h, k)  q == S!Elements(h)
<1>1. g = DeleteElement(h, k) BY SameTables
<1>2. Sound(h, keys, keys) /\ OwnKeys(h) BY DEF OwnTable
<1>3. /\ HasElement(h, k) <=> k \in ToSet(q)
      /\ q \in Seq(keys) /\ \A i, j \in 1 .. Len(q) : q[i] = q[j] => i = j
  BY <1>2, ListedOnce
<1> HIDE DEF g
<1>4. /\ Sound(g, keys, keys) /\ Entries(g) = {x \in Entries(h) : x[1] # k}
      /\ IF HasElement(h, k)
         THEN \E i \in 1 .. Len(q) : <<k, q[i]>> \in Entries(h) /\ S!Elements(g) = RemoveAt(q, i)
         ELSE g = h
  <2>1. /\ Sound(DeleteElement(h, k), keys, keys)
        /\ Entries(DeleteElement(h, k)) = {x \in Entries(h) : x[1] # k}
        /\ IF HasElement(h, k)
           THEN \E i \in 1 .. Len(S!Elements(h)) :
                  /\ <<k, S!Elements(h)[i]>> \in Entries(h)
                  /\ S!Elements(DeleteElement(h, k)) = RemoveAt(S!Elements(h), i)
           ELSE DeleteElement(h, k) = h
    BY <1>2, DeleteElementIs, Zenon
  <2> QED BY <1>1, <2>1, Zenon
<1> HIDE DEF q
<1>5. OwnKeys(g) BY <1>2, <1>4 DEF OwnKeys
<1>6. ASSUME NEW j \in Keys PROVE HasElement(g, j) <=> HasElement(h, j) /\ j # k
  <2>1. HasElement(g, j) <=> \E v : <<j, v>> \in Entries(g) BY <1>4, EntryIs, Zenon
  <2>2. HasElement(h, j) <=> \E v : <<j, v>> \in Entries(h) BY <1>2, EntryIs, Zenon
  <2> QED BY <1>4, <2>1, <2>2
<1>7. S!Elements(g) = Without(q, k)
  <2>1. CASE HasElement(h, k)
    <3>1. PICK i \in 1 .. Len(q) : <<k, q[i]>> \in Entries(h) /\ S!Elements(g) = RemoveAt(q, i)
      BY <1>4, <2>1
    <3>2. q[i] = k /\ DOMAIN q = 1 .. Len(q) BY <1>2, <1>3, <3>1 DEF OwnKeys
    <3>3. i = CHOOSE j \in DOMAIN q : q[j] = k BY <1>3, <3>2
    <3> QED BY <1>3, <2>1, <3>1, <3>3 DEF Without
  <2>2. CASE ~HasElement(h, k) BY <1>3, <1>4, <2>2 DEF Without, q
  <2> QED BY <2>1, <2>2
<1> QED BY <1>4, <1>5, <1>6, <1>7 DEF OwnTable, g, q

-----------------------------------------------------------------------------
(* Tables of addresses with their ports.                                     *)
HostTable(h) == Sound(h, IPs, PortInfos)

(* An address is selected when its host's entry, looked up, selects the port. *)
LEMMA SelectedIs ==
  ASSUME NEW h, HostTable(h), NEW a \in IPs \X Ports
  PROVE  a \in SelectedIn(h) <=> HasElement(h, a[1]) /\ Selects(Element(h, a[1]), a[2])
<1>1. Sound(h, IPs, PortInfos) /\ a[1] \in Keys /\ a[1] \in IPs
  BY TransmitterAssumption DEF HostTable
<1>2. ASSUME HasElement(h, a[1]), Selects(Element(h, a[1]), a[2]) PROVE a \in SelectedIn(h)
  <2>1. <<a[1], Element(h, a[1])>> \in Entries(h) BY <1>1, <1>2, EntryIs
  <2>2. PICK e \in DOMAIN h.elem : <<a[1], Element(h, a[1])>> = <<h.elem[e].key, h.elem[e].val>>
    BY <2>1 DEF Entries
  <2> QED BY <1>2, <2>2 DEF SelectedIn
<1>3. ASSUME a \in SelectedIn(h) PROVE HasElement(h, a[1]) /\ Selects(Element(h, a[1]), a[2])
  <2>1. PICK e \in DOMAIN h.elem : h.elem[e].key = a[1] /\ Selects(h.elem[e].val, a[2])
    BY <1>3 DEF SelectedIn
  <2>2. <<a[1], h.elem[e].val>> \in Entries(h) BY <2>1 DEF Entries
  <2>3. HasElement(h, a[1]) BY <1>1, <2>2, EntryIs
  <2>4. Element(h, a[1]) = h.elem[e].val
    <3>1. <<a[1], Element(h, a[1])>> \in Entries(h) BY <1>1, <2>3, EntryIs
    <3> QED BY <1>1, <2>2, <3>1, EntryIs
  <2> QED BY <2>1, <2>3, <2>4
<1> QED BY <1>2, <1>3

(* One entry changed: the others select what they did.                       *)
LEMMA OneEntry ==
  ASSUME NEW h, HostTable(h), NEW g, HostTable(g), NEW ip \in IPs, NEW inf,
         Entries(g) = {x \in Entries(h) : x[1] # ip} \union {<<ip, inf>>}
  PROVE  \A a \in IPs \X Ports :
           a \in SelectedIn(g) <=> IF a[1] = ip THEN Selects(inf, a[2]) ELSE a \in SelectedIn(h)
<1> SUFFICES ASSUME NEW a \in IPs \X Ports
             PROVE  a \in SelectedIn(g) <=> IF a[1] = ip THEN Selects(inf, a[2])
                                            ELSE a \in SelectedIn(h)
  OBVIOUS
<1>1. ASSUME NEW t PROVE a \in SelectedIn(t) <=> \E v : <<a[1], v>> \in Entries(t) /\ Selects(v, a[2])
  <2>1. ASSUME a \in SelectedIn(t) PROVE \E v : <<a[1], v>> \in Entries(t) /\ Selects(v, a[2])
    BY <2>1 DEF SelectedIn, Entries
  <2>2. ASSUME NEW v, <<a[1], v>> \in Entries(t), Selects(v, a[2]) PROVE a \in SelectedIn(t)
    <3>1. PICK e \in DOMAIN t.elem : <<a[1], v>> = <<t.elem[e].key, t.elem[e].val>>
      BY <2>2 DEF Entries
    <3> QED BY <2>2, <3>1 DEF SelectedIn
  <2> QED BY <2>1, <2>2
<1>2. \A v : <<a[1], v>> \in Entries(g) <=>
                IF a[1] = ip THEN v = inf ELSE <<a[1], v>> \in Entries(h)
  OBVIOUS
<1>3. CASE a[1] = ip BY <1>1, <1>2, <1>3
<1>4. CASE a[1] # ip BY <1>1, <1>2, <1>4
<1> QED BY <1>3, <1>4

(* A cleared list selects nobody.                                            *)
LEMMA EmptySelectsNone == HostTable(EmptyHashTable) /\ SelectedIn(EmptyHashTable) = {}
<1>1. Sound(EmptyHashTable, IPs, PortInfos) /\ DOMAIN EmptyHashTable.elem = {}
  <2>1. IPs \subseteq Keys BY TransmitterAssumption
  <2> QED BY <2>1, EmptyIsSound
<1> QED BY <1>1 DEF HostTable, SelectedIn

(* Adding and deleting addresses, as sets of them.                           *)
HostOf(ip) == {ip} \X Ports

(* What adding a port, or all of them, does to the addresses selected.       *)
LEMMA EntryAdded ==
  ASSUME NEW h, HostTable(h), NEW ip \in IPs, NEW port \in Ports \union {AnyPort},
         HasElement(h, ip) \/ Cardinality(DOMAIN h.elem) < Cardinality(Heap)
  PROVE  LET g == ProcessAddAcceptIgnoreEntry(h, ip, port) IN
         /\ HostTable(g)
         /\ SelectedIn(g) = IF port = AnyPort THEN SelectedIn(h) \union HostOf(ip)
                            ELSE IF HasElement(h, ip) /\ Element(h, ip).all THEN SelectedIn(h)
                            ELSE SelectedIn(h) \union {<<ip, port>>}
<1> DEFINE g == ProcessAddAcceptIgnoreEntry(h, ip, port)
<1>1. Sound(h, IPs, PortInfos) /\ ip \in Keys /\ AnyPort \notin Ports
  BY TransmitterAssumption DEF HostTable
<1>2. PortInfo(port) \in PortInfos
      /\ \A p \in Ports : Selects(PortInfo(port), p) <=> port = AnyPort \/ p = port
  BY <1>1 DEF PortInfo, PortInfos, Selects
<1>3. SelectedIn(h) \subseteq IPs \X Ports /\ SelectedIn(g) \subseteq IPs \X Ports
  BY DEF SelectedIn
<1>4. CASE HasElement(h, ip)
  <2> DEFINE old == Element(h, ip)  inf == Added(old, port)
  <2>1. <<ip, old>> \in Entries(h) /\ Entries(h) \subseteq IPs \X PortInfos
    BY <1>1, <1>4, EntryIs
  <2>2. old \in PortInfos BY <2>1
  <2>3. inf \in PortInfos BY <1>1, <1>2, <2>2 DEF Added, PortInfos
  <2>4. \A p \in Ports : Selects(inf, p) <=>
          IF port = AnyPort THEN TRUE
          ELSE IF old.all THEN Selects(old, p) ELSE Selects(old, p) \/ p = port
    BY <1>1, <1>2, <2>2 DEF Added, PortInfos, Selects
  <2>5. g = SetElement(h, ip, inf) BY <1>4 DEF ProcessAddAcceptIgnoreEntry
  <2> HIDE DEF g, inf, old
  <2>6. HostTable(g) /\ Entries(g) = {x \in Entries(h) : x[1] # ip} \union {<<ip, inf>>}
    <3>1. /\ Sound(SetElement(h, ip, inf), IPs, PortInfos)
          /\ Entries(SetElement(h, ip, inf)) = {x \in Entries(h) : x[1] # ip} \union {<<ip, inf>>}
      BY <1>1, <1>4, <2>3, SetElementIs
    <3> QED BY <2>5, <3>1, Zenon DEF HostTable
  <2>7. \A a \in IPs \X Ports :
          a \in SelectedIn(g) <=> IF a[1] = ip THEN Selects(inf, a[2]) ELSE a \in SelectedIn(h)
    BY <2>6, OneEntry
  <2>8. \A a \in IPs \X Ports : a[1] = ip => (a \in SelectedIn(h) <=> Selects(old, a[2]))
    BY <1>4, SelectedIs DEF old
  <2>9. SelectedIn(g) = IF port = AnyPort THEN SelectedIn(h) \union HostOf(ip)
                        ELSE IF old.all THEN SelectedIn(h)
                        ELSE SelectedIn(h) \union {<<ip, port>>}
    <3>1. ASSUME NEW a \in IPs \X Ports
          PROVE  a \in SelectedIn(g) <=> IF port = AnyPort THEN a \in SelectedIn(h) \/ a[1] = ip
                                         ELSE IF old.all THEN a \in SelectedIn(h)
                                         ELSE a \in SelectedIn(h) \/ a = <<ip, port>>
      <4>1. a = <<ip, port>> <=> a[1] = ip /\ a[2] = port OBVIOUS
      <4> QED BY <2>4, <2>7, <2>8, <4>1
    <3>2. CASE port = AnyPort BY <1>3, <3>1, <3>2 DEF HostOf
    <3>3. CASE port # AnyPort /\ old.all BY <1>3, <3>1, <3>3
    <3>4. CASE port # AnyPort /\ ~old.all BY <1>3, <3>1, <3>4
    <3> QED BY <3>2, <3>3, <3>4
  <2> QED BY <1>4, <2>6, <2>9 DEF g, old
<1>5. CASE ~HasElement(h, ip)
  <2> DEFINE inf == PortInfo(port)
  <2>1. g = AddElement(h, ip, inf) BY <1>5 DEF ProcessAddAcceptIgnoreEntry
  <2> HIDE DEF g, inf
  <2>2. HostTable(g) /\ Entries(g) = Entries(h) \union {<<ip, inf>>}
    BY <1>1, <1>2, <1>5, <2>1, AddElementIs DEF HostTable, inf
  <2>3. \A x \in Entries(h) : x[1] # ip
    <3>1. \A v : <<ip, v>> \notin Entries(h) BY <1>1, <1>5, EntryIs
    <3>2. Entries(h) \subseteq IPs \X PortInfos BY <1>1, EntryIs
    <3> QED BY <3>1, <3>2
  <2>4. Entries(g) = {x \in Entries(h) : x[1] # ip} \union {<<ip, inf>>} BY <2>2, <2>3
  <2>5. \A a \in IPs \X Ports :
          a \in SelectedIn(g) <=> IF a[1] = ip THEN Selects(inf, a[2]) ELSE a \in SelectedIn(h)
    BY <2>2, <2>4, OneEntry
  <2>6. \A a \in IPs \X Ports : a[1] = ip => a \notin SelectedIn(h) BY <1>5, SelectedIs
  <2>7. SelectedIn(g) = IF port = AnyPort THEN SelectedIn(h) \union HostOf(ip)
                        ELSE SelectedIn(h) \union {<<ip, port>>}
    <3>1. ASSUME NEW a \in IPs \X Ports
          PROVE  a \in SelectedIn(g) <=> IF port = AnyPort THEN a \in SelectedIn(h) \/ a[1] = ip
                                         ELSE a \in SelectedIn(h) \/ a = <<ip, port>>
      <4>1. a = <<ip, port>> <=> a[1] = ip /\ a[2] = port OBVIOUS
      <4> QED BY <1>2, <2>5, <2>6, <4>1 DEF inf
    <3>2. CASE port = AnyPort BY <1>3, <3>1, <3>2 DEF HostOf
    <3>3. CASE port # AnyPort BY <1>3, <3>1, <3>3
    <3> QED BY <3>2, <3>3
  <2> QED BY <1>5, <2>2, <2>7 DEF g
<1> QED BY <1>4, <1>5

(* What deleting does.                                                       *)
LEMMA EntryDeleted ==
  ASSUME NEW h, HostTable(h), NEW ip \in IPs, NEW port \in Ports \union {AnyPort}
  PROVE  LET g == ProcessDeleteAcceptIgnoreEntry(h, ip, port) IN
         /\ HostTable(g)
         /\ SelectedIn(g) = IF port = AnyPort THEN SelectedIn(h) \ HostOf(ip)
                            ELSE SelectedIn(h) \ {<<ip, port>>}
<1> DEFINE g == ProcessDeleteAcceptIgnoreEntry(h, ip, port)
<1>1. Sound(h, IPs, PortInfos) /\ ip \in Keys /\ AnyPort \notin Ports
  BY TransmitterAssumption DEF HostTable
<1>2. SelectedIn(h) \subseteq IPs \X Ports /\ SelectedIn(g) \subseteq IPs \X Ports
  BY DEF SelectedIn
<1>3. CASE HasElement(h, ip)
  <2> DEFINE old == Element(h, ip)  inf == Deleted(old, port)
  <2>1. <<ip, old>> \in Entries(h) /\ Entries(h) \subseteq IPs \X PortInfos
    BY <1>1, <1>3, EntryIs
  <2>2. old \in PortInfos BY <2>1
  <2>3. inf \in PortInfos BY <1>1, <2>2 DEF Deleted, PortInfos
  <2>4. \A p \in Ports : Selects(inf, p) <=>
          IF port = AnyPort THEN FALSE ELSE Selects(old, p) /\ p # port
    BY <1>1, <2>2 DEF Deleted, PortInfos, Selects
  <2>5. g = SetElement(h, ip, inf) BY <1>3 DEF ProcessDeleteAcceptIgnoreEntry
  <2> HIDE DEF g, inf, old
  <2>6. HostTable(g) /\ Entries(g) = {x \in Entries(h) : x[1] # ip} \union {<<ip, inf>>}
    <3>1. /\ Sound(SetElement(h, ip, inf), IPs, PortInfos)
          /\ Entries(SetElement(h, ip, inf)) = {x \in Entries(h) : x[1] # ip} \union {<<ip, inf>>}
      BY <1>1, <1>3, <2>3, SetElementIs
    <3> QED BY <2>5, <3>1, Zenon DEF HostTable
  <2>7. \A a \in IPs \X Ports :
          a \in SelectedIn(g) <=> IF a[1] = ip THEN Selects(inf, a[2]) ELSE a \in SelectedIn(h)
    BY <2>6, OneEntry
  <2>8. \A a \in IPs \X Ports : a[1] = ip => (a \in SelectedIn(h) <=> Selects(old, a[2]))
    BY <1>3, SelectedIs DEF old
  <2>9. SelectedIn(g) = IF port = AnyPort THEN SelectedIn(h) \ HostOf(ip)
                        ELSE SelectedIn(h) \ {<<ip, port>>}
    <3>1. ASSUME NEW a \in IPs \X Ports
          PROVE  a \in SelectedIn(g) <=> IF port = AnyPort THEN a \in SelectedIn(h) /\ a[1] # ip
                                         ELSE a \in SelectedIn(h) /\ a # <<ip, port>>
      <4>1. a = <<ip, port>> <=> a[1] = ip /\ a[2] = port OBVIOUS
      <4> QED BY <2>4, <2>7, <2>8, <4>1
    <3>2. CASE port = AnyPort BY <1>2, <3>1, <3>2 DEF HostOf
    <3>3. CASE port # AnyPort BY <1>2, <3>1, <3>3
    <3> QED BY <3>2, <3>3
  <2> QED BY <2>6, <2>9 DEF g
<1>4. CASE ~HasElement(h, ip)
  <2>1. g = h BY <1>4 DEF ProcessDeleteAcceptIgnoreEntry
  <2>2. \A a \in IPs \X Ports : a[1] = ip => a \notin SelectedIn(h) BY <1>4, SelectedIs
  <2>3. \A x \in HostOf(ip) : x \in IPs \X Ports /\ x[1] = ip BY DEF HostOf
  <2>4. SelectedIn(h) \cap HostOf(ip) = {} BY <1>2, <2>2, <2>3
  <2>5. port # AnyPort => <<ip, port>> \notin SelectedIn(h) BY <2>2
  <2> QED BY <2>1, <2>4, <2>5
<1> QED BY <1>3, <1>4

-----------------------------------------------------------------------------
(* What is picked of two lists, one after the other.                         *)
LEMMA PickedConcat ==
  ASSUME NEW A, NEW a \in Seq(A), NEW b \in Seq(A), NEW T
  PROVE  Picked(a \o b, T) = Picked(a, T) \o Picked(b, T)
<1> DEFINE x == PickedUpTo(a, T)  y == PickedUpTo(b, T)  c == a \o b  P == Picked(a, T)
           f == [n \in 0 .. Len(a) + Len(b) |->
                   IF n <= Len(a) THEN x[n] ELSE P \o y[n - Len(a)]]
<1>1. /\ Len(a) \in Nat /\ Len(b) \in Nat /\ c \in Seq(A) /\ Len(c) = Len(a) + Len(b)
      /\ \A n \in 1 .. Len(c) : c[n] = IF n <= Len(a) THEN a[n] ELSE b[n - Len(a)]
      /\ \A n \in 1 .. Len(b) : b[n] \in A
  OBVIOUS
<1>2. /\ \A n \in 0 .. Len(a) : Grows(x, a, T, n)
      /\ \A n \in 0 .. Len(b) : Grows(y, b, T, n) /\ y[n] \in Seq(A)
      /\ P \in Seq(A) /\ x[Len(a)] = P
  <2>1. \A n \in 0 .. Len(b) : y[n] \in Seq(A \cap T) BY PickedUpToType
  <2>2. \A n \in 0 .. Len(b) : y[n] \in Seq(A) BY <2>1
  <2>3. \A n \in 0 .. Len(a) : Grows(x, a, T, n) BY <1>1, PickedUpToIs
  <2>4. \A n \in 0 .. Len(b) : Grows(y, b, T, n) BY <1>1, PickedUpToIs
  <2>5. P \in Seq(A) BY PickedIs
  <2>6. x[Len(a)] = P BY DEF Picked
  <2> HIDE DEF x, y, P
  <2> QED BY <2>2, <2>3, <2>4, <2>5, <2>6
<1> HIDE DEF x, y, P, c
<1>3. ASSUME NEW n \in 0 .. Len(c) PROVE Grows(f, c, T, n)
  <2>1. n \in Nat /\ f[n] = (IF n <= Len(a) THEN x[n] ELSE P \o y[n - Len(a)]) BY <1>1
  <2>2. CASE n = 0
    <3>1. Grows(x, a, T, 0) BY <1>1, <1>2
    <3>2. f[n] = x[0] BY <1>1, <2>1, <2>2
    <3> HIDE DEF f
    <3> QED BY <2>2, <3>1, <3>2 DEF Grows
  <2>3. CASE n # 0 /\ n <= Len(a)
    <3>1. /\ Grows(x, a, T, n) /\ c[n] = a[n] /\ n - 1 \in 0 .. Len(a) + Len(b) /\ n - 1 <= Len(a)
      BY <1>1, <1>2, <2>3
    <3>2. f[n] = x[n] /\ f[n - 1] = x[n - 1] BY <2>1, <2>3, <3>1
    <3> HIDE DEF f
    <3> QED BY <2>3, <3>1, <3>2 DEF Grows
  <2>4. CASE ~(n <= Len(a))
    <3> DEFINE k == n - Len(a)
    <3>1. /\ k \in 1 .. Len(b) /\ k \in 0 .. Len(b) /\ k - 1 \in 0 .. Len(b)
          /\ n - 1 \in 0 .. Len(a) + Len(b) /\ c[n] = b[k] /\ n # 0 /\ b[k] \in A
      BY <1>1, <2>4
    <3>2. f[n] = P \o y[k] BY <2>1, <2>4
    <3>3. f[n - 1] = P \o y[k - 1]
      <4>1. CASE k = 1
        <5>1. n - 1 = Len(a) BY <1>1, <4>1
        <5>2. f[n - 1] = P BY <1>1, <1>2, <3>1, <5>1
        <5>3. y[0] = << >>
          <6>1. Grows(y, b, T, 0) BY <1>1, <1>2
          <6> QED BY <6>1 DEF Grows
        <5> QED BY <1>2, <4>1, <5>2, <5>3
      <4>2. CASE k # 1
        <5>1. ~(n - 1 <= Len(a)) /\ n - 1 - Len(a) = k - 1 BY <1>1, <2>4, <4>2
        <5> QED BY <3>1, <5>1
      <4> QED BY <4>1, <4>2
    <3>4. y[k] = IF b[k] \in T THEN Append(y[k - 1], b[k]) ELSE y[k - 1]
      <4>1. Grows(y, b, T, k) /\ k # 0 BY <1>2, <3>1
      <4> QED BY <4>1 DEF Grows
    <3>5. y[k - 1] \in Seq(A) BY <1>2, <3>1
    <3> HIDE DEF f, k
    <3>6. P \o Append(y[k - 1], b[k]) = Append(P \o y[k - 1], b[k])
      <4> DEFINE u == y[k - 1]  e == b[k]
      <4>1. P \in Seq(A) /\ u \in Seq(A) /\ e \in A BY <1>2, <3>1, <3>5
      <4> HIDE DEF u, e
      <4>2. Append(u, e) = u \o <<e>> /\ Append(P \o u, e) = (P \o u) \o <<e>>
        BY <4>1, AppendIsConcat
      <4>3. (P \o u) \o <<e>> = P \o (u \o <<e>>) BY <4>1, ConcatAssociative
      <4> QED BY <4>2, <4>3 DEF u, e
    <3> QED BY <3>1, <3>2, <3>3, <3>4, <3>6 DEF Grows
  <2> QED BY <1>1, <2>2, <2>3, <2>4
<1>4. f[Len(c)] = Picked(c, T)
  <2>1. Len(c) \in Nat BY <1>1
  <2> HIDE DEF f
  <2> QED BY <1>3, <2>1, PickedUnique
<1>5. f[Len(c)] = P \o Picked(b, T)
  <2>1. CASE Len(b) = 0
    <3>0. \A n \in 1 .. Len(b) : b[n] \notin T BY <2>1
    <3>1. Picked(b, T) = << >> BY <3>0, PickedIs
    <3> QED BY <1>1, <1>2, <2>1, <3>1
  <2>2. CASE Len(b) # 0
    <3>1. ~(Len(c) <= Len(a)) /\ Len(c) - Len(a) = Len(b) BY <1>1, <2>2
    <3> QED BY <1>1, <3>1 DEF Picked, y
  <2> QED BY <2>1, <2>2
<1> QED BY <1>4, <1>5 DEF P, c

-----------------------------------------------------------------------------
(* RTPUDPv4Transmitter, RTPUDPv6Transmitter and RTPFakeTransmitter.          *)

(* Tables whose links are in order; the list of destinations is what was     *)
(* asked for, the kernel's groups are those of the table, and there are no   *)
(* entries in a mode that does not use them, nor after Destroy.              *)
TablesInv ==
  /\ receivemode \in {"AcceptAll", "AcceptSome", "IgnoreSome"}
  /\ HostTable(acceptignoreinfo)
  /\ receivemode = "AcceptAll" \/ ~created => acceptignoreinfo = EmptyHashTable
  /\ OwnTable(destinations, Destinations) /\ S!Elements(destinations) = asked
  /\ OwnTable(multicastgroups, Groups)
  /\ membership = [s \in Sock |-> {g \in Groups : HasElement(multicastgroups, g)}]

PacketsInv ==
  /\ sockets \in [Sock -> Seq(Datagrams)]
  /\ rawpacketlist \in Seq(Sock \X (IPs \X Ports))

(* Nobody waits in a transmitter destroyed but while Destroy waits for him,  *)
(* so that Create, which makes a new pipe, finds nobody who was woken.       *)
WaitsInv ==
  /\ created \in BOOLEAN /\ destroying \in BOOLEAN /\ aborted \in BOOLEAN
  /\ waiter \in {"no", "select", "returned"}
  /\ pipe \in 0 .. PipeRoom + 1 /\ (created => pipe <= PipeRoom)
  /\ ~created /\ waiter # "no" => destroying
  /\ destroying => ~created
  /\ AbortReadable

UdpInv == TablesInv /\ PacketsInv /\ WaitsInv

(* What the tables hold has a bucket.                                        *)
LEMMA KeysKnown ==
  IPs \subseteq Keys /\ Groups \subseteq Keys /\ Destinations \subseteq Keys
BY TransmitterAssumption

(* With less allocated than the bound, there is memory for an element.       *)
LEMMA RoomForAll ==
  ASSUME TablesInv, PacketsInv, Allocated < Room
  PROVE  /\ Cardinality(DOMAIN acceptignoreinfo.elem) < Cardinality(Heap)
         /\ Cardinality(DOMAIN destinations.elem) < Cardinality(Heap)
         /\ Cardinality(DOMAIN multicastgroups.elem) < Cardinality(Heap)
<1> DEFINE a == Cardinality(DOMAIN acceptignoreinfo.elem)
           d == Cardinality(DOMAIN destinations.elem)
           m == Cardinality(DOMAIN multicastgroups.elem)
           r == Len(rawpacketlist)
           p == Len(sockets["rtp"])
           q == Len(sockets["rtcp"])
           c == Cardinality(Heap)
<1>1. \A h, keys, vals : Sound(h, keys, vals) => Cardinality(DOMAIN h.elem) \in Nat
  <2> SUFFICES ASSUME NEW h, NEW keys, NEW vals, Sound(h, keys, vals)
               PROVE  Cardinality(DOMAIN h.elem) \in Nat
    BY Zenon
  <2>1. DOMAIN h.elem \subseteq Heap BY DEF Sound, HashTableOf
  <2> QED BY <2>1, HashAssumption, FS_Subset, FS_CardinalityType
<1>2. a \in Nat /\ d \in Nat /\ m \in Nat BY <1>1 DEF TablesInv, HostTable, OwnTable
<1>3. r \in Nat /\ p \in Nat /\ q \in Nat
  BY DEF PacketsInv, Sock
<1>4. c \in Nat /\ Room \in Nat /\ Room <= c
  BY HashAssumption, TransmitterAssumption, FS_CardinalityType
<1>5. a + d + m + r + p + q < Room
  BY DEF Allocated
<1> HIDE DEF a, d, m, r, p, q, c
<1>6. a < c /\ d < c /\ m < c
  BY <1>2, <1>3, <1>4, <1>5
<1> QED BY <1>6 DEF a, d, m, c

-----------------------------------------------------------------------------
(* Whom packets are accepted from: every method changes the addresses        *)
(* selected as SourceFilter says.                                            *)
FilterStep == [Filter!SNext]_<<receivemode, Selected>>

(* All ports of a host.                                                      *)
LEMMA HostsAreFilters == \A ip : HostOf(ip) = Filter!AllPorts(ip)
BY DEF HostOf, Filter!AllPorts

(* A method that changes the list of addresses alone.                        *)
LEMMA FilterChanges ==
  ASSUME UdpInv, NEW m \in {"AcceptAll", "AcceptSome", "IgnoreSome"}, NEW h, HostTable(h),
         m = "AcceptAll" => h = EmptyHashTable, OnFilter(m, h)
  PROVE  UdpInv'
<1>1. /\ receivemode' = m /\ acceptignoreinfo' = h /\ created
      /\ UNCHANGED <<created, destinations, asked, multicastgroups, membership, sockets,
                     rawpacketlist, waiter, aborted, pipe, destroying>>
  BY DEF OnFilter, kernel, waits
<1>2. TablesInv'
  <2>1. membership' = [s \in Sock |-> {g \in Groups : HasElement(multicastgroups', g)}]
    BY <1>1 DEF UdpInv, TablesInv
  <2> QED BY <1>1, <2>1, Zenon DEF UdpInv, TablesInv
<1>3. PacketsInv' BY <1>1 DEF UdpInv, PacketsInv
<1>4. WaitsInv' BY <1>1 DEF UdpInv, WaitsInv, AbortReadable
<1> QED BY <1>2, <1>3, <1>4 DEF UdpInv

(* SetReceiveMode forgets the list when the mode changes.                    *)
LEMMA ModeIsSet ==
  ASSUME UdpInv, NEW m \in {"AcceptAll", "AcceptSome", "IgnoreSome"}, SetReceiveMode(m)
  PROVE  UdpInv' /\ FilterStep
<1> DEFINE h == IF m = receivemode THEN acceptignoreinfo ELSE Clear(acceptignoreinfo)
<1>1. OnFilter(m, h) BY DEF SetReceiveMode
<1>2. HostTable(h) /\ (m = "AcceptAll" => h = EmptyHashTable)
  BY EmptySelectsNone DEF UdpInv, TablesInv, Clear
<1>3. receivemode' = m /\ acceptignoreinfo' = h BY <1>1 DEF OnFilter
<1>4. CASE m = receivemode
  <2>1. receivemode' = receivemode /\ Selected' = Selected BY <1>3, <1>4 DEF Selected
  <2> QED BY <1>1, <1>2, <2>1, FilterChanges DEF FilterStep
<1>5. CASE m # receivemode
  <2>1. Selected' = {} BY <1>3, <1>5, EmptySelectsNone DEF Selected, Clear
  <2>2. Filter!SetMode BY <1>3, <2>1 DEF Filter!SetMode, Filter!Modes
  <2> QED BY <1>1, <1>2, <2>2, FilterChanges DEF FilterStep, Filter!SNext
<1> QED BY <1>4, <1>5

(* AddToIgnoreList, AddToAcceptList.                                         *)
LEMMA AddressIsAdded ==
  ASSUME UdpInv, NEW ip \in IPs, NEW port \in Ports \union {AnyPort},
         AddToIgnoreList(ip, port) \/ AddToAcceptList(ip, port)
  PROVE  UdpInv' /\ FilterStep
<1> DEFINE h == acceptignoreinfo  g == ProcessAddAcceptIgnoreEntry(h, ip, port)
<1>1. /\ OnFilter(receivemode, g) /\ receivemode # "AcceptAll"
      /\ HasElement(h, ip) \/ Allocated < Room
  BY DEF AddToIgnoreList, AddToAcceptList, CanAdd
<1>2. HostTable(h) /\ receivemode \in {"AcceptAll", "AcceptSome", "IgnoreSome"}
  BY DEF UdpInv, TablesInv
<1>3. HasElement(h, ip) \/ Cardinality(DOMAIN h.elem) < Cardinality(Heap)
  BY <1>1, RoomForAll DEF UdpInv
<1> HIDE DEF g
<1>4. /\ HostTable(g)
      /\ SelectedIn(g) = IF port = AnyPort THEN SelectedIn(h) \union HostOf(ip)
                         ELSE IF HasElement(h, ip) /\ Element(h, ip).all THEN SelectedIn(h)
                         ELSE SelectedIn(h) \union {<<ip, port>>}
  BY <1>2, <1>3, EntryAdded, Zenon DEF g
<1>5. receivemode' = receivemode /\ Selected = SelectedIn(h) /\ Selected' = SelectedIn(g)
  BY <1>1 DEF OnFilter, Selected
<1>6. FilterStep
  <2>1. CASE port = AnyPort
    <3>1. Selected' = Selected \union Filter!AllPorts(ip)
      BY <1>4, <1>5, <2>1, HostsAreFilters
    <3> QED BY <1>1, <1>5, <3>1 DEF FilterStep, Filter!SNext, Filter!Select
  <2>2. CASE port # AnyPort /\ HasElement(h, ip) /\ Element(h, ip).all
    BY <1>4, <1>5, <2>2 DEF FilterStep
  <2>3. CASE port # AnyPort /\ ~(HasElement(h, ip) /\ Element(h, ip).all)
    <3>1. Selected' = Selected \union {<<ip, port>>} /\ <<ip, port>> \in IPs \X Ports
      BY <1>4, <1>5, <2>3
    <3> QED BY <1>1, <1>5, <3>1 DEF FilterStep, Filter!SNext, Filter!Select
  <2> QED BY <2>1, <2>2, <2>3
<1> QED BY <1>1, <1>2, <1>4, <1>6, FilterChanges

(* DeleteFromIgnoreList, DeleteFromAcceptList.                               *)
LEMMA AddressIsDeleted ==
  ASSUME UdpInv, NEW ip \in IPs, NEW port \in Ports \union {AnyPort},
         DeleteFromIgnoreList(ip, port) \/ DeleteFromAcceptList(ip, port)
  PROVE  UdpInv' /\ FilterStep
<1> DEFINE h == acceptignoreinfo  g == ProcessDeleteAcceptIgnoreEntry(h, ip, port)
<1>1. OnFilter(receivemode, g) /\ receivemode # "AcceptAll"
  BY DEF DeleteFromIgnoreList, DeleteFromAcceptList
<1>2. HostTable(h) /\ receivemode \in {"AcceptAll", "AcceptSome", "IgnoreSome"}
  BY DEF UdpInv, TablesInv
<1> HIDE DEF g
<1>3. /\ HostTable(g)
      /\ SelectedIn(g) = IF port = AnyPort THEN SelectedIn(h) \ HostOf(ip)
                         ELSE SelectedIn(h) \ {<<ip, port>>}
  BY <1>2, EntryDeleted, Zenon DEF g
<1>4. receivemode' = receivemode /\ Selected = SelectedIn(h) /\ Selected' = SelectedIn(g)
  BY <1>1 DEF OnFilter, Selected
<1>5. FilterStep
  <2>1. CASE port = AnyPort
    <3>1. Selected' = Selected \ Filter!AllPorts(ip) BY <1>3, <1>4, <2>1, HostsAreFilters
    <3> QED BY <1>4, <3>1 DEF FilterStep, Filter!SNext, Filter!Deselect
  <2>2. CASE port # AnyPort
    <3>1. Selected' = Selected \ {<<ip, port>>} /\ <<ip, port>> \in IPs \X Ports
      BY <1>3, <1>4, <2>2
    <3> QED BY <1>4, <3>1 DEF FilterStep, Filter!SNext, Filter!Deselect
  <2> QED BY <2>1, <2>2
<1> QED BY <1>1, <1>2, <1>3, <1>5, FilterChanges

(* ClearIgnoreList, ClearAcceptList.                                         *)
LEMMA ListIsCleared ==
  ASSUME UdpInv, ClearIgnoreList \/ ClearAcceptList
  PROVE  UdpInv' /\ FilterStep
<1>1. OnFilter(receivemode, EmptyHashTable)
  BY DEF ClearIgnoreList, ClearAcceptList, ClearAcceptIgnoreInfo, Clear
<1>2. receivemode \in {"AcceptAll", "AcceptSome", "IgnoreSome"} BY DEF UdpInv, TablesInv
<1>3. receivemode' = receivemode /\ Selected' = {}
  BY <1>1, EmptySelectsNone DEF OnFilter, Selected
<1>4. FilterStep BY <1>3 DEF FilterStep, Filter!SNext, Filter!Deselect
<1> QED BY <1>1, <1>2, <1>4, EmptySelectsNone, FilterChanges

(* Who leaves the list alone leaves the selection alone.                     *)
LEMMA SameFilter ==
  ASSUME UNCHANGED <<receivemode, acceptignoreinfo>>
  PROVE  FilterStep
BY DEF FilterStep, Selected

(* The thread that waits. *)
LEMMA WaiterMoves ==
  ASSUME UdpInv,
         \/ WaitForIncomingData \/ SelectReturns \/ WaitReturns \/ AbortWait \/ DestroyReturns
  PROVE  UdpInv' /\ FilterStep
<1>1. UNCHANGED <<created, receivemode, tables, kernel, rawpacketlist>>
  BY DEF WaitForIncomingData, SelectReturns, WaitReturns, AbortWait, DestroyReturns
<1>2. TablesInv' BY <1>1, Zenon DEF UdpInv, TablesInv, tables, kernel
<1>3. PacketsInv' BY <1>1 DEF UdpInv, PacketsInv, kernel
<1>4. WaitsInv'
  <2>1. PICK room \in Nat \ {0} : room = PipeRoom BY TransmitterAssumption
  <2>2. CASE WaitForIncomingData
    BY <2>1, <2>2 DEF UdpInv, WaitsInv, AbortReadable, WaitForIncomingData
  <2>3. CASE SelectReturns BY <2>1, <2>3 DEF UdpInv, WaitsInv, AbortReadable, SelectReturns
  <2>4. CASE WaitReturns
    <3>1. /\ waiter' = "no" /\ aborted' = FALSE /\ UNCHANGED <<created, destroying>>
          /\ created \in BOOLEAN /\ destroying \in BOOLEAN /\ (destroying => ~created)
      BY <2>4 DEF UdpInv, WaitsInv, WaitReturns
    <3>2. pipe' \in 0 .. PipeRoom + 1 /\ (created => pipe' <= PipeRoom)
      <4>1. CASE created /\ aborted
        <5>1. pipe > 0 /\ pipe' = pipe - 1 BY <2>4, <4>1 DEF WaitReturns
        <5>2. pipe \in 0 .. PipeRoom + 1 /\ pipe <= PipeRoom BY <4>1 DEF UdpInv, WaitsInv
        <5> QED BY <2>1, <5>1, <5>2
      <4>2. CASE ~(created /\ aborted)
        <5>1. pipe' = pipe BY <2>4, <4>2 DEF WaitReturns
        <5> QED BY <5>1 DEF UdpInv, WaitsInv
      <4> QED BY <4>1, <4>2
    <3> QED BY <3>1, <3>2 DEF WaitsInv, AbortReadable
  <2>5. CASE AbortWait BY <2>1, <2>5 DEF UdpInv, WaitsInv, AbortReadable, AbortWait
  <2>6. CASE DestroyReturns BY <2>1, <2>6 DEF UdpInv, WaitsInv, AbortReadable, DestroyReturns
  <2> QED BY <2>2, <2>3, <2>4, <2>5, <2>6
<1>5. FilterStep BY <1>1, SameFilter DEF tables
<1> QED BY <1>2, <1>3, <1>4, <1>5 DEF UdpInv

(* Create finds an empty list, and nobody who was woken.                     *)
LEMMA IsCreated ==
  ASSUME UdpInv, Create
  PROVE  UdpInv' /\ FilterStep
<1>1. /\ ~created /\ ~destroying /\ created' = TRUE /\ receivemode' = "AcceptAll" /\ pipe' = 0
      /\ UNCHANGED <<tables, kernel, rawpacketlist, waiter, aborted, destroying>>
  BY DEF Create
<1>2. acceptignoreinfo = EmptyHashTable /\ UNCHANGED acceptignoreinfo
  BY <1>1 DEF UdpInv, TablesInv, tables
<1>3. TablesInv'
  <2>1. UNCHANGED <<destinations, asked, multicastgroups, membership>> BY <1>1 DEF tables, kernel
  <2> QED BY <1>1, <1>2, <2>1, Zenon DEF UdpInv, TablesInv
<1>4. PacketsInv' BY <1>1 DEF UdpInv, PacketsInv, kernel
<1>5. WaitsInv'
  <2>1. PICK room \in Nat \ {0} : room = PipeRoom BY TransmitterAssumption
  <2> QED BY <1>1, <2>1 DEF UdpInv, WaitsInv, AbortReadable
<1>6. FilterStep
  <2>1. Selected' = {} BY <1>2, EmptySelectsNone DEF Selected
  <2> QED BY <1>1, <2>1 DEF FilterStep, Filter!SNext, Filter!SetMode, Filter!Modes
<1> QED BY <1>3, <1>4, <1>5, <1>6 DEF UdpInv

(* Destroy frees everything, and wakes who waits.                            *)
LEMMA IsDestroyed ==
  ASSUME UdpInv, Destroy
  PROVE  UdpInv' /\ FilterStep
<1>1. /\ created /\ created' = FALSE
      /\ membership' = [s \in Sock |-> {}] /\ sockets' = [s \in Sock |-> << >>]
      /\ rawpacketlist' = << >> /\ asked' = << >>
      /\ UNCHANGED <<receivemode, waiter, aborted>>
      /\ destroying' = (waiter # "no")
      /\ pipe' = IF waiter # "no" THEN pipe + 1 ELSE 0
  BY DEF Destroy, FlushPackets
<1>2. /\ destinations' = EmptyHashTable /\ multicastgroups' = EmptyHashTable
      /\ acceptignoreinfo' = EmptyHashTable
  BY SameTables DEF Destroy, Clear
<1>3. TablesInv'
  <2>1. HostTable(acceptignoreinfo') BY <1>2, EmptySelectsNone
  <2>2. /\ OwnTable(destinations', Destinations) /\ S!Elements(destinations') = asked'
    BY <1>1, <1>2, KeysKnown, OwnEmpty
  <2>3. OwnTable(multicastgroups', Groups) BY <1>2, KeysKnown, OwnEmpty
  <2>4. membership' = [s \in Sock |-> {g \in Groups : HasElement(multicastgroups', g)}]
    <3>1. \A g \in Groups : ~HasElement(multicastgroups', g) BY <1>2, KeysKnown, OwnEmpty
    <3> QED BY <1>1, <3>1
  <2> QED BY <1>1, <1>2, <2>1, <2>2, <2>3, <2>4, Zenon DEF UdpInv, TablesInv
<1>4. PacketsInv' BY <1>1 DEF PacketsInv
<1>5. WaitsInv'
  <2>1. PICK room \in Nat \ {0} : room = PipeRoom BY TransmitterAssumption
  <2>2. pipe' \in 0 .. PipeRoom + 1
    <3>1. pipe \in 0 .. PipeRoom + 1 /\ pipe <= PipeRoom BY <1>1 DEF UdpInv, WaitsInv
    <3>2. CASE waiter = "no" BY <1>1, <2>1, <3>2
    <3>3. CASE waiter # "no" BY <1>1, <2>1, <3>1, <3>3
    <3> QED BY <3>2, <3>3
  <2>3. /\ created' \in BOOLEAN /\ destroying' \in BOOLEAN /\ ~created'
        /\ (waiter' # "no" => destroying')
    BY <1>1
  <2>4. aborted' \in BOOLEAN /\ waiter' \in {"no", "select", "returned"}
    BY <1>1 DEF UdpInv, WaitsInv
  <2> QED BY <2>2, <2>3, <2>4 DEF WaitsInv, AbortReadable
<1>6. FilterStep
  <2>1. Selected' = {} BY <1>2, EmptySelectsNone DEF Selected
  <2> QED BY <1>1, <2>1 DEF FilterStep, Filter!SNext, Filter!Deselect
<1> QED BY <1>3, <1>4, <1>5, <1>6 DEF UdpInv

(* The list of destinations is what was asked for: added at the end, once.   *)
LEMMA DestinationsChange ==
  ASSUME UdpInv, NEW h, NEW now, OnDestinations(h, now),
         OwnTable(h, Destinations), S!Elements(h) = now
  PROVE  UdpInv' /\ FilterStep
<1>1. /\ destinations' = h /\ asked' = now
      /\ UNCHANGED <<created, receivemode, acceptignoreinfo, multicastgroups,
                     membership, sockets, rawpacketlist, waiter, aborted, pipe, destroying>>
  BY DEF OnDestinations, kernel, waits
<1>2. TablesInv' BY <1>1, Zenon DEF UdpInv, TablesInv
<1>3. PacketsInv' BY <1>1 DEF UdpInv, PacketsInv
<1>4. WaitsInv' BY <1>1 DEF UdpInv, WaitsInv, AbortReadable
<1> QED BY <1>1, <1>2, <1>3, <1>4, SameFilter DEF UdpInv

(* AddDestination, DeleteDestination, ClearDestinations.                     *)
LEMMA ListOfDestinations ==
  ASSUME UdpInv,
         \/ \E d \in Destinations : AddDestination(d) \/ DeleteDestination(d)
         \/ ClearDestinations
  PROVE  UdpInv' /\ FilterStep
<1> DEFINE h == destinations
<1>1. OwnTable(h, Destinations) /\ S!Elements(h) = asked BY DEF UdpInv, TablesInv
<1>2. ASSUME NEW d \in Destinations, AddDestination(d) PROVE UdpInv' /\ FilterStep
  <2> DEFINE g == S!AddElement(h, d)
             now == IF d \in ToSet(asked) THEN asked ELSE Append(asked, d)
  <2>1. HasElement(h, d) \/ Cardinality(DOMAIN h.elem) < Cardinality(Heap)
    BY <1>2, SameTables, RoomForAll DEF AddDestination, UdpInv
  <2>2. OwnTable(g, Destinations) /\ S!Elements(g) = now
    <3>1. /\ OwnTable(S!AddElement(h, d), Destinations)
          /\ S!Elements(S!AddElement(h, d)) =
               IF d \in ToSet(S!Elements(h)) THEN S!Elements(h) ELSE Append(S!Elements(h), d)
      BY <1>1, <2>1, OwnAdded
    <3> QED BY <1>1, <3>1
  <2>3. OnDestinations(g, now) BY <1>2 DEF AddDestination
  <2> QED BY <2>2, <2>3, DestinationsChange
<1>3. ASSUME NEW d \in Destinations, DeleteDestination(d) PROVE UdpInv' /\ FilterStep
  <2> DEFINE g == S!DeleteElement(h, d)
  <2>1. /\ OwnTable(S!DeleteElement(h, d), Destinations)
        /\ S!Elements(S!DeleteElement(h, d)) = Without(S!Elements(h), d)
    <3>1. d \in Keys BY KeysKnown
    <3> QED BY <1>1, <3>1, OwnDeleted, Zenon
  <2>2. OnDestinations(S!DeleteElement(h, d), Without(asked, d)) BY <1>3 DEF DeleteDestination
  <2> QED BY <1>1, <2>1, <2>2, DestinationsChange
<1>4. ASSUME ClearDestinations PROVE UdpInv' /\ FilterStep
  <2>1. OnDestinations(EmptyHashTable, << >>) BY <1>4, SameTables DEF ClearDestinations
  <2> QED BY <2>1, KeysKnown, OwnEmpty, DestinationsChange
<1> QED BY <1>2, <1>3, <1>4

(* Groups: the kernel and the table agree also after a socket failed to join.*)
LEMMA GroupsChange ==
  ASSUME UdpInv, NEW h, NEW m, OnGroups(h, m), OwnTable(h, Groups),
         m = [s \in Sock |-> {g \in Groups : HasElement(h, g)}]
  PROVE  UdpInv' /\ FilterStep
<1>1. /\ multicastgroups' = h /\ membership' = m
      /\ UNCHANGED <<created, receivemode, acceptignoreinfo, destinations, asked, sockets,
                     rawpacketlist, waiter, aborted, pipe, destroying>>
  BY DEF OnGroups, waits
<1>2. TablesInv' BY <1>1, Zenon DEF UdpInv, TablesInv
<1>3. PacketsInv' BY <1>1 DEF UdpInv, PacketsInv
<1>4. WaitsInv' BY <1>1 DEF UdpInv, WaitsInv, AbortReadable
<1> QED BY <1>1, <1>2, <1>3, <1>4, SameFilter DEF UdpInv

(* JoinMulticastGroup, when both sockets join, and when one does not.        *)
LEMMA GroupIsJoined ==
  ASSUME UdpInv, NEW g \in Groups, NEW ok \in [Sock -> BOOLEAN], JoinMulticastGroup(g, ok)
  PROVE  UdpInv' /\ FilterStep
<1> DEFINE h == multicastgroups
           added == S!AddElement(h, g)
           f == S!DeleteElement(added, g)
           first == Joined(membership, "rtp", g)
<1>1. OwnTable(h, Groups) /\ membership = [s \in Sock |-> {x \in Groups : HasElement(h, x)}]
  BY DEF UdpInv, TablesInv
<1>2. \A k : S!HasElement(h, k) <=> HasElement(h, k) BY SameTables
<1>3. HasElement(h, g) \/ Cardinality(DOMAIN h.elem) < Cardinality(Heap)
  BY <1>2, RoomForAll DEF JoinMulticastGroup, UdpInv
<1>4. /\ OwnTable(added, Groups)
      /\ \A j \in Keys : HasElement(added, j) <=> HasElement(h, j) \/ j = g
  BY <1>1, <1>3, OwnAdded, Zenon
<1>5. CASE HasElement(h, g)
  <2>1. OnGroups(h, membership) BY <1>2, <1>5 DEF JoinMulticastGroup
  <2> QED BY <1>1, <2>1, GroupsChange
<1>6. /\ OwnTable(f, Groups)
      /\ \A j \in Keys : HasElement(f, j) <=> HasElement(added, j) /\ j # g
  <2> HIDE DEF added
  <2>1. g \in Keys BY KeysKnown
  <2> QED BY <1>4, <2>1, OwnDeleted, Zenon
<1>7. CASE ~HasElement(h, g)
  <2> DEFINE both == Joined(first, "rtcp", g)  none == Left(first, "rtp", g)
  <2>1. \/ OnGroups(f, membership) \/ OnGroups(f, none) \/ OnGroups(added, both)
    BY <1>2, <1>7, Zenon DEF JoinMulticastGroup
  <2>2. \A s \in Sock : g \notin membership[s] BY <1>1, <1>7
  <2>3. none = membership BY <1>1, <2>2 DEF Joined, Left, Sock
  <2>4. both = [s \in Sock |-> membership[s] \union {g}] BY <1>1 DEF Joined, Sock
  <2> HIDE DEF added, f, both, none
  <2>5. both = [s \in Sock |-> {x \in Groups : HasElement(added, x)}]
    BY <1>1, <1>4, <2>4, KeysKnown
  <2>6. membership = [s \in Sock |-> {x \in Groups : HasElement(f, x)}]
    BY <1>1, <1>4, <1>6, <1>7, KeysKnown
  <2>7. CASE OnGroups(f, membership) BY <1>6, <2>6, <2>7, GroupsChange
  <2>8. CASE OnGroups(added, both) BY <1>4, <2>5, <2>8, GroupsChange
  <2> QED BY <2>1, <2>3, <2>7, <2>8
<1> QED BY <1>5, <1>7

(* LeaveMulticastGroup, LeaveAllMulticastGroups.                             *)
LEMMA GroupsAreLeft ==
  ASSUME UdpInv, (\E g \in Groups : LeaveMulticastGroup(g)) \/ LeaveAllMulticastGroups
  PROVE  UdpInv' /\ FilterStep
<1> DEFINE h == multicastgroups
<1>1. OwnTable(h, Groups) /\ membership = [s \in Sock |-> {x \in Groups : HasElement(h, x)}]
  BY DEF UdpInv, TablesInv
<1>2. \A k : S!HasElement(h, k) <=> HasElement(h, k) BY SameTables
<1>3. ASSUME NEW g \in Groups, LeaveMulticastGroup(g) PROVE UdpInv' /\ FilterStep
  <2> DEFINE f == S!DeleteElement(h, g)
             m == IF HasElement(h, g) THEN [s \in Sock |-> membership[s] \ {g}] ELSE membership
  <2>1. OnGroups(f, m) BY <1>2, <1>3 DEF LeaveMulticastGroup
  <2>2. /\ OwnTable(f, Groups)
        /\ \A j \in Keys : HasElement(f, j) <=> HasElement(h, j) /\ j # g
    <3>1. g \in Keys BY KeysKnown
    <3> QED BY <1>1, <3>1, OwnDeleted, Zenon
  <2> HIDE DEF f
  <2>3. m = [s \in Sock |-> {x \in Groups : HasElement(f, x)}] BY <1>1, <2>2, KeysKnown
  <2> QED BY <2>1, <2>2, <2>3, GroupsChange
<1>4. ASSUME LeaveAllMulticastGroups PROVE UdpInv' /\ FilterStep
  <2> DEFINE left == ToSet(S!Elements(h))  m == [s \in Sock |-> membership[s] \ left]
  <2>1. OnGroups(EmptyHashTable, m) BY <1>4, SameTables DEF LeaveAllMulticastGroups
  <2>2. \A k \in Keys : HasElement(h, k) <=> k \in left
    BY <1>1, ListedOnce DEF OwnTable
  <2>3. OwnTable(EmptyHashTable, Groups) /\ \A k \in Keys : ~HasElement(EmptyHashTable, k)
    BY KeysKnown, OwnEmpty
  <2> HIDE DEF left
  <2>4. m = [s \in Sock |-> {x \in Groups : HasElement(EmptyHashTable, x)}]
    BY <1>1, <2>2, <2>3, KeysKnown
  <2> QED BY <2>1, <2>3, <2>4, GroupsChange
<1> QED BY <1>3, <1>4

(* Packets. *)
LEMMA PacketsMove ==
  ASSUME UdpInv, PacketsInv',
         UNCHANGED <<created, receivemode, tables, membership, waits>>
  PROVE  UdpInv' /\ FilterStep
<1>1. TablesInv' BY Zenon DEF UdpInv, TablesInv, tables
<1>2. WaitsInv' BY DEF UdpInv, WaitsInv, AbortReadable, waits
<1>3. FilterStep BY SameFilter DEF tables
<1> QED BY <1>1, <1>2, <1>3 DEF UdpInv

(* How many datagrams are read of a socket, and how many are looked at.      *)
LEMMA PollIs ==
  ASSUME PacketsInv, NEW s \in Sock, NEW r \in PollSocket(s)
  PROVE  /\ r.read \in 0 .. Len(sockets[s]) /\ r.listed \in 0 .. Len(sockets[s])
         /\ r.ok => r.read = Len(sockets[s]) /\ r.listed = r.read
         /\ \/ r.listed = r.read /\ (r.read = Len(sockets[s]) \/ sockets[s][r.read + 1] = Empty)
            \/ /\ r.listed = r.read - 1
               /\ sockets[s][r.read] \in Acceptable(acceptignoreinfo, receivemode)
<1> DEFINE q == sockets[s]
<1>1. sockets[s] \in Seq(Datagrams) BY DEF PacketsInv
<1>2. Len(q) \in Nat /\ DOMAIN q = 1 .. Len(q) BY <1>1
<1>3. \/ r = [read |-> Len(q), listed |-> Len(q), ok |-> TRUE]
      \/ \E n \in 0 .. Len(q) : /\ n = Len(q) \/ q[n + 1] = Empty
                               /\ r = [read |-> n, listed |-> n, ok |-> FALSE]
      \/ \E n \in DOMAIN q : /\ q[n] \in Acceptable(acceptignoreinfo, receivemode)
                            /\ r = [read |-> n, listed |-> n - 1, ok |-> FALSE]
  BY DEF PollSocket
<1> HIDE DEF q
<1>4. CASE r = [read |-> Len(q), listed |-> Len(q), ok |-> TRUE] BY <1>2, <1>4 DEF q
<1>5. ASSUME NEW n \in 0 .. Len(q), n = Len(q) \/ q[n + 1] = Empty,
             r = [read |-> n, listed |-> n, ok |-> FALSE]
      PROVE  /\ r.read = n /\ r.listed = n /\ ~r.ok
    BY <1>5
<1>6. ASSUME NEW n \in 1 .. Len(q), q[n] \in Acceptable(acceptignoreinfo, receivemode),
             r = [read |-> n, listed |-> n - 1, ok |-> FALSE]
      PROVE  /\ r.read = n /\ r.listed = n - 1 /\ ~r.ok /\ n - 1 \in 0 .. Len(q)
             /\ n \in 0 .. Len(q)
    BY <1>2, <1>6
<1> QED BY <1>2, <1>3, <1>4, <1>5, <1>6 DEF q

(* What is accepted of the datagrams looked at.                              *)
LEMMA TakenIs ==
  ASSUME PacketsInv, NEW s \in Sock, NEW n \in 0 .. Len(sockets[s])
  PROVE  /\ Taken(s, n) \in Seq(Sock \X (IPs \X Ports))
         /\ \A i \in 1 .. Len(Taken(s, n)) : Taken(s, n)[i] \in {s} \X (IPs \X Ports)
         /\ SubSeq(sockets[s], 1, n) \in Seq(Datagrams)
         /\ Rest(sockets[s], n) \in Seq(Datagrams)
<1> DEFINE A == IPs \X Ports
           good == Acceptable(acceptignoreinfo, receivemode)
           q == SubSeq(sockets[s], 1, n)
           taken == Picked(q, good)
<1>1. sockets[s] \in Seq(Datagrams) BY DEF PacketsInv
<1>2. q \in Seq(Datagrams) /\ Rest(sockets[s], n) \in Seq(Datagrams) BY <1>1 DEF Rest
<1> HIDE DEF q
<1>3. taken \in Seq(Datagrams \cap good) BY <1>2, PickedIs
<1>4. good \subseteq A BY DEF Acceptable
<1> HIDE DEF taken, good
<1>5. DOMAIN taken = 1 .. Len(taken) /\ Len(taken) \in Nat
      /\ \A i \in 1 .. Len(taken) : taken[i] \in A
  BY <1>3, <1>4
<1> DEFINE l == [i \in DOMAIN taken |-> <<s, taken[i]>>]
<1>6. /\ l \in Seq(Sock \X A) /\ Len(l) = Len(taken)
      /\ \A i \in 1 .. Len(l) : l[i] \in {s} \X A
  BY <1>5
<1>7. Taken(s, n) = l BY DEF Taken, taken, good, q
<1> QED BY <1>2, <1>6, <1>7 DEF q

(* What a poll reads: a of the RTP socket and c of the RTCP socket.          *)
Polled(a, c) ==
  /\ rawpacketlist' = rawpacketlist \o Taken("rtp", a.listed) \o Taken("rtcp", c.listed)
  /\ sockets' = [s \in Sock |-> Rest(sockets[s], IF s = "rtp" THEN a.read ELSE c.read)]
  /\ a.read \in 0 .. Len(sockets["rtp"]) /\ a.listed \in 0 .. Len(sockets["rtp"])
  /\ c.read \in 0 .. Len(sockets["rtcp"]) /\ c.listed \in 0 .. Len(sockets["rtcp"])
  /\ a \in PollSocket("rtp")
  /\ \/ c.read = 0 /\ c.listed = 0
     \/ /\ a.read = Len(sockets["rtp"]) /\ a.listed = a.read
        /\ c \in PollSocket("rtcp")

LEMMA PollReads ==
  ASSUME PacketsInv, Poll
  PROVE  \E a, c : Polled(a, c)
<1>1. PICK a \in PollSocket("rtp") :
        \E c \in IF a.ok THEN PollSocket("rtcp") ELSE {Unpolled} :
          /\ rawpacketlist' = rawpacketlist \o Taken("rtp", a.listed) \o Taken("rtcp", c.listed)
          /\ sockets' = [s \in Sock |-> Rest(sockets[s], IF s = "rtp" THEN a.read ELSE c.read)]
  BY Zenon DEF Poll
<1>2. PICK c \in IF a.ok THEN PollSocket("rtcp") ELSE {Unpolled} :
          /\ rawpacketlist' = rawpacketlist \o Taken("rtp", a.listed) \o Taken("rtcp", c.listed)
          /\ sockets' = [s \in Sock |-> Rest(sockets[s], IF s = "rtp" THEN a.read ELSE c.read)]
  BY <1>1, Zenon
<1>3. /\ a.read \in 0 .. Len(sockets["rtp"]) /\ a.listed \in 0 .. Len(sockets["rtp"])
      /\ a.ok => a.read = Len(sockets["rtp"]) /\ a.listed = a.read
  BY PollIs DEF Sock
<1>4. CASE a.ok
  <2>1. c \in PollSocket("rtcp") BY <1>2, <1>4
  <2>2. c.read \in 0 .. Len(sockets["rtcp"]) /\ c.listed \in 0 .. Len(sockets["rtcp"])
    BY <2>1, PollIs DEF Sock
  <2>3. Polled(a, c) BY <1>2, <1>3, <1>4, <2>1, <2>2, Zenon DEF Polled
  <2> QED BY <2>3, Zenon
<1>5. CASE ~a.ok
  <2>1. c.read = 0 /\ c.listed = 0 BY <1>2, <1>5 DEF Unpolled
  <2>2. Len(sockets["rtcp"]) \in Nat BY DEF PacketsInv, Sock
  <2>3. c.read \in 0 .. Len(sockets["rtcp"]) /\ c.listed \in 0 .. Len(sockets["rtcp"])
    BY <2>1, <2>2
  <2>4. Polled(a, c) BY <1>2, <1>3, <2>1, <2>3, Zenon DEF Polled
  <2> QED BY <2>4, Zenon
<1> QED BY <1>4, <1>5

(* Packets arrive, are polled and are handed over.                           *)
LEMMA PacketsPass ==
  ASSUME UdpInv,
         \/ \E s \in Sock, datagram \in Datagrams : Arrives(s, datagram)
         \/ Poll \/ GetNextPacket
  PROVE  UdpInv' /\ FilterStep
<1>1. UNCHANGED <<created, receivemode, tables, membership, waits>>
  BY DEF Arrives, Poll, GetNextPacket, kernel
<1>2. PacketsInv'
  <2>1. /\ sockets \in [Sock -> Seq(Datagrams)]
        /\ rawpacketlist \in Seq(Sock \X (IPs \X Ports))
    BY DEF UdpInv, PacketsInv
  <2>2. ASSUME NEW s \in Sock, NEW datagram \in Datagrams, Arrives(s, datagram)
        PROVE  PacketsInv'
    <3>1. Append(sockets[s], datagram) \in Seq(Datagrams) BY <2>1
    <3> QED BY <2>1, <2>2, <3>1 DEF Arrives, PacketsInv
  <2>3. ASSUME Poll PROVE PacketsInv'
    <3>1. PICK a, c : Polled(a, c) BY <2>3, PollReads DEF UdpInv
    <3>2. /\ Taken("rtp", a.listed) \in Seq(Sock \X (IPs \X Ports))
          /\ Taken("rtcp", c.listed) \in Seq(Sock \X (IPs \X Ports))
          /\ Rest(sockets["rtp"], a.read) \in Seq(Datagrams)
          /\ Rest(sockets["rtcp"], c.read) \in Seq(Datagrams)
      BY <3>1, TakenIs, Zenon DEF Polled, UdpInv, Sock
    <3> DEFINE p == Taken("rtp", a.listed)  q == Taken("rtcp", c.listed)
    <3> HIDE DEF p, q
    <3>3. rawpacketlist' = rawpacketlist \o p \o q BY <3>1 DEF Polled, p, q
    <3>4. p \in Seq(Sock \X (IPs \X Ports)) /\ q \in Seq(Sock \X (IPs \X Ports))
      BY <3>2 DEF p, q
    <3>5. sockets' \in [Sock -> Seq(Datagrams)] BY <3>1, <3>2 DEF Polled, Sock
    <3> QED BY <2>1, <3>3, <3>4, <3>5 DEF PacketsInv
  <2>4. ASSUME GetNextPacket PROVE PacketsInv'
    BY <2>1, <2>4 DEF GetNextPacket, PacketsInv, kernel
  <2> QED BY <2>2, <2>3, <2>4
<1> QED BY <1>1, <1>2, PacketsMove

(* Every step keeps the invariant and changes the selection as it should.    *)
LEMMA UdpNext ==
  ASSUME UdpInv, [Next]_vars
  PROVE  UdpInv' /\ FilterStep
<1>1. ASSUME UNCHANGED vars PROVE UdpInv' /\ FilterStep
  <2>1. UNCHANGED <<created, receivemode, tables, membership, sockets, rawpacketlist, waits>>
    BY <1>1 DEF vars, kernel
  <2>2. PacketsInv' BY <2>1 DEF UdpInv, PacketsInv
  <2> QED BY <2>1, <2>2, PacketsMove
<1>2. ASSUME Next PROVE UdpInv' /\ FilterStep
  BY <1>2, IsCreated, IsDestroyed, WaiterMoves, ListOfDestinations, GroupIsJoined,
     GroupsAreLeft, ModeIsSet, AddressIsAdded, AddressIsDeleted, ListIsCleared, PacketsPass,
     Zenon
  DEF Next
<1> QED BY <1>1, <1>2

(* The constructor.                                                          *)
LEMMA UdpInit == Init => UdpInv /\ Filter!SInit
<1> SUFFICES ASSUME Init PROVE UdpInv /\ Filter!SInit OBVIOUS
<1>1. /\ acceptignoreinfo = EmptyHashTable /\ destinations = EmptyHashTable
      /\ multicastgroups = EmptyHashTable /\ asked = << >>
  BY SameTables DEF Init
<1>2. TablesInv
  <2>1. HostTable(acceptignoreinfo) BY <1>1, EmptySelectsNone
  <2>2. OwnTable(destinations, Destinations) /\ S!Elements(destinations) = asked
    BY <1>1, KeysKnown, OwnEmpty
  <2>3. OwnTable(multicastgroups, Groups) BY <1>1, KeysKnown, OwnEmpty
  <2>4. membership = [s \in Sock |-> {g \in Groups : HasElement(multicastgroups, g)}]
    <3>1. \A g \in Groups : ~HasElement(multicastgroups, g) BY <1>1, KeysKnown, OwnEmpty
    <3> QED BY <3>1 DEF Init
  <2>5. receivemode = "AcceptAll" BY DEF Init
  <2> QED BY <1>1, <2>1, <2>2, <2>3, <2>4, <2>5, Zenon DEF TablesInv
<1>3. PacketsInv BY DEF Init, PacketsInv
<1>4. WaitsInv
  <2>1. PICK room \in Nat \ {0} : room = PipeRoom BY TransmitterAssumption
  <2>2. /\ ~created /\ ~destroying /\ ~aborted /\ waiter = "no" /\ pipe = 0
        /\ created \in BOOLEAN /\ destroying \in BOOLEAN /\ aborted \in BOOLEAN
    BY DEF Init
  <2>3. pipe \in 0 .. PipeRoom + 1 BY <2>1, <2>2
  <2> QED BY <2>2, <2>3 DEF WaitsInv, AbortReadable
<1>5. Filter!SInit BY <1>1, EmptySelectsNone DEF Init, Filter!SInit, Selected
<1> QED BY <1>2, <1>3, <1>4, <1>5 DEF UdpInv

-----------------------------------------------------------------------------
(* RTPUDPv6Transmitter: its tables are those of RTPUDPv4Transmitter.         *)
LEMMA SixFind == \A h, k : V6!V4!Find(h, k) = Find(h, k)
<1> TAKE h, k
<1> QED
  BY Zenon DEF V6!V4!Find, Find, V6!V4!Chain, Chain, V6!V4!Reached, Reached, V6!V4!Walk, Walk,
               V6!V4!Cardinality, Cardinality

(* So is a lookup in its tables of keys alone,                               *)
LEMMA SixFindsKey == \A h, k : V6!V4!S!K!Find(h, k) = S!K!Find(h, k)
<1> TAKE h, k
<1> QED
  BY Zenon DEF V6!V4!S!K!Find, S!K!Find, V6!V4!S!K!Chain, S!K!Chain, V6!V4!S!K!Reached, S!K!Reached,
               V6!V4!S!K!Walk, S!K!Walk, V6!V4!S!K!Cardinality, S!K!Cardinality

(* are the changes to the list of addresses,                                 *)
LEMMA SixEntries ==
  \A h, ip, port :
    /\ V6!V4!HasElement(h, ip) <=> HasElement(h, ip)
    /\ V6!V4!ProcessAddAcceptIgnoreEntry(h, ip, port) =
         ProcessAddAcceptIgnoreEntry(h, ip, port)
    /\ V6!V4!ProcessDeleteAcceptIgnoreEntry(h, ip, port) =
         ProcessDeleteAcceptIgnoreEntry(h, ip, port)
<1>1. \A h, k : V6!V4!HasElement(h, k) <=> HasElement(h, k)
  BY SixFind DEF V6!V4!HasElement, HasElement
<1>2. \A h, k : V6!V4!Element(h, k) = Element(h, k) BY SixFind DEF V6!V4!Element, Element
<1>3. \A h : V6!V4!NewAddress(h) = NewAddress(h) BY Zenon DEF V6!V4!NewAddress, NewAddress
<1>4. ASSUME NEW h, NEW k, NEW v PROVE V6!V4!AddElement(h, k, v) = AddElement(h, k, v)
  <2>1. CASE HasElement(h, k) BY <1>1, <2>1 DEF V6!V4!AddElement, AddElement
  <2>2. CASE ~HasElement(h, k) BY <1>1, <1>3, <2>2 DEF V6!V4!AddElement, AddElement
  <2> QED BY <2>1, <2>2
<1>5. \A h, k, v : V6!V4!SetElement(h, k, v) = SetElement(h, k, v)
  BY SixFind DEF V6!V4!SetElement, SetElement
<1>6. \A inf, port : V6!V4!Added(inf, port) = Added(inf, port)
  BY Zenon DEF V6!V4!Added, Added, V6!V4!PortInfo, PortInfo
<1>7. \A inf, port : V6!V4!Deleted(inf, port) = Deleted(inf, port)
  BY Zenon DEF V6!V4!Deleted, Deleted
<1>8. \A port : V6!V4!PortInfo(port) = PortInfo(port) BY Zenon DEF V6!V4!PortInfo, PortInfo
<1>9. \A h, ip, port : V6!V4!ProcessAddAcceptIgnoreEntry(h, ip, port) =
                         ProcessAddAcceptIgnoreEntry(h, ip, port)
  BY <1>1, <1>2, <1>4, <1>5, <1>6, <1>8
  DEF V6!V4!ProcessAddAcceptIgnoreEntry, ProcessAddAcceptIgnoreEntry
<1>10. \A h, ip, port : V6!V4!ProcessDeleteAcceptIgnoreEntry(h, ip, port) =
                          ProcessDeleteAcceptIgnoreEntry(h, ip, port)
  BY <1>1, <1>2, <1>5, <1>7
  DEF V6!V4!ProcessDeleteAcceptIgnoreEntry, ProcessDeleteAcceptIgnoreEntry
<1> QED BY <1>1, <1>9, <1>10

(* and those to the other tables.                                            *)
LEMMA SixTables ==
  \A h, k :
    /\ V6!V4!S!HasElement(h, k) <=> S!HasElement(h, k)
    /\ V6!V4!S!AddElement(h, k) = S!AddElement(h, k)
    /\ V6!V4!S!DeleteElement(h, k) = S!DeleteElement(h, k)
    /\ V6!V4!S!Clear(h) = S!Clear(h) /\ V6!V4!Clear(h) = Clear(h)
    /\ V6!V4!Without(h, k) = Without(h, k)
    /\ V6!V4!Allocated = Allocated
<1>1. \A h, k : V6!V4!S!HasElement(h, k) <=> S!HasElement(h, k)
  BY SixFindsKey DEF V6!V4!S!HasElement, S!HasElement, V6!V4!S!K!HasElement, S!K!HasElement
<1>2. \A h : V6!V4!S!K!NewAddress(h) = S!K!NewAddress(h)
  BY Zenon DEF V6!V4!S!K!NewAddress, S!K!NewAddress
<1>3. ASSUME NEW h, NEW k PROVE V6!V4!S!AddElement(h, k) = S!AddElement(h, k)
  <2> USE DEF V6!V4!S!AddElement, S!AddElement, V6!V4!S!K!AddElement, S!K!AddElement
  <2>1. V6!V4!S!K!HasElement(h, k) <=> S!K!HasElement(h, k)
    BY SixFindsKey DEF V6!V4!S!K!HasElement, S!K!HasElement
  <2>2. CASE S!K!HasElement(h, k) BY <2>1, <2>2
  <2>3. CASE ~S!K!HasElement(h, k) BY <1>2, <2>1, <2>3
  <2> QED BY <2>2, <2>3
<1>4. \A h, e : V6!V4!S!K!DeleteCurrentElement(h, e) = S!K!DeleteCurrentElement(h, e)
  BY Zenon DEF V6!V4!S!K!DeleteCurrentElement, S!K!DeleteCurrentElement
<1>5. \A h, k : V6!V4!S!DeleteElement(h, k) = S!DeleteElement(h, k)
  BY <1>4, SixFindsKey
  DEF V6!V4!S!DeleteElement, S!DeleteElement, V6!V4!S!K!DeleteElement, S!K!DeleteElement,
      V6!V4!S!K!HasElement, S!K!HasElement
<1>6. \A h : V6!V4!S!Clear(h) = S!Clear(h) /\ V6!V4!Clear(h) = Clear(h)
  BY Zenon DEF V6!V4!S!Clear, S!Clear, V6!V4!S!K!Clear, S!K!Clear, V6!V4!Clear, Clear,
               V6!V4!S!K!EmptyHashTable, S!K!EmptyHashTable, V6!V4!EmptyHashTable, EmptyHashTable
<1>7. \A q, k : V6!V4!Without(q, k) = Without(q, k)
  BY Zenon DEF V6!V4!Without, Without, V6!V4!ToSet, ToSet, V6!V4!RemoveAt, RemoveAt
<1>8. V6!V4!Allocated = Allocated
  BY Zenon DEF V6!V4!Allocated, Allocated, V6!V4!Cardinality, Cardinality
<1> QED BY <1>1, <1>3, <1>5, <1>6, <1>7, <1>8

(* Its methods are the ones there.                                           *)
LEMMA SixMethods == V6!Next => Next
<1> USE DEF V6!V4!tables, tables, V6!V4!kernel, kernel, V6!V4!waits, waits, V6!V4!Sock, Sock
<1>1. \A h, x : V6!V4!OnDestinations(h, x) => OnDestinations(h, x)
  BY Zenon DEF V6!V4!OnDestinations, OnDestinations
<1>2. \A m, h : V6!V4!OnFilter(m, h) => OnFilter(m, h) BY Zenon DEF V6!V4!OnFilter, OnFilter
<1>3. V6!Create => Create BY Zenon DEF V6!Create, V6!V4!Create, Create
<1>4. V6!V4!Destroy => Destroy
  BY SixTables, Zenon DEF V6!V4!Destroy, Destroy, V6!V4!FlushPackets, FlushPackets
<1>5. \A d : V6!AddDestination(d) => AddDestination(d)
  BY <1>1, SixTables DEF V6!AddDestination, V6!V4!AddDestination, AddDestination, V6!V4!ToSet, ToSet
<1>6. \A d : V6!DeleteDestination(d) => DeleteDestination(d)
  BY <1>1, SixTables DEF V6!DeleteDestination, V6!V4!DeleteDestination, DeleteDestination
<1>7. V6!ClearDestinations => ClearDestinations
  BY <1>1, SixTables DEF V6!ClearDestinations, V6!V4!ClearDestinations, ClearDestinations
<1>8. \A m : V6!SetReceiveMode(m) => SetReceiveMode(m)
  BY <1>2, SixTables DEF V6!SetReceiveMode, V6!V4!SetReceiveMode, SetReceiveMode
<1>9. \A ip, port : V6!AddToIgnoreList(ip, port) => AddToIgnoreList(ip, port)
  BY <1>2, SixEntries, SixTables
  DEF V6!AddToIgnoreList, V6!V4!AddToIgnoreList, AddToIgnoreList, V6!V4!CanAdd, CanAdd
<1>10. \A ip, port : V6!DeleteFromIgnoreList(ip, port) => DeleteFromIgnoreList(ip, port)
  BY <1>2, SixEntries DEF V6!DeleteFromIgnoreList, V6!V4!DeleteFromIgnoreList, DeleteFromIgnoreList
<1>11. \A ip, port : V6!AddToAcceptList(ip, port) => AddToAcceptList(ip, port)
  BY <1>2, SixEntries, SixTables
  DEF V6!AddToAcceptList, V6!V4!AddToAcceptList, AddToAcceptList, V6!V4!CanAdd, CanAdd
<1>12. \A ip, port : V6!DeleteFromAcceptList(ip, port) => DeleteFromAcceptList(ip, port)
  BY <1>2, SixEntries DEF V6!DeleteFromAcceptList, V6!V4!DeleteFromAcceptList, DeleteFromAcceptList
<1>13. (V6!ClearIgnoreList => ClearIgnoreList) /\ (V6!ClearAcceptList => ClearAcceptList)
  BY <1>2, SixTables
  DEF V6!ClearIgnoreList, V6!V4!ClearIgnoreList, ClearIgnoreList,
      V6!ClearAcceptList, V6!V4!ClearAcceptList, ClearAcceptList,
      V6!V4!ClearAcceptIgnoreInfo, ClearAcceptIgnoreInfo
<1>14. V6!GetNextPacket => GetNextPacket
  BY Zenon DEF V6!GetNextPacket, V6!V4!GetNextPacket, GetNextPacket
<1>15. (V6!Destroy => Destroy) /\ (V6!DestroyReturns => DestroyReturns)
  BY <1>4, Zenon DEF V6!Destroy, V6!DestroyReturns, V6!V4!DestroyReturns, DestroyReturns
<1>16. /\ V6!WaitForIncomingData => WaitForIncomingData
       /\ V6!SelectReturns => SelectReturns
       /\ V6!WaitReturns => WaitReturns
       /\ V6!AbortWait => AbortWait
  BY Zenon DEF V6!WaitForIncomingData, V6!V4!WaitForIncomingData, WaitForIncomingData,
               V6!SelectReturns, V6!V4!SelectReturns, SelectReturns,
               V6!WaitReturns, V6!V4!WaitReturns, WaitReturns,
               V6!AbortWait, V6!V4!AbortWait, AbortWait
<1>17. \A h, x : V6!V4!OnGroups(h, x) => OnGroups(h, x) BY Zenon DEF V6!V4!OnGroups, OnGroups
<1>18. \A g, ok : V6!JoinMulticastGroup(g, ok) => JoinMulticastGroup(g, ok)
  BY <1>17, SixTables, Zenon
  DEF V6!JoinMulticastGroup, V6!V4!JoinMulticastGroup, JoinMulticastGroup,
      V6!V4!Joined, Joined, V6!V4!Left, Left
<1>19. \A g : V6!LeaveMulticastGroup(g) => LeaveMulticastGroup(g)
  BY <1>17, SixTables DEF V6!LeaveMulticastGroup, V6!V4!LeaveMulticastGroup, LeaveMulticastGroup
<1>20. V6!LeaveAllMulticastGroups => LeaveAllMulticastGroups
  BY Zenon DEF V6!LeaveAllMulticastGroups, V6!V4!LeaveAllMulticastGroups, LeaveAllMulticastGroups,
       V6!V4!OnGroups, OnGroups, V6!V4!ToSet, ToSet, V6!V4!S!Elements, S!Elements,
       V6!V4!S!K!Walk, S!K!Walk, V6!V4!S!Cardinality, S!Cardinality, V6!V4!S!K!Cardinality, S!K!Cardinality,
       V6!V4!S!Clear, S!Clear, V6!V4!S!K!Clear, S!K!Clear, V6!V4!S!K!EmptyHashTable, S!K!EmptyHashTable
<1>21. \A s, datagram : V6!Arrives(s, datagram) => Arrives(s, datagram)
  BY SixTables, Zenon DEF V6!Arrives, V6!V4!Arrives, Arrives
<1>22. V6!Poll => Poll
  BY Zenon DEF V6!Poll, V6!V4!Poll, Poll, V6!V4!PollSocket, PollSocket, V6!V4!Picked, Picked,
               V6!V4!Taken, Taken, V6!V4!Rest, Rest, V6!V4!Unpolled, Unpolled, V6!V4!Empty, Empty,
               V6!V4!PickedUpTo, PickedUpTo, V6!V4!Acceptable, Acceptable,
               V6!V4!ShouldAcceptData, ShouldAcceptData, V6!V4!Selects, Selects,
               V6!V4!HasElement, HasElement, V6!V4!Element, Element, V6!V4!Find, Find, V6!V4!Chain, Chain,
               V6!V4!Reached, Reached, V6!V4!Walk, Walk, V6!V4!Cardinality, Cardinality
<1> QED
  BY <1>3, <1>5, <1>6, <1>7, <1>8, <1>9, <1>10, <1>11, <1>12, <1>13, <1>14, <1>15, <1>16,
     <1>18, <1>19, <1>20, <1>21, <1>22, Zenon
  DEF V6!Next, Next, V6!V4!Datagrams, Datagrams, V6!V4!Empty, Empty

-----------------------------------------------------------------------------
(* RTPFakeTransmitter: so are its tables, and the methods it shares.         *)
LEMMA FakeFind == \A h, k : Fake!V4!Find(h, k) = Find(h, k)
<1> TAKE h, k
<1> QED
  BY Zenon DEF Fake!V4!Find, Find, Fake!V4!Chain, Chain, Fake!V4!Reached, Reached, Fake!V4!Walk, Walk,
               Fake!V4!Cardinality, Cardinality

(* A lookup in its tables of keys alone,                                     *)
LEMMA FakeFindsKey == \A h, k : Fake!V4!S!K!Find(h, k) = S!K!Find(h, k)
<1> TAKE h, k
<1> QED
  BY Zenon DEF Fake!V4!S!K!Find, S!K!Find, Fake!V4!S!K!Chain, S!K!Chain, Fake!V4!S!K!Reached, S!K!Reached,
               Fake!V4!S!K!Walk, S!K!Walk, Fake!V4!S!K!Cardinality, S!K!Cardinality

(* the changes to the list of addresses,                                     *)
LEMMA FakeEntries ==
  \A h, ip, port :
    /\ Fake!V4!HasElement(h, ip) <=> HasElement(h, ip)
    /\ Fake!V4!ProcessAddAcceptIgnoreEntry(h, ip, port) =
         ProcessAddAcceptIgnoreEntry(h, ip, port)
    /\ Fake!V4!ProcessDeleteAcceptIgnoreEntry(h, ip, port) =
         ProcessDeleteAcceptIgnoreEntry(h, ip, port)
<1>1. \A h, k : Fake!V4!HasElement(h, k) <=> HasElement(h, k)
  BY FakeFind DEF Fake!V4!HasElement, HasElement
<1>2. \A h, k : Fake!V4!Element(h, k) = Element(h, k) BY FakeFind DEF Fake!V4!Element, Element
<1>3. \A h : Fake!V4!NewAddress(h) = NewAddress(h) BY Zenon DEF Fake!V4!NewAddress, NewAddress
<1>4. ASSUME NEW h, NEW k, NEW v PROVE Fake!V4!AddElement(h, k, v) = AddElement(h, k, v)
  <2>1. CASE HasElement(h, k) BY <1>1, <2>1 DEF Fake!V4!AddElement, AddElement
  <2>2. CASE ~HasElement(h, k) BY <1>1, <1>3, <2>2 DEF Fake!V4!AddElement, AddElement
  <2> QED BY <2>1, <2>2
<1>5. \A h, k, v : Fake!V4!SetElement(h, k, v) = SetElement(h, k, v)
  BY FakeFind DEF Fake!V4!SetElement, SetElement
<1>6. \A inf, port : Fake!V4!Added(inf, port) = Added(inf, port)
  BY Zenon DEF Fake!V4!Added, Added, Fake!V4!PortInfo, PortInfo
<1>7. \A inf, port : Fake!V4!Deleted(inf, port) = Deleted(inf, port)
  BY Zenon DEF Fake!V4!Deleted, Deleted
<1>8. \A port : Fake!V4!PortInfo(port) = PortInfo(port) BY Zenon DEF Fake!V4!PortInfo, PortInfo
<1>9. \A h, ip, port : Fake!V4!ProcessAddAcceptIgnoreEntry(h, ip, port) =
                         ProcessAddAcceptIgnoreEntry(h, ip, port)
  BY <1>1, <1>2, <1>4, <1>5, <1>6, <1>8
  DEF Fake!V4!ProcessAddAcceptIgnoreEntry, ProcessAddAcceptIgnoreEntry
<1>10. \A h, ip, port : Fake!V4!ProcessDeleteAcceptIgnoreEntry(h, ip, port) =
                          ProcessDeleteAcceptIgnoreEntry(h, ip, port)
  BY <1>1, <1>2, <1>5, <1>7
  DEF Fake!V4!ProcessDeleteAcceptIgnoreEntry, ProcessDeleteAcceptIgnoreEntry
<1> QED BY <1>1, <1>9, <1>10

(* and those to the other tables.                                            *)
LEMMA FakeTables ==
  \A h, k :
    /\ Fake!V4!S!HasElement(h, k) <=> S!HasElement(h, k)
    /\ Fake!V4!S!AddElement(h, k) = S!AddElement(h, k)
    /\ Fake!V4!S!DeleteElement(h, k) = S!DeleteElement(h, k)
    /\ Fake!V4!S!Clear(h) = S!Clear(h) /\ Fake!V4!Clear(h) = Clear(h)
    /\ Fake!V4!Without(h, k) = Without(h, k)
    /\ Fake!V4!Allocated = Allocated
<1>1. \A h, k : Fake!V4!S!HasElement(h, k) <=> S!HasElement(h, k)
  BY FakeFindsKey DEF Fake!V4!S!HasElement, S!HasElement, Fake!V4!S!K!HasElement, S!K!HasElement
<1>2. \A h : Fake!V4!S!K!NewAddress(h) = S!K!NewAddress(h)
  BY Zenon DEF Fake!V4!S!K!NewAddress, S!K!NewAddress
<1>3. ASSUME NEW h, NEW k PROVE Fake!V4!S!AddElement(h, k) = S!AddElement(h, k)
  <2> USE DEF Fake!V4!S!AddElement, S!AddElement, Fake!V4!S!K!AddElement, S!K!AddElement
  <2>1. Fake!V4!S!K!HasElement(h, k) <=> S!K!HasElement(h, k)
    BY FakeFindsKey DEF Fake!V4!S!K!HasElement, S!K!HasElement
  <2>2. CASE S!K!HasElement(h, k) BY <2>1, <2>2
  <2>3. CASE ~S!K!HasElement(h, k) BY <1>2, <2>1, <2>3
  <2> QED BY <2>2, <2>3
<1>4. \A h, e : Fake!V4!S!K!DeleteCurrentElement(h, e) = S!K!DeleteCurrentElement(h, e)
  BY Zenon DEF Fake!V4!S!K!DeleteCurrentElement, S!K!DeleteCurrentElement
<1>5. \A h, k : Fake!V4!S!DeleteElement(h, k) = S!DeleteElement(h, k)
  BY <1>4, FakeFindsKey
  DEF Fake!V4!S!DeleteElement, S!DeleteElement, Fake!V4!S!K!DeleteElement, S!K!DeleteElement,
      Fake!V4!S!K!HasElement, S!K!HasElement
<1>6. \A h : Fake!V4!S!Clear(h) = S!Clear(h) /\ Fake!V4!Clear(h) = Clear(h)
  BY Zenon DEF Fake!V4!S!Clear, S!Clear, Fake!V4!S!K!Clear, S!K!Clear, Fake!V4!Clear, Clear,
               Fake!V4!S!K!EmptyHashTable, S!K!EmptyHashTable, Fake!V4!EmptyHashTable, EmptyHashTable
<1>7. \A q, k : Fake!V4!Without(q, k) = Without(q, k)
  BY Zenon DEF Fake!V4!Without, Without, Fake!V4!ToSet, ToSet, Fake!V4!RemoveAt, RemoveAt
<1>8. Fake!V4!Allocated = Allocated
  BY Zenon DEF Fake!V4!Allocated, Allocated, Fake!V4!Cardinality, Cardinality
<1> QED BY <1>1, <1>3, <1>5, <1>6, <1>7, <1>8

(* The methods it shares.                                                    *)
LEMMA FakeMethods ==
  /\ Fake!Create => Create /\ UNCHANGED currentdata
  /\ Fake!Destroy => Destroy /\ currentdata' = NoData
  /\ Fake!OnLists =>
       \/ \E d \in Destinations : AddDestination(d) \/ DeleteDestination(d)
       \/ ClearDestinations
       \/ \E m \in {"AcceptAll", "AcceptSome", "IgnoreSome"} : SetReceiveMode(m)
       \/ \E ip \in IPs, port \in Ports \union {AnyPort} :
            \/ AddToIgnoreList(ip, port) \/ DeleteFromIgnoreList(ip, port)
            \/ AddToAcceptList(ip, port) \/ DeleteFromAcceptList(ip, port)
       \/ ClearIgnoreList \/ ClearAcceptList \/ GetNextPacket
<1> USE DEF Fake!V4!tables, tables, Fake!V4!kernel, kernel, Fake!V4!waits, waits, Fake!V4!Sock, Sock
<1>1. \A h, x : Fake!V4!OnDestinations(h, x) => OnDestinations(h, x)
  BY Zenon DEF Fake!V4!OnDestinations, OnDestinations
<1>2. \A m, h : Fake!V4!OnFilter(m, h) => OnFilter(m, h) BY Zenon DEF Fake!V4!OnFilter, OnFilter
<1>3. Fake!Create => Create /\ UNCHANGED currentdata BY Zenon DEF Fake!Create, Fake!V4!Create, Create
<1>4. Fake!V4!Destroy => Destroy
  BY FakeTables, Zenon DEF Fake!V4!Destroy, Destroy, Fake!V4!FlushPackets, FlushPackets
<1>5. \A d : Fake!AddDestination(d) => AddDestination(d)
  BY <1>1, FakeTables DEF Fake!AddDestination, Fake!V4!AddDestination, AddDestination, Fake!V4!ToSet, ToSet
<1>6. \A d : Fake!DeleteDestination(d) => DeleteDestination(d)
  BY <1>1, FakeTables DEF Fake!DeleteDestination, Fake!V4!DeleteDestination, DeleteDestination
<1>7. Fake!ClearDestinations => ClearDestinations
  BY <1>1, FakeTables DEF Fake!ClearDestinations, Fake!V4!ClearDestinations, ClearDestinations
<1>8. \A m : Fake!SetReceiveMode(m) => SetReceiveMode(m)
  BY <1>2, FakeTables DEF Fake!SetReceiveMode, Fake!V4!SetReceiveMode, SetReceiveMode
<1>9. \A ip, port : Fake!AddToIgnoreList(ip, port) => AddToIgnoreList(ip, port)
  BY <1>2, FakeEntries, FakeTables
  DEF Fake!AddToIgnoreList, Fake!V4!AddToIgnoreList, AddToIgnoreList, Fake!V4!CanAdd, CanAdd
<1>10. \A ip, port : Fake!DeleteFromIgnoreList(ip, port) => DeleteFromIgnoreList(ip, port)
  BY <1>2, FakeEntries DEF Fake!DeleteFromIgnoreList, Fake!V4!DeleteFromIgnoreList, DeleteFromIgnoreList
<1>11. \A ip, port : Fake!AddToAcceptList(ip, port) => AddToAcceptList(ip, port)
  BY <1>2, FakeEntries, FakeTables
  DEF Fake!AddToAcceptList, Fake!V4!AddToAcceptList, AddToAcceptList, Fake!V4!CanAdd, CanAdd
<1>12. \A ip, port : Fake!DeleteFromAcceptList(ip, port) => DeleteFromAcceptList(ip, port)
  BY <1>2, FakeEntries DEF Fake!DeleteFromAcceptList, Fake!V4!DeleteFromAcceptList, DeleteFromAcceptList
<1>13. (Fake!ClearIgnoreList => ClearIgnoreList) /\ (Fake!ClearAcceptList => ClearAcceptList)
  BY <1>2, FakeTables
  DEF Fake!ClearIgnoreList, Fake!V4!ClearIgnoreList, ClearIgnoreList,
      Fake!ClearAcceptList, Fake!V4!ClearAcceptList, ClearAcceptList,
      Fake!V4!ClearAcceptIgnoreInfo, ClearAcceptIgnoreInfo
<1>14. Fake!GetNextPacket => GetNextPacket
  BY Zenon DEF Fake!GetNextPacket, Fake!V4!GetNextPacket, GetNextPacket
<1>15. Fake!Destroy => Destroy /\ currentdata' = NoData BY <1>4, Zenon DEF Fake!Destroy
<1>16. Fake!OnLists =>
       \/ \E d \in Destinations : AddDestination(d) \/ DeleteDestination(d)
       \/ ClearDestinations
       \/ \E m \in {"AcceptAll", "AcceptSome", "IgnoreSome"} : SetReceiveMode(m)
       \/ \E ip \in IPs, port \in Ports \union {AnyPort} :
            \/ AddToIgnoreList(ip, port) \/ DeleteFromIgnoreList(ip, port)
            \/ AddToAcceptList(ip, port) \/ DeleteFromAcceptList(ip, port)
       \/ ClearIgnoreList \/ ClearAcceptList \/ GetNextPacket
  BY <1>5, <1>6, <1>7, <1>8, <1>9, <1>10, <1>11, <1>12, <1>13, <1>14, Zenon DEF Fake!OnLists
<1> QED BY <1>3, <1>15, <1>16

(* RTPFakeTransmitter: nobody waits, and nothing is in the sockets.          *)
FakeInv == UdpInv /\ Fake!TypeOK

(* The constructor.                                                          *)
LEMMA FakeInit == Fake!Init => FakeInv /\ Init
<1> SUFFICES ASSUME Fake!Init PROVE FakeInv /\ Init OBVIOUS
<1>1. Init
  BY Zenon DEF Fake!Init, Fake!V4!Init, Init, Fake!V4!Sock, Sock, Fake!V4!EmptyHashTable,
     EmptyHashTable, Fake!V4!S!EmptyTable, S!EmptyTable, Fake!V4!S!K!EmptyHashTable,
     S!K!EmptyHashTable
<1>2. Fake!TypeOK BY <1>1 DEF Fake!Init, Init, Fake!TypeOK, Fake!V4!Sock, Sock
<1> QED BY <1>1, <1>2, UdpInit DEF FakeInv

(* A packet handed in is copied to the list or dropped; the sockets stay empty. *)
LEMMA FakeNext ==
  ASSUME FakeInv, Fake!Next
  PROVE  /\ FakeInv' /\ FilterStep
         /\ \A s \in Sock : sockets'[s] = << >>
<1> USE DEF Fake!TypeOK, Fake!V4!Sock, Sock
<1>1. UdpInv /\ Fake!TypeOK BY DEF FakeInv
<1>2. CASE Create /\ UNCHANGED currentdata
  <2>1. /\ created' = TRUE /\ UNCHANGED <<kernel, waiter, currentdata>> BY <1>2 DEF Create
  <2>2. Fake!TypeOK' /\ \A s \in Sock : sockets'[s] = << >> BY <1>1, <2>1 DEF kernel
  <2> QED BY <1>1, <1>2, <2>2, IsCreated DEF FakeInv
<1>3. CASE Destroy /\ currentdata' = NoData
  <2>1. sockets' = [s \in Sock |-> << >>] /\ UNCHANGED waiter BY <1>3 DEF Destroy
  <2>2. Fake!TypeOK' /\ \A s \in Sock : sockets'[s] = << >> BY <1>1, <1>3, <2>1
  <2> QED BY <1>1, <1>3, <2>2, IsDestroyed DEF FakeInv
<1>4. ASSUME Fake!OnLists, UNCHANGED currentdata
      PROVE  FakeInv' /\ FilterStep /\ \A s \in Sock : sockets'[s] = << >>
  <2>1. UdpInv' /\ FilterStep
    BY <1>1, <1>4, FakeMethods, ListOfDestinations, ModeIsSet, AddressIsAdded,
       AddressIsDeleted, ListIsCleared, PacketsPass, Zenon
  <2>2. UNCHANGED <<created, sockets, waiter>>
    <3>1. \A d : AddDestination(d) \/ DeleteDestination(d) => UNCHANGED <<created, sockets, waiter>>
      BY DEF AddDestination, DeleteDestination, OnDestinations, kernel, waits
    <3>2. ClearDestinations => UNCHANGED <<created, sockets, waiter>>
      BY DEF ClearDestinations, OnDestinations, kernel, waits
    <3>3. \A m, h : OnFilter(m, h) => UNCHANGED <<created, sockets, waiter>>
      BY DEF OnFilter, kernel, waits
    <3>4. \A m : SetReceiveMode(m) => UNCHANGED <<created, sockets, waiter>>
      BY <3>3, Zenon DEF SetReceiveMode
    <3>5. \A ip, port :
            \/ AddToIgnoreList(ip, port) \/ DeleteFromIgnoreList(ip, port)
            \/ AddToAcceptList(ip, port) \/ DeleteFromAcceptList(ip, port)
            => UNCHANGED <<created, sockets, waiter>>
      BY <3>3, Zenon DEF AddToIgnoreList, DeleteFromIgnoreList, AddToAcceptList, DeleteFromAcceptList
    <3>6. ClearIgnoreList \/ ClearAcceptList => UNCHANGED <<created, sockets, waiter>>
      BY <3>3, Zenon DEF ClearIgnoreList, ClearAcceptList
    <3>7. GetNextPacket => UNCHANGED <<created, sockets, waiter>>
      BY DEF GetNextPacket, kernel, waits
    <3> QED BY <1>4, FakeMethods, <3>1, <3>2, <3>4, <3>5, <3>6, <3>7, Zenon
  <2>3. Fake!TypeOK' /\ \A s \in Sock : sockets'[s] = << >> BY <1>1, <1>4, <2>2
  <2> QED BY <2>1, <2>3 DEF FakeInv
<1>5. ASSUME UNCHANGED Fake!others,
             rawpacketlist' = rawpacketlist \/ rawpacketlist' = Append(rawpacketlist, currentdata),
             rawpacketlist' # rawpacketlist => currentdata # NoData,
             created, currentdata' \in (Sock \X (IPs \X Ports)) \union {NoData}
      PROVE  FakeInv' /\ FilterStep /\ \A s \in Sock : sockets'[s] = << >>
  <2>1. UNCHANGED <<created, receivemode, tables, membership, waits, sockets, waiter>>
    BY <1>5 DEF Fake!others, tables, waits
  <2>2. PacketsInv'
    <3>1. rawpacketlist \in Seq(Sock \X (IPs \X Ports)) BY <1>1 DEF UdpInv, PacketsInv
    <3>2. rawpacketlist' \in Seq(Sock \X (IPs \X Ports))
      <4>1. CASE rawpacketlist' = rawpacketlist BY <3>1, <4>1
      <4>2. CASE rawpacketlist' # rawpacketlist
        <5>1. currentdata \in Sock \X (IPs \X Ports) BY <1>1, <1>5, <4>2
        <5> QED BY <1>5, <3>1, <4>2, <5>1
      <4> QED BY <4>1, <4>2
    <3> QED BY <1>1, <2>1, <3>2 DEF UdpInv, PacketsInv
  <2>3. Fake!TypeOK' /\ \A s \in Sock : sockets'[s] = << >> BY <1>1, <1>5, <2>1
  <2> QED BY <1>1, <2>1, <2>2, <2>3, PacketsMove DEF FakeInv
<1>6. CASE Fake!Poll
  <2>1. /\ UNCHANGED Fake!others /\ created /\ currentdata' = NoData
        /\ \E ok \in BOOLEAN : Fake!FakePoll(ok)
    BY <1>6, Zenon DEF Fake!Poll
  <2>2. /\ rawpacketlist' = rawpacketlist \/ rawpacketlist' = Append(rawpacketlist, currentdata)
        /\ rawpacketlist' # rawpacketlist => currentdata # NoData
    BY <2>1 DEF Fake!FakePoll
  <2> QED BY <1>5, <2>1, <2>2
<1>7. ASSUME NEW s \in Sock, NEW ip \in IPs, NEW port \in Ports, Fake!SetCurrentData(s, ip, port)
      PROVE  FakeInv' /\ FilterStep /\ \A x \in Sock : sockets'[x] = << >>
  <2>1. created /\ currentdata' = <<s, <<ip, port>>>> /\ UNCHANGED <<Fake!others, rawpacketlist>>
    BY <1>7 DEF Fake!SetCurrentData
  <2>2. currentdata' \in (Sock \X (IPs \X Ports)) \union {NoData} BY <2>1
  <2> QED BY <1>5, <2>1, <2>2
<1> QED BY <1>2, <1>3, <1>4, <1>6, <1>7, FakeMethods, Zenon DEF Fake!Next

-----------------------------------------------------------------------------
(* What is accepted, said of the set of addresses selected.                  *)
LEMMA AcceptableIs ==
  ASSUME TablesInv
  PROVE  Acceptable(acceptignoreinfo, receivemode)
           = {a \in IPs \X Ports : Filter!Accepts(receivemode, Selected, a)}
<1>1. ASSUME NEW a \in IPs \X Ports
      PROVE  ShouldAcceptData(acceptignoreinfo, receivemode, a[1], a[2])
               <=> Filter!Accepts(receivemode, Selected, a)
  <2>1. a \in Selected <=>
          HasElement(acceptignoreinfo, a[1]) /\ Selects(Element(acceptignoreinfo, a[1]), a[2])
    BY SelectedIs DEF TablesInv, Selected
  <2>2. receivemode \in {"AcceptAll", "AcceptSome", "IgnoreSome"} BY DEF TablesInv
  <2>3. CASE receivemode = "AcceptAll" BY <2>3, Zenon DEF ShouldAcceptData, Filter!Accepts
  <2>4. CASE receivemode = "AcceptSome"
    <3>1. ShouldAcceptData(acceptignoreinfo, receivemode, a[1], a[2]) <=>
            HasElement(acceptignoreinfo, a[1]) /\ Selects(Element(acceptignoreinfo, a[1]), a[2])
      BY <2>4 DEF ShouldAcceptData
    <3>2. Filter!Accepts(receivemode, Selected, a) <=> a \in Selected
      BY <2>4 DEF Filter!Accepts
    <3> QED BY <2>1, <3>1, <3>2
  <2>5. CASE receivemode = "IgnoreSome"
    <3>1. ShouldAcceptData(acceptignoreinfo, receivemode, a[1], a[2]) <=>
            ~(HasElement(acceptignoreinfo, a[1]) /\ Selects(Element(acceptignoreinfo, a[1]), a[2]))
      BY <2>5 DEF ShouldAcceptData
    <3>2. Filter!Accepts(receivemode, Selected, a) <=> a \notin Selected
      BY <2>5 DEF Filter!Accepts
    <3> QED BY <2>1, <3>1, <3>2
  <2> QED BY <2>2, <2>3, <2>4, <2>5
<1> QED BY <1>1 DEF Acceptable

(* A table with its links in order is linked as a lookup needs it.           *)
LEMMA SoundIs ==
  ASSUME NEW keys, NEW vals, NEW h, Sound(h, keys, vals)
  PROVE  IsTable(h, keys, vals) /\ Linked(h)
<1>1. PICK l, c : Ordered(h, l, c) BY Zenon DEF Sound
<1>2. HashTableOf(h, keys, vals) BY DEF Sound
<1>3. Linked(h) BY <1>1, <1>2, OrderedIsLinked
<1>4. \A e \in DOMAIN h.elem : h.elem[e] \in ElementType(keys, vals) BY <1>2 DEF HashTableOf
<1>5. IsTable(h, keys, vals) BY <1>2, <1>4 DEF IsTable, HashTableOf, ElementType
<1> QED BY <1>3, <1>5

(* The invariant is what is wanted of a transmitter.                         *)
LEMMA UdpInvImplies == UdpInv => UdpTransmitterInv
<1> SUFFICES ASSUME UdpInv PROVE UdpTransmitterInv OBVIOUS
<1>1. /\ Sound(acceptignoreinfo, IPs, PortInfos) /\ HostTable(acceptignoreinfo)
      /\ Sound(destinations, Destinations, Destinations)
      /\ Sound(multicastgroups, Groups, Groups)
  BY DEF UdpInv, TablesInv, HostTable, OwnTable
<1>2. TypeOK
  <2>1. /\ IsTable(acceptignoreinfo, IPs, PortInfos)
        /\ IsTable(destinations, Destinations, Destinations)
        /\ IsTable(multicastgroups, Groups, Groups)
    BY <1>1, SoundIs
  <2>2. membership \in [Sock -> SUBSET Groups] BY DEF UdpInv, TablesInv
  <2>3. \A s \in Sock : sockets[s] \in Seq(Datagrams) BY DEF UdpInv, PacketsInv
  <2> QED BY <2>1, <2>2, <2>3, Zenon DEF UdpInv, TablesInv, PacketsInv, WaitsInv, TypeOK
<1>3. TablesLinked BY <1>1, SoundIs DEF TablesLinked
<1>4. AddedOrExcepted
  <2> DEFINE h == acceptignoreinfo
  <2>1. ASSUME NEW ip \in IPs, NEW port \in Ports \union {AnyPort}
        PROVE  AfterDeleting(ip, port) = Selected \ AskedFor(ip, port)
    <3>1. SelectedIn(ProcessDeleteAcceptIgnoreEntry(h, ip, port))
            = IF port = AnyPort THEN SelectedIn(h) \ HostOf(ip)
              ELSE SelectedIn(h) \ {<<ip, port>>}
      BY <1>1, EntryDeleted, Zenon
    <3> QED BY <3>1, HostsAreFilters DEF AfterDeleting, Selected, AskedFor
  <2>2. ASSUME NEW ip \in IPs, NEW port \in Ports \union {AnyPort}, CanAdd(ip)
        PROVE  AfterAdding(ip, port)
                 = IF port # AnyPort /\ HasElement(h, ip) /\ Element(h, ip).all THEN Selected
                   ELSE Selected \union AskedFor(ip, port)
    <3>1. HasElement(h, ip) \/ Cardinality(DOMAIN h.elem) < Cardinality(Heap)
      BY <2>2, RoomForAll DEF UdpInv, CanAdd
    <3>2. SelectedIn(ProcessAddAcceptIgnoreEntry(h, ip, port)) =
            IF port = AnyPort THEN SelectedIn(h) \union HostOf(ip)
            ELSE IF HasElement(h, ip) /\ Element(h, ip).all THEN SelectedIn(h)
            ELSE SelectedIn(h) \union {<<ip, port>>}
      BY <1>1, <3>1, EntryAdded, Zenon
    <3>3. CASE port = AnyPort
      BY <3>2, <3>3, HostsAreFilters DEF AfterAdding, Selected, AskedFor
    <3>4. CASE port # AnyPort
      BY <3>2, <3>4 DEF AfterAdding, Selected, AskedFor
    <3> QED BY <3>3, <3>4
  <2> QED BY <2>1, <2>2, Zenon DEF AddedOrExcepted
<1>5. SendReachesAll BY DEF UdpInv, TablesInv, SendReachesAll, SentTo
<1>6. MembershipAgrees
  <2>1. \A g : S!HasElement(multicastgroups, g) <=> HasElement(multicastgroups, g) BY SameTables
  <2> QED BY <2>1 DEF UdpInv, TablesInv, MembershipAgrees
<1>7. AbortReadable BY DEF UdpInv, WaitsInv
<1> QED BY <1>2, <1>3, <1>4, <1>5, <1>6, <1>7 DEF UdpTransmitterInv

-----------------------------------------------------------------------------
PolledStep ==
  \A s \in Sock : TakenOff(s) > 0 /\ created' =>
    LET n == TakenOff(s)
    IN /\ sockets'[s] = Rest(sockets[s], n)
       /\ s = "rtcp" => sockets'["rtp"] = << >> /\ Stored("rtp", TakenOff("rtp"))
       /\ \/ Stored(s, n) /\ (sockets'[s] = << >> \/ Head(sockets'[s]) = Empty)
          \/ Stored(s, n - 1) /\ sockets[s][n] \in AcceptedFrom

(* Nobody but Poll takes packets from a socket, and Destroy, which drops them. *)
LEMMA OnlyPollTakes ==
  ASSUME Next
  PROVE  \/ Poll \/ created' = FALSE \/ UNCHANGED sockets
         \/ \E s \in Sock, a \in Datagrams :
              sockets' = [sockets EXCEPT ![s] = Append(@, a)]
<1>1. Create \/ DestroyReturns \/ WaitForIncomingData \/ SelectReturns \/ WaitReturns \/ AbortWait
        => UNCHANGED sockets
  BY DEF Create, DestroyReturns, WaitForIncomingData, SelectReturns, WaitReturns, AbortWait, kernel
<1>2. Destroy => created' = FALSE BY DEF Destroy
<1>3. \A h, now : OnDestinations(h, now) => UNCHANGED sockets BY DEF OnDestinations, kernel
<1>4. \A h, m : OnGroups(h, m) => UNCHANGED sockets BY DEF OnGroups
<1>5. \A m, h : OnFilter(m, h) => UNCHANGED sockets BY DEF OnFilter, kernel
<1>6. \A d : AddDestination(d) \/ DeleteDestination(d) \/ ClearDestinations => UNCHANGED sockets
  BY <1>3, Zenon DEF AddDestination, DeleteDestination, ClearDestinations
<1>7. \A g, ok : JoinMulticastGroup(g, ok) \/ LeaveMulticastGroup(g) \/ LeaveAllMulticastGroups
        => UNCHANGED sockets
  BY DEF JoinMulticastGroup, LeaveMulticastGroup, LeaveAllMulticastGroups, OnGroups
<1>8. \A m : SetReceiveMode(m) => UNCHANGED sockets BY <1>5, Zenon DEF SetReceiveMode
<1>9. \A ip, port :
        \/ AddToIgnoreList(ip, port) \/ DeleteFromIgnoreList(ip, port)
        \/ AddToAcceptList(ip, port) \/ DeleteFromAcceptList(ip, port)
        => UNCHANGED sockets
  BY <1>5, Zenon DEF AddToIgnoreList, DeleteFromIgnoreList, AddToAcceptList, DeleteFromAcceptList
<1>10. ClearIgnoreList \/ ClearAcceptList => UNCHANGED sockets
  BY <1>5, Zenon DEF ClearIgnoreList, ClearAcceptList
<1>11. GetNextPacket => UNCHANGED sockets BY DEF GetNextPacket, kernel
<1>12. ASSUME NEW s \in Sock, NEW datagram \in Datagrams, Arrives(s, datagram)
       PROVE  \E x \in Sock, a \in Datagrams :
                sockets' = [sockets EXCEPT ![x] = Append(@, a)]
  BY <1>12 DEF Arrives
<1> QED BY <1>1, <1>2, <1>6, <1>7, <1>8, <1>9, <1>10, <1>11, <1>12, Zenon DEF Next

(* Poll puts what is accepted behind what was in the list, socket by socket. *)
LEMMA PollTakes ==
  ASSUME UdpInv, Poll
  PROVE  PolledStep
<1> DEFINE A == Sock \X (IPs \X Ports)
           r == rawpacketlist
<1>0. PICK a, c : Polled(a, c) BY PollReads DEF UdpInv
<1> DEFINE p == Taken("rtp", a.listed)
           q == Taken("rtcp", c.listed)
           Of(x) == IF x = "rtp" THEN a ELSE c
<1>1. r \in Seq(A) /\ p \in Seq(A) /\ q \in Seq(A)
  <2>1. r \in Seq(A) BY DEF UdpInv, PacketsInv
  <2>2. p \in Seq(A) /\ q \in Seq(A) BY <1>0, TakenIs, Zenon DEF UdpInv, Polled, Sock
  <2> QED BY <2>1, <2>2
<1>2. rawpacketlist' = r \o p \o q BY <1>0 DEF Polled
<1>3. ASSUME NEW x \in Sock, NEW s \in Sock, NEW n \in 0 .. Len(sockets[x])
      PROVE  Picked(Taken(x, n), {s} \X (IPs \X Ports)) = IF x = s THEN Taken(x, n) ELSE << >>
  <2> DEFINE T == {s} \X (IPs \X Ports)
             l == Taken(x, n)
  <2>1. l \in Seq(A) /\ \A i \in 1 .. Len(l) : l[i] \in {x} \X (IPs \X Ports)
    BY TakenIs DEF UdpInv
  <2> HIDE DEF l
  <2>2. CASE x = s BY <2>1, <2>2, PickedIs DEF l
  <2>3. CASE x # s
    <3>1. \A i \in 1 .. Len(l) : l[i] \notin T BY <2>1, <2>3
    <3> HIDE DEF T, A
    <3>2. Picked(l, T) = << >> BY <2>1, <3>1, PickedIs
    <3> QED BY <2>3, <3>2 DEF l, T
  <2> QED BY <2>2, <2>3
<1>4. ASSUME NEW s \in Sock
      PROVE  From(rawpacketlist', s) = From(rawpacketlist, s) \o Taken(s, Of(s).listed)
  <2> DEFINE T == {s} \X (IPs \X Ports)
  <2> HIDE DEF p, q, r, T, A
  <2>1. r \o p \in Seq(A) BY <1>1
  <2>2. Picked(r \o p \o q, T) = (Picked(r, T) \o Picked(p, T)) \o Picked(q, T)
    <3>1. Picked(r \o p, T) = Picked(r, T) \o Picked(p, T) BY <1>1, PickedConcat
    <3>2. Picked((r \o p) \o q, T) = Picked(r \o p, T) \o Picked(q, T)
      <4> DEFINE rp == r \o p
      <4>1. rp \in Seq(A) BY <2>1
      <4> HIDE DEF rp
      <4>2. Picked(rp \o q, T) = Picked(rp, T) \o Picked(q, T) BY <1>1, <4>1, PickedConcat
      <4> QED BY <4>2 DEF rp
    <3> QED BY <3>1, <3>2
  <2>3. Picked(r, T) \in Seq(A) BY <1>1, PickedIs
  <2>4. /\ Picked(p, T) = IF "rtp" = s THEN p ELSE << >>
        /\ Picked(q, T) = IF "rtcp" = s THEN q ELSE << >>
    BY <1>0, <1>3, Zenon DEF p, q, T, Sock, Polled
  <2>5. From(rawpacketlist', s) = Picked(r \o p \o q, T) /\ From(rawpacketlist, s) = Picked(r, T)
    BY <1>2 DEF From, r, T
  <2>6. CASE s = "rtp"
    <3>1. (Picked(r, T) \o p) \o << >> = Picked(r, T) \o p BY <1>1, <2>3
    <3> QED BY <2>2, <2>4, <2>5, <2>6, <3>1 DEF p
  <2>7. CASE s = "rtcp"
    <3>1. Picked(r, T) \o << >> = Picked(r, T) BY <2>3
    <3> QED BY <2>2, <2>4, <2>5, <2>7, <3>1 DEF q
  <2> QED BY <2>6, <2>7 DEF Sock
<1>5. Acceptable(acceptignoreinfo, receivemode) = AcceptedFrom
  BY AcceptableIs DEF UdpInv, AcceptedFrom
<1>6. ASSUME NEW s \in Sock PROVE Stored(s, Of(s).listed)
  <2> HIDE DEF Of
  <2> QED BY <1>4, <1>5, Zenon DEF Stored, Taken
<1>7. ASSUME NEW s \in Sock
      PROVE  /\ Of(s).read \in 0 .. Len(sockets[s]) /\ Of(s).listed \in 0 .. Len(sockets[s])
             /\ sockets'[s] = Rest(sockets[s], Of(s).read)
             /\ TakenOff(s) = Of(s).read
             /\ Len(sockets[s]) \in Nat
  <2>1. /\ Of(s).read \in 0 .. Len(sockets[s]) /\ Of(s).listed \in 0 .. Len(sockets[s])
        /\ sockets'[s] = Rest(sockets[s], Of(s).read)
    BY <1>0 DEF Polled, Sock
  <2> DEFINE n == Of(s).read  m == sockets[s]
  <2> HIDE DEF n, m
  <2>2. m \in Seq(Datagrams) BY DEF UdpInv, PacketsInv, m
  <2>3. n \in 0 .. Len(m) BY <2>1 DEF n, m
  <2>4. Len(Rest(m, n)) = Len(m) - n /\ Len(m) \in Nat BY <2>2, <2>3 DEF Rest
  <2>5. TakenOff(s) = Len(m) - Len(Rest(m, n)) BY <2>1, Zenon DEF TakenOff, n, m
  <2>6. TakenOff(s) = n BY <2>3, <2>4, <2>5
  <2> QED BY <2>1, <2>4, <2>6 DEF n, m
<1>8. ASSUME NEW s \in Sock, TakenOff(s) > 0 PROVE Of(s) \in PollSocket(s)
  BY <1>0, <1>7, <1>8 DEF Polled, Sock
<1>9. ASSUME NEW s \in Sock, TakenOff(s) > 0
      PROVE  \/ Stored(s, TakenOff(s)) /\ (sockets'[s] = << >> \/ Head(sockets'[s]) = Empty)
             \/ Stored(s, TakenOff(s) - 1) /\ sockets[s][TakenOff(s)] \in AcceptedFrom
  <2> DEFINE o == Of(s)  m == sockets[s]
  <2> HIDE DEF Of, o
  <2>1. o \in PollSocket(s) BY <1>8, <1>9 DEF o
  <2>2. /\ TakenOff(s) = o.read /\ Stored(s, o.listed) /\ sockets'[s] = Rest(m, o.read)
        /\ o.read \in 0 .. Len(m)
    BY <1>6, <1>7 DEF o
  <2>3. \/ o.listed = o.read /\ (o.read = Len(m) \/ m[o.read + 1] = Empty)
        \/ o.listed = o.read - 1 /\ m[o.read] \in Acceptable(acceptignoreinfo, receivemode)
    BY <2>1, PollIs DEF UdpInv
  <2>4. m \in Seq(Datagrams) BY DEF UdpInv, PacketsInv
  <2>5. ASSUME NEW n \in 0 .. Len(m), n = Len(m) \/ m[n + 1] = Empty
        PROVE  Rest(m, n) = << >> \/ Head(Rest(m, n)) = Empty
    <3> HIDE DEF m
    <3>1. CASE n = Len(m) BY <2>4, <3>1 DEF Rest
    <3>2. CASE n # Len(m)
      <4>1. Rest(m, n)[1] = m[n + 1] /\ Rest(m, n) \in Seq(Datagrams) /\ Len(Rest(m, n)) # 0
        BY <2>4, <3>2 DEF Rest
      <4> QED BY <2>5, <3>2, <4>1
    <3> QED BY <3>1, <3>2
  <2>6. CASE o.listed = o.read /\ (o.read = Len(m) \/ m[o.read + 1] = Empty)
    BY <2>2, <2>5, <2>6
  <2>7. CASE o.listed = o.read - 1 /\ m[o.read] \in Acceptable(acceptignoreinfo, receivemode)
    BY <1>5, <2>2, <2>7
  <2> QED BY <2>3, <2>6, <2>7
<1>10. ASSUME TakenOff("rtcp") > 0
       PROVE  sockets'["rtp"] = << >> /\ Stored("rtp", TakenOff("rtp"))
  <2>1. "rtp" \in Sock /\ "rtcp" \in Sock /\ Of("rtp") = a /\ Of("rtcp") = c BY DEF Sock
  <2> HIDE DEF Of
  <2>2. c.read > 0 BY <1>7, <1>10, <2>1
  <2>3. a.read = Len(sockets["rtp"]) /\ a.listed = a.read BY <1>0, <2>2 DEF Polled
  <2>4. Stored("rtp", TakenOff("rtp")) BY <1>6, <1>7, <2>1, <2>3
  <2>5. sockets["rtp"] \in Seq(Datagrams) BY <2>1 DEF UdpInv, PacketsInv
  <2>6. Rest(sockets["rtp"], Len(sockets["rtp"])) = << >> BY <2>5 DEF Rest
  <2> QED BY <1>7, <2>1, <2>3, <2>4, <2>6
<1>11. ASSUME NEW s \in Sock, TakenOff(s) > 0
       PROVE  sockets'[s] = Rest(sockets[s], TakenOff(s))
  BY <1>7
<1> HIDE DEF Of
<1> QED BY <1>9, <1>10, <1>11, Zenon DEF PolledStep

(* So it is with every step.                                                 *)
LEMMA PolledNext ==
  ASSUME UdpInv, Next
  PROVE  PolledStep
<1>1. CASE Poll BY <1>1, PollTakes
<1>2. CASE created' = FALSE BY <1>2 DEF PolledStep
<1>3. ASSUME UNCHANGED sockets \/ \E x \in Sock, a \in Datagrams :
               sockets' = [sockets EXCEPT ![x] = Append(@, a)]
      PROVE  PolledStep
  <2>1. ASSUME NEW s \in Sock PROVE ~(TakenOff(s) > 0)
    <3> USE DEF TakenOff
    <3>1. sockets \in [Sock -> Seq(Datagrams)] BY DEF UdpInv, PacketsInv
    <3>2. Len(sockets[s]) \in Nat BY <3>1
    <3>3. CASE UNCHANGED sockets BY <3>2, <3>3
    <3>4. ASSUME NEW x \in Sock, NEW a \in Datagrams,
                 sockets' = [sockets EXCEPT ![x] = Append(@, a)]
          PROVE  ~(TakenOff(s) > 0)
      <4>1. CASE x = s
        <5>1. sockets'[s] = Append(sockets[s], a) BY <3>1, <3>4, <4>1
        <5>2. Len(Append(sockets[s], a)) = Len(sockets[s]) + 1 BY <3>1
        <5> QED BY <3>2, <5>1, <5>2
      <4>2. CASE x # s
        <5>1. sockets'[s] = sockets[s] BY <3>1, <3>4, <4>2
        <5> QED BY <3>2, <5>1
      <4> QED BY <4>1, <4>2
    <3> QED BY <1>3, <3>3, <3>4
  <2> QED BY <2>1 DEF PolledStep
<1> QED BY <1>1, <1>2, <1>3, OnlyPollTakes

-----------------------------------------------------------------------------
(* RTPExternalTransmitter: its thread is never left asleep with packets in   *)
(* the list, for any number of packets and any pipe that holds a byte.       *)

(* What Create finds: nobody waits in a transmitter destroyed but while      *)
(* Destroy waits for him, and no packets are left from before.               *)
Between ==
  /\ ~created => rawpacketlist = << >>
  /\ ~created /\ waiter # "no" => destroying
  /\ destroying => ~created

PipeInv == Ext!TypeOK /\ Between /\ Ext!NothingWaitsUnnoticed

(* The constructor of RTPExternalTransmitter.                                *)
LEMMA PipeInit == ASSUME Room \in Nat, PipeRoom \in Nat \ {0} PROVE Ext!Init => PipeInv
<1> SUFFICES ASSUME Ext!Init PROVE PipeInv OBVIOUS
<1>1. << >> \in Seq({"rtp", "rtcp"}) /\ Len(<< >>) <= Room OBVIOUS
<1>2. 0 \in 0 .. PipeRoom OBVIOUS
<1> QED BY <1>1, <1>2, Zenon
        DEF Ext!Init, PipeInv, Ext!TypeOK, Between, Ext!NothingWaitsUnnoticed

(* Whoever wakes the thread leaves a byte in the pipe. *)
LEMMA WakerLeavesByte ==
  ASSUME PipeRoom \in Nat \ {0}, pipe \in 0 .. PipeRoom, Ext!AbortWaitInternal
  PROVE  pipe' \in 0 .. PipeRoom /\ pipe' > 0 /\ kept' \in BOOLEAN
<1>1. kept' \in BOOLEAN BY Zenon DEF Ext!AbortWaitInternal
<1>2. PICK p \in 0 .. PipeRoom : pipe = p OBVIOUS
<1>3. CASE p < PipeRoom
  <2>1. pipe' = p + 1 BY <1>2, <1>3, Zenon DEF Ext!AbortWaitInternal
  <2> QED BY <1>1, <1>3, <2>1
<1>4. CASE ~(p < PipeRoom)
  <2>1. pipe' = p BY <1>2, <1>4, Zenon DEF Ext!AbortWaitInternal
  <2>2. p = PipeRoom BY <1>4
  <2> QED BY <1>1, <2>1, <2>2
<1> QED BY <1>3, <1>4

(* The only step that puts a packet into the list puts a byte into the pipe, *)
(* or finds it full; the only one that empties the pipe ends the wait; and   *)
(* Create, which makes a new pipe, finds nobody waiting.                     *)
LEMMA PipeNext ==
  ASSUME Room \in Nat, PipeRoom \in Nat \ {0}
  PROVE  PipeInv /\ [Ext!Next]_(Ext!vars) => PipeInv'
<1> SUFFICES ASSUME PipeInv, [Ext!Next]_(Ext!vars) PROVE PipeInv' OBVIOUS
<1> USE DEF PipeInv, Ext!TypeOK, Between, Ext!NothingWaitsUnnoticed, Ext!Locks
<1>1. CASE Ext!Create
  <2>1. created' = TRUE /\ pipe' = 0 /\ rawpacketlist = << >> /\ waiter = "no"
    BY <1>1, Zenon DEF Ext!Create
  <2>2. pipe' \in 0 .. PipeRoom BY <2>1
  <2> QED BY <1>1, <2>1, <2>2, Zenon DEF Ext!Create
<1>2. CASE Ext!Destroy
  <2>1. rawpacketlist' = << >> /\ created' = FALSE /\ created
    BY <1>2 DEF Ext!Destroy, Ext!FlushPackets
  <2>2. pipe' \in 0 .. PipeRoom /\ kept' \in BOOLEAN
    <3>1. CASE waiter = "no"
      <4>1. pipe' = 0 /\ kept' = FALSE BY <1>2, <3>1, Zenon DEF Ext!Destroy
      <4>2. pipe' \in 0 .. PipeRoom BY <4>1
      <4>3. kept' \in BOOLEAN BY <4>1, Zenon
      <4> QED BY <4>2, <4>3
    <3>2. CASE waiter # "no"
      <4>1. Ext!AbortWaitInternal BY <1>2, <3>2, Zenon DEF Ext!Destroy
      <4> QED BY <4>1, WakerLeavesByte
    <3> QED BY <3>1, <3>2
  <2>3. UNCHANGED <<waiter, aborted>> /\ destroying' = (waiter # "no")
    BY <1>2 DEF Ext!Destroy
  <2>4. << >> \in Seq({"rtp", "rtcp"}) /\ Len(<< >>) <= Room OBVIOUS
  <2>5. rawpacketlist' \in Seq({"rtp", "rtcp"}) /\ Len(rawpacketlist') <= Room
    BY <2>1, <2>4
  <2>6. created' \in BOOLEAN /\ destroying' \in BOOLEAN
    <3>1. created' \in BOOLEAN BY <2>1, Zenon
    <3>2. CASE waiter = "no"
      BY <2>3, <3>1, <3>2
    <3>3. CASE waiter # "no"
      BY <2>3, <3>1, <3>3
    <3> QED BY <3>2, <3>3
  <2>7. Ext!TypeOK' BY <2>2, <2>3, <2>5, <2>6, Zenon
  <2>8. Between' BY <2>1, <2>3, Zenon
  <2> QED BY <2>1, <2>7, <2>8, Zenon
<1>3. CASE Ext!DestroyReturns
  BY <1>3 DEF Ext!DestroyReturns
<1>4. CASE Ext!WaitForIncomingData
  BY <1>4 DEF Ext!WaitForIncomingData
<1>5. CASE Ext!SelectReturns
  BY <1>5 DEF Ext!SelectReturns
<1>6. CASE Ext!WaitReturns
  <2>1. pipe' \in 0 .. PipeRoom
    <3>1. pipe' = 0 \/ pipe' = pipe BY <1>6, Zenon DEF Ext!WaitReturns
    <3> QED BY <3>1
  <2> QED BY <1>6, <2>1, Zenon DEF Ext!WaitReturns
<1>7. CASE Ext!AbortWait
  <2>1. pipe' \in 0 .. PipeRoom /\ pipe' > 0 /\ kept' \in BOOLEAN
    <3>1. Ext!AbortWaitInternal BY <1>7, Zenon DEF Ext!AbortWait
    <3> QED BY <3>1, WakerLeavesByte
  <2> QED BY <1>7, <2>1 DEF Ext!AbortWait
<1>8. ASSUME NEW kind \in {"rtp", "rtcp"}, Ext!Inject(kind) PROVE PipeInv'
  <2>1. pipe' \in 0 .. PipeRoom /\ pipe' > 0 /\ kept' \in BOOLEAN
    <3>1. Ext!AbortWaitInternal BY <1>8, Zenon DEF Ext!Inject
    <3> QED BY <3>1, WakerLeavesByte
  <2>2. rawpacketlist' \in Seq({"rtp", "rtcp"}) /\ Len(rawpacketlist') <= Room
    BY <1>8 DEF Ext!Inject
  <2>3. UNCHANGED <<created, waiter, aborted, destroying>> /\ created
    BY <1>8 DEF Ext!Inject
  <2> QED BY <2>1, <2>2, <2>3
<1>9. CASE Ext!InjectFails
  BY <1>9 DEF Ext!InjectFails
<1>10. CASE Ext!GetNextPacket
  BY <1>10 DEF Ext!GetNextPacket
<1>11. CASE Ext!Stuck
  BY <1>11 DEF Ext!Stuck, Ext!vars
<1>12. CASE UNCHANGED Ext!vars
  BY <1>12 DEF Ext!vars
<1> QED
  BY <1>1, <1>2, <1>3, <1>4, <1>5, <1>6, <1>7, <1>8, <1>9, <1>10, <1>11, <1>12 DEF Ext!Next

(* No packet waits in the list of RTPExternalTransmitter while the thread    *)
(* sleeps without a byte in the pipe to wake it.                             *)
THEOREM NoLostWakeUp ==
  ASSUME Room \in Nat, PipeRoom \in Nat \ {0}
  PROVE  Ext!Spec => []Ext!ExternalTransmitterInv
<1>1. PipeInv => Ext!ExternalTransmitterInv BY DEF PipeInv, Ext!ExternalTransmitterInv
<1> QED BY <1>1, PipeInit, PipeNext, PTL DEF Ext!Spec

-----------------------------------------------------------------------------
(* The transmitter of a session, whichever it is.                            *)
TInv ==
  /\ NewTransmitter /\ sockets \in [Sock -> Seq(Datagrams)]
  /\ protocol # "External" => UdpInv
  /\ protocol = "External" => PipeInv /\ AbortReadable
  /\ protocol = "Fake" => Fake!TypeOK

(* The constructor, whichever transmitter it is.                             *)
LEMMA TInvInit == TInit => TInv /\ Filter!SInit
<1> SUFFICES ASSUME TInit PROVE TInv /\ Filter!SInit OBVIOUS
<1>1. UdpInv /\ Fake!TypeOK /\ Filter!SInit /\ Init
  BY FakeInit, UdpInit DEF TInit, FakeInv
<1>2. PipeInv
  <2>1. Ext!Init BY <1>1, Zenon DEF TInit, Init, Ext!Init
  <2> QED BY <2>1, PipeInit, TransmitterAssumption
<1> QED BY <1>1, <1>2, Zenon DEF TInit, TInv, UdpInv, WaitsInv, PacketsInv

(* A byte on which a wait ended is not taken from RTPExternalTransmitter.    *)
LEMMA ExternalNext ==
  ASSUME PipeInv, AbortReadable, Ext!Next
  PROVE  PipeInv' /\ AbortReadable'
<1>1. PipeInv' BY PipeNext, TransmitterAssumption
<1>2. AbortReadable'
  <2> USE DEF AbortReadable, Ext!Locks
  <2>0. pipe \in Nat BY TransmitterAssumption DEF PipeInv, Ext!TypeOK
  <2>1. CASE Ext!Create BY <2>1 DEF Ext!Create, PipeInv, Between
  <2>2. CASE Ext!Destroy BY <2>2 DEF Ext!Destroy
  <2>3. CASE Ext!DestroyReturns \/ Ext!InjectFails \/ Ext!GetNextPacket \/ Ext!Stuck
    BY <2>3, Zenon DEF Ext!DestroyReturns, Ext!InjectFails, Ext!GetNextPacket, Ext!Stuck, Ext!vars
  <2>4. CASE Ext!WaitForIncomingData \/ Ext!WaitReturns
    BY <2>4 DEF Ext!WaitForIncomingData, Ext!WaitReturns
  <2>5. CASE Ext!SelectReturns BY <2>5 DEF Ext!SelectReturns
  <2>6. ASSUME Ext!AbortWaitInternal PROVE AbortReadable'
    <3>1. pipe' > 0
      BY <2>6, WakerLeavesByte, TransmitterAssumption DEF PipeInv, Ext!TypeOK
    <3> QED BY <3>1
  <2>7. CASE Ext!AbortWait BY <2>6, <2>7, Zenon DEF Ext!AbortWait
  <2>8. ASSUME NEW kind, Ext!Inject(kind) PROVE AbortReadable'
    BY <2>6, <2>8, Zenon DEF Ext!Inject
  <2> QED BY <2>1, <2>2, <2>3, <2>4, <2>5, <2>7, <2>8, Zenon DEF Ext!Next
<1> QED BY <1>1, <1>2

(* Every step of every transmitter.                                          *)
LEMMA TInvNext ==
  ASSUME TInv, [TNext]_tvars
  PROVE  TInv' /\ FilterStep /\ [PolledStep]_vars
<1>1. CASE UNCHANGED tvars
  <2>1. UNCHANGED vars /\ UNCHANGED <<protocol, kept, currentdata>> BY <1>1 DEF tvars
  <2>2. UdpInv => UdpInv' /\ FilterStep BY <2>1, UdpNext
  <2>3. FilterStep
    <3>1. UNCHANGED <<receivemode, acceptignoreinfo>> BY <2>1 DEF vars, tables
    <3> QED BY <3>1, SameFilter
  <2>4. PipeInv => PipeInv'
    <3>1. UNCHANGED Ext!vars BY <2>1, Zenon DEF vars, waits, Ext!vars
    <3> QED BY <3>1, PipeNext, TransmitterAssumption
  <2>5. AbortReadable => AbortReadable' BY <2>1 DEF AbortReadable, vars, waits
  <2>6. Fake!TypeOK => Fake!TypeOK'
    <3>1. UNCHANGED <<created, waiter, sockets, currentdata>> BY <2>1 DEF vars, kernel, waits
    <3> QED BY <3>1 DEF Fake!TypeOK
  <2>7. UNCHANGED sockets BY <2>1 DEF vars, kernel
  <2> QED BY <2>1, <2>2, <2>3, <2>4, <2>5, <2>6, <2>7, Zenon DEF TInv, NewTransmitter
<1>2. CASE TNext
  <2>1. UNCHANGED protocol /\ NewTransmitter' BY <1>2, Zenon DEF TNext, TInv, NewTransmitter
  <2>2. CASE protocol \in {"IPv4", "IPv6"}
    <3>1. Next BY <1>2, <2>2, SixMethods DEF TNext
    <3>2. UdpInv BY <2>2 DEF TInv
    <3>3. UdpInv' /\ FilterStep /\ PolledStep BY <3>1, <3>2, UdpNext, PolledNext
    <3>4. sockets' \in [Sock -> Seq(Datagrams)] BY <3>3 DEF UdpInv, PacketsInv
    <3> QED BY <2>1, <2>2, <3>3, <3>4 DEF TInv
  <2>3. CASE protocol = "External"
    <3>1. Ext!Next /\ UNCHANGED <<receivemode, tables, kernel>> BY <1>2, <2>3 DEF TNext
    <3>2. PipeInv' /\ AbortReadable' BY <2>3, <3>1, ExternalNext DEF TInv
    <3>3. FilterStep BY <3>1, SameFilter DEF tables
    <3>4. PolledStep
      <4>1. UNCHANGED sockets BY <3>1 DEF kernel
      <4>2. \A s \in Sock : Len(sockets[s]) \in Nat BY DEF TInv
      <4>3. \A s \in Sock : ~(TakenOff(s) > 0) BY <4>1, <4>2 DEF TakenOff
      <4> QED BY <4>3, Zenon DEF PolledStep
    <3> QED BY <2>1, <2>3, <3>1, <3>2, <3>3, <3>4 DEF TInv, kernel
  <2>4. CASE protocol = "Fake"
    <3>1. Fake!Next /\ FakeInv BY <1>2, <2>4 DEF TNext, TInv, FakeInv
    <3>2. FakeInv' /\ FilterStep /\ \A s \in Sock : sockets'[s] = << >> BY <3>1, FakeNext
    <3>3. PolledStep
      <4>1. \A s \in Sock : sockets[s] = << >>
        BY <3>1 DEF FakeInv, Fake!TypeOK, Fake!V4!Sock, Sock
      <4>2. ASSUME NEW s \in Sock PROVE ~(TakenOff(s) > 0)
        <5>1. sockets[s] = << >> /\ sockets'[s] = << >> BY <3>2, <4>1
        <5>2. Len(<< >>) = 0 OBVIOUS
        <5> QED BY <5>1, <5>2 DEF TakenOff
      <4> QED BY <4>2, Zenon DEF PolledStep
    <3> QED BY <2>1, <2>4, <3>2, <3>3 DEF TInv, FakeInv, UdpInv, PacketsInv
  <2> QED BY <2>2, <2>3, <2>4 DEF TInv, NewTransmitter
<1> QED BY <1>1, <1>2

(* Whatever is added and deleted, joined and left, in any order, the tables  *)
(* of every transmitter are linked and take effect, data reaches each        *)
(* destination once, both sockets have joined the groups in the table, the   *)
(* byte that ends a wait is there to be read, and no packet injected waits   *)
(* unnoticed.                                                                *)
THEOREM TransmitterCorrect == TSpec => []TransmitterInv
<1>1. TInv => TransmitterInv
  BY UdpInvImplies, Zenon DEF TInv, TransmitterInv, PipeInv, Ext!ExternalTransmitterInv
<1> QED BY <1>1, TInvInit, TInvNext, PTL DEF TSpec

(* The list of addresses to accept or to ignore, with its flags, ports and   *)
(* exceptions, implements a set of addresses that grows and shrinks as asked.*)
THEOREM FilterImplemented == TSpec => FilterAsAsked
<1>1. TInv /\ [TNext]_tvars => [Filter!SNext]_<<receivemode, Selected>>
  BY TInvNext DEF FilterStep
<1>2. TSpec => Filter!SInit /\ [][Filter!SNext]_<<receivemode, Selected>>
  BY <1>1, TInvInit, TInvNext, PTL DEF TSpec
<1> QED BY <1>2 DEF FilterAsAsked, Filter!SSpec

(* What leaves a socket is handed to the list, in order and each once, or    *)
(* was refused by the addresses selected then, or had no data, but for one   *)
(* packet at most, for which there was no memory and which ends the poll.    *)
THEOREM PollPassesAccepted == TSpec => PolledIfAccepted
<1>1. TInv /\ [TNext]_tvars => [PolledStep]_vars BY TInvNext
<1> QED BY <1>1, TInvInit, TInvNext, PTL DEF TSpec, PolledIfAccepted, PolledStep
=============================================================================
