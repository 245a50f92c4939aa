-------------------------- MODULE RtpSourcesProofs --------------------------
(* Proofs about RtpSources, for any number of sources, hosts and names.      *)
EXTENDS RtpSources, FiniteSetTheorems, TLAPS

(* Whoever a packet comes from, as the table sees it *)
Senders == Addresses \union {Self}

(* Both addresses of a source are on one host; ours are not on the network. *)
HostOK(s) ==
  /\ s.own => s.rtp = Self /\ s.rtcp = Self
  /\ s.rtp \in Addresses /\ s.rtcp \in Addresses => s.rtp.host = s.rtcp.host
  /\ s.rtp = Self => s.rtcp \in {Self, Unset}
  /\ s.rtcp = Self => s.rtp \in {Self, Unset}

EntryOK(own, x, s) ==
  /\ s \in Source
  /\ s.own <=> x = own
  /\ HostOK(s)
  /\ x = own => s.validated /\ ~s.bye

(* What a packet may not change of a source that is not ours *)
Keep(s, n) ==
  /\ s.rtp # Unset => n.rtp = s.rtp
  /\ s.rtcp # Unset => n.rtcp = s.rtcp
  /\ s.cname # NoName => n.cname = s.cname
  /\ s.validated => n.validated
  /\ s.bye => n.bye

IsTable(t) ==
  /\ t \in [src : {t.src}, own : {t.own}, total : Int, senders : Int, active : Int]
  /\ Entries(t) \subseteq SSRCs

TableInv(t) ==
  /\ IsTable(t)
  /\ t.own \in Entries(t)
  /\ \A x \in Entries(t) : EntryOK(t.own, x, t.src[x])

(* What a packet does to a table *)
Extends(t, u) ==
  /\ u.own = t.own
  /\ Entries(t) \subseteq Entries(u)
  /\ \A x \in Entries(t) : Keep(t.src[x], u.src[x])
-----------------------------------------------------------------------------
(* One source.                                                               *)

LEMMA NewSourceOK ==
  ASSUME NEW own, NEW x, x # own
  PROVE  EntryOK(own, x, NewSource)
BY SourcesAssumption DEF EntryOK, NewSource, Source, HostOK

(* An address that does not collide is taken, or known already. *)
LEMMA AddressStored ==
  ASSUME NEW own, NEW x, NEW s, EntryOK(own, x, s), NEW a \in Senders,
         NEW isrtp \in BOOLEAN, ~CheckCollision(s, a, isrtp)
  PROVE  EntryOK(own, x, StoreAddress(s, a, isrtp)) /\ Keep(s, StoreAddress(s, a, isrtp))
<1>1. CASE isrtp
  BY <1>1, SourcesAssumption
  DEF CheckCollision, StoreAddress, EntryOK, Source, HostOK, Keep, SameHost, Senders
<1>2. CASE ~isrtp
  BY <1>2, SourcesAssumption
  DEF CheckCollision, StoreAddress, EntryOK, Source, HostOK, Keep, SameHost, Senders
<1> QED BY <1>1, <1>2

LEMMA PacketProcessed ==
  ASSUME NEW own, NEW x, NEW s, EntryOK(own, x, s), NEW next \in BOOLEAN
  PROVE  EntryOK(own, x, ProcessPacket(s, next)) /\ Keep(s, ProcessPacket(s, next))
<1>1. s \in Source /\ s.probation \in 0 .. Probation BY DEF EntryOK, Source
<1>2. EntryOK(own, x, Accept(s)) /\ Keep(s, Accept(s))
  <2>1. Accept(s) \in Source
    <3>1. (s.sender \/ ~s.own) \in BOOLEAN OBVIOUS
    <3>2. 0 \in 0 .. Probation BY SourcesAssumption
    <3> QED BY <1>1, <3>1, <3>2 DEF Accept, Source
  <2>2. /\ Accept(s).own = s.own /\ Accept(s).rtp = s.rtp /\ Accept(s).rtcp = s.rtcp
        /\ Accept(s).cname = s.cname /\ Accept(s).bye = s.bye /\ Accept(s).validated
    BY <1>1 DEF Accept, Source
  <2> QED BY <2>1, <2>2 DEF EntryOK, HostOK, Keep
<1>3. ASSUME NEW p \in 0 .. Probation
      PROVE  EntryOK(own, x, [s EXCEPT !.probation = p]) /\ Keep(s, [s EXCEPT !.probation = p])
  BY <1>1 DEF EntryOK, Source, HostOK, Keep
<1>4. CASE s.data \/ s.validated BY <1>2, <1>4 DEF ProcessPacket
<1>5. CASE ~(s.data \/ s.validated) /\ (s.probation = 0 \/ ~next)
  <2>1. Probation \in 0 .. Probation BY SourcesAssumption
  <2>2. ProcessPacket(s, next) = [s EXCEPT !.probation = Probation]
    BY <1>5 DEF ProcessPacket
  <2> QED BY <1>3, <2>1, <2>2
<1>6. CASE ~(s.data \/ s.validated) /\ ~(s.probation = 0 \/ ~next) /\ s.probation = 1
  BY <1>2, <1>6 DEF ProcessPacket
<1>7. CASE ~(s.data \/ s.validated) /\ ~(s.probation = 0 \/ ~next) /\ s.probation # 1
  <2>1. s.probation - 1 \in 0 .. Probation BY <1>1, <1>7, SourcesAssumption
  <2>2. ProcessPacket(s, next) = [s EXCEPT !.probation = s.probation - 1]
    BY <1>7 DEF ProcessPacket
  <2> QED BY <1>3, <2>1, <2>2
<1> QED BY <1>4, <1>5, <1>6, <1>7

LEMMA ItemProcessed ==
  ASSUME NEW own, NEW x, NEW s, EntryOK(own, x, s), NEW item \in Items
  PROVE  EntryOK(own, x, After(s, item)) /\ Keep(s, After(s, item))
<1>1. s \in Source BY DEF EntryOK
<1>2. EntryOK(own, x, s) /\ Keep(s, s) BY DEF Keep
<1>3. CASE item.kind = "report" BY <1>2, <1>3 DEF After
<1>4. CASE item.kind = "cname"
  <2>1. item.name \in Names BY <1>4 DEF Items
  <2>2. After(s, item) = SetCNAME(s, item.name) BY <1>4 DEF After
  <2>3. CASE s.cname = NoName
    <3> DEFINE n == [s EXCEPT !.cname = item.name, !.validated = TRUE]
    <3>1. n \in Source BY <1>1, <2>1 DEF Source
    <3>2. /\ n.own = s.own /\ n.rtp = s.rtp /\ n.rtcp = s.rtcp
          /\ n.bye = s.bye /\ n.validated
      BY <1>1 DEF Source
    <3>3. After(s, item) = n BY <2>2, <2>3 DEF SetCNAME
    <3> HIDE DEF n
    <3> QED BY <2>3, <3>1, <3>2, <3>3 DEF EntryOK, HostOK, Keep
  <2>4. CASE s.cname # NoName BY <1>2, <2>2, <2>4 DEF SetCNAME
  <2> QED BY <2>3, <2>4
<1>5. CASE item.kind = "bye"
  <2>1. CASE s.own BY <1>2, <1>5, <2>1 DEF After
  <2>2. CASE ~s.own
    <3> DEFINE n == [s EXCEPT !.bye = TRUE]
    <3>1. n \in Source BY <1>1 DEF Source
    <3>2. /\ n.own = s.own /\ n.rtp = s.rtp /\ n.rtcp = s.rtcp
          /\ n.cname = s.cname /\ n.validated = s.validated /\ n.bye
      BY <1>1 DEF Source
    <3>3. After(s, item) = n BY <1>5, <2>2 DEF After
    <3> HIDE DEF n
    <3> QED BY <2>2, <3>1, <3>2, <3>3 DEF EntryOK, HostOK, Keep
  <2> QED BY <2>1, <2>2
<1> QED BY <1>3, <1>4, <1>5 DEF Items

(* A contributing source is validated. *)
LEMMA Marked ==
  ASSUME NEW own, NEW x, NEW s, EntryOK(own, x, s)
  PROVE  /\ EntryOK(own, x, [s EXCEPT !.validated = TRUE])
         /\ Keep(s, [s EXCEPT !.validated = TRUE])
<1>1. s \in Source BY DEF EntryOK
<1> DEFINE n == [s EXCEPT !.validated = TRUE]
<1>2. n \in Source BY <1>1 DEF Source
<1>3. /\ n.own = s.own /\ n.rtp = s.rtp /\ n.rtcp = s.rtcp
      /\ n.cname = s.cname /\ n.validated /\ n.bye = s.bye
  BY <1>1 DEF Source
<1> HIDE DEF n
<1>4. EntryOK(own, x, n) /\ Keep(s, n) BY <1>2, <1>3 DEF EntryOK, HostOK, Keep
<1> QED BY <1>4 DEF n
-----------------------------------------------------------------------------
(* The table.                                                                *)

(* A table updated field by field *)
LEMMA Updated ==
  ASSUME NEW t, IsTable(t), NEW f,
         NEW i \in Int, NEW j \in Int, NEW k \in Int
  PROVE  [t EXCEPT !.src = f, !.total = i, !.senders = j, !.active = k]
           \in [src : {f}, own : {t.own}, total : Int, senders : Int, active : Int]
BY DEF IsTable

(* An entry put into a table, whatever becomes of the counters *)
LEMMA Placed ==
  ASSUME NEW t, TableInv(t), NEW x \in SSRCs, NEW s, EntryOK(t.own, x, s),
         x \in Entries(t) => Keep(t.src[x], s),
         NEW u \in [src : {Put(t.src, x, s)}, own : {t.own},
                    total : Int, senders : Int, active : Int]
  PROVE  TableInv(u) /\ Extends(t, u)
<1>1. u.src = Put(t.src, x, s) /\ u.own = t.own OBVIOUS
<1>2. Entries(u) = Entries(t) \union {x} BY <1>1 DEF Entries, Put
<1>3. \A y \in Entries(u) : u.src[y] = IF y = x THEN s ELSE t.src[y]
  BY <1>1, <1>2 DEF Entries, Put
<1>4. Entries(t) \subseteq SSRCs BY DEF TableInv, IsTable
<1>5. IsTable(u) BY <1>1, <1>2, <1>4 DEF IsTable
<1>6. TableInv(u) BY <1>1, <1>2, <1>3, <1>5 DEF TableInv
<1>7. Extends(t, u) BY <1>1, <1>2, <1>3 DEF Extends, Keep
<1> QED BY <1>6, <1>7

LEMMA Stored ==
  ASSUME NEW t, TableInv(t), NEW x \in SSRCs, NEW s, EntryOK(t.own, x, s),
         x \in Entries(t) => Keep(t.src[x], s)
  PROVE  TableInv(Store(t, x, s)) /\ Extends(t, Store(t, x, s))
<1> DEFINE u == Store(t, x, s)
           old == Known(t, x)
           f == Put(t.src, x, s)
           n == t.total + One(x \notin Entries(t))
           m == t.senders + One(s.sender /\ ~old.sender)
           k == t.active + One(IsActive(s) /\ ~IsActive(old))
                         - One(IsActive(old) /\ ~IsActive(s))
<1>1. /\ One(x \notin Entries(t)) \in Int /\ One(s.sender /\ ~old.sender) \in Int
      /\ One(IsActive(s) /\ ~IsActive(old)) \in Int
      /\ One(IsActive(old) /\ ~IsActive(s)) \in Int
  BY DEF One
<1>2. IsTable(t) BY DEF TableInv
<1>3. n \in Int /\ m \in Int /\ k \in Int BY <1>1, <1>2 DEF IsTable
<1>4. u = [t EXCEPT !.src = f, !.total = n, !.senders = m, !.active = k] BY DEF Store
<1> HIDE DEF u, f, old, n, m, k
<1>5. u \in [src : {f}, own : {t.own}, total : Int, senders : Int, active : Int]
  BY <1>2, <1>3, <1>4, Updated
<1> QED BY <1>5, Placed DEF u, f

LEMMA KnownOK ==
  ASSUME NEW t, TableInv(t), NEW x \in SSRCs
  PROVE  EntryOK(t.own, x, Known(t, x))
BY NewSourceOK DEF Known, TableInv

LEMMA KeepTransitive ==
  ASSUME NEW s, NEW n, NEW m, Keep(s, n), Keep(n, m)
  PROVE  Keep(s, m)
BY DEF Keep

LEMMA ItemKeepsTable ==
  ASSUME NEW t, TableInv(t), NEW item \in Items, NEW a \in Senders
  PROVE  LET r == ProcessItem(t, item, a)
         IN TableInv(r.t) /\ Extends(t, r.t) /\ r.own \in BOOLEAN
<1> DEFINE x == item.ssrc
           s == Known(t, x)
           n == StoreAddress(s, a, FALSE)
<1>1. x \in SSRCs BY DEF Items
<1>2. EntryOK(t.own, x, s) BY <1>1, KnownOK
<1>3. CASE x \in Entries(t) /\ CheckCollision(s, a, FALSE)
  <2>1. ProcessItem(t, item, a) = Collision(t, s) BY <1>3 DEF ProcessItem
  <2>2. Extends(t, t) BY DEF Extends, Keep
  <2> QED BY <1>2, <2>1, <2>2 DEF Collision, EntryOK, Source
<1>4. CASE ~(x \in Entries(t) /\ CheckCollision(s, a, FALSE))
  <2>1. ~CheckCollision(s, a, FALSE)
    BY <1>4, SourcesAssumption DEF Known, CheckCollision, NewSource
  <2>2. EntryOK(t.own, x, n) /\ Keep(s, n) BY <1>2, <2>1, AddressStored
  <2>3. EntryOK(t.own, x, After(n, item)) /\ Keep(s, After(n, item))
    BY <2>2, ItemProcessed, KeepTransitive
  <2>4. ProcessItem(t, item, a) = NoCollision(Store(t, x, After(n, item)))
    BY <1>4 DEF ProcessItem
  <2>5. x \in Entries(t) => Keep(t.src[x], After(n, item)) BY <2>3 DEF Known
  <2> HIDE DEF x, s, n
  <2> QED BY <1>1, <2>3, <2>4, <2>5, Stored DEF NoCollision
<1> QED BY <1>3, <1>4

(* A contributing source *)
LEMMA CSRCKeepsTable ==
  ASSUME NEW t, TableInv(t), NEW own \in BOOLEAN, NEW x \in SSRCs, NEW a \in Senders
  PROVE  LET r == ProcessCSRC([t |-> t, own |-> own], x, a)
         IN TableInv(r.t) /\ Extends(t, r.t) /\ r.own \in BOOLEAN
<1> DEFINE c == [t |-> t, own |-> own]
           r == ProcessCSRC(c, x, a)
           s == Known(t, x)
           marked == [s EXCEPT !.validated = TRUE]
           n == StoreAddress(marked, a, TRUE)
<1>1. EntryOK(t.own, x, s) BY KnownOK
<1>2. EntryOK(t.own, x, marked) /\ Keep(s, marked) BY <1>1, Marked
<1>3. CASE x \notin Entries(t)
  <2>1. r = [t |-> Store(t, x, marked), own |-> own] BY <1>3 DEF ProcessCSRC
  <2> HIDE DEF c, r, s, marked, n
  <2>2. TableInv(r.t) /\ Extends(t, r.t) /\ r.own \in BOOLEAN
    BY <1>2, <1>3, <2>1, Stored
  <2> QED BY <2>2 DEF r, c
<1>4. CASE x \in Entries(t) /\ CheckCollision(s, a, TRUE)
  <2>1. r.t = t /\ r.own = (own \/ s.own) BY <1>4 DEF ProcessCSRC
  <2>2. (own \/ s.own) \in BOOLEAN OBVIOUS
  <2>3. Extends(t, t) BY DEF Extends, Keep
  <2> HIDE DEF c, r, s, marked, n
  <2>4. TableInv(r.t) /\ Extends(t, r.t) /\ r.own \in BOOLEAN BY <2>1, <2>2, <2>3
  <2> QED BY <2>4 DEF r, c
<1>5. CASE x \in Entries(t) /\ ~CheckCollision(s, a, TRUE)
  <2> DEFINE u == [t EXCEPT !.src = Put(t.src, x, n)]
  <2>1. r = [t |-> u, own |-> own] BY <1>5 DEF ProcessCSRC
  <2>2. ~CheckCollision(marked, a, TRUE)
    BY <1>1, <1>5 DEF CheckCollision, EntryOK, Source
  <2>3. EntryOK(t.own, x, n) /\ Keep(marked, n) BY <1>2, <2>2, AddressStored
  <2>4. Keep(t.src[x], n) BY <1>2, <1>5, <2>3, KeepTransitive DEF Known
  <2>5. u \in [src : {Put(t.src, x, n)}, own : {t.own}, total : Int, senders : Int,
               active : Int]
    BY DEF TableInv, IsTable
  <2> HIDE DEF c, r, s, marked, n, u
  <2>6. TableInv(r.t) /\ Extends(t, r.t) /\ r.own \in BOOLEAN
    BY <2>1, <2>3, <2>4, <2>5, Placed
  <2> QED BY <2>6 DEF r, c
<1> QED BY <1>3, <1>4, <1>5

RTPPacket == [ssrc : SSRCs, csrc : SSRCs \union {NoSSRC}, next : BOOLEAN]

LEMMA RTPKeepsTable ==
  ASSUME NEW t, TableInv(t), NEW p \in RTPPacket, NEW a \in Senders
  PROVE  LET r == ProcessRTPPacket(t, p, a)
         IN TableInv(r.t) /\ Extends(t, r.t) /\ r.own \in BOOLEAN
<1> DEFINE s == Known(t, p.ssrc)
           n == StoreAddress(s, a, TRUE)
           new == ProcessPacket(n, p.next)
           u == Store(t, p.ssrc, new)
           r == ProcessRTPPacket(t, p, a)
<1>1. p.ssrc \in SSRCs /\ p.next \in BOOLEAN BY DEF RTPPacket
<1>2. EntryOK(t.own, p.ssrc, s) BY <1>1, KnownOK
<1>3. CASE p.ssrc \in Entries(t) /\ CheckCollision(s, a, TRUE)
  <2>1. r = Collision(t, s) BY <1>3 DEF ProcessRTPPacket
  <2>2. Extends(t, t) BY DEF Extends, Keep
  <2> QED BY <1>2, <2>1, <2>2 DEF Collision, EntryOK, Source
<1>4. CASE ~(p.ssrc \in Entries(t) /\ CheckCollision(s, a, TRUE))
  <2>1. ~CheckCollision(s, a, TRUE)
    BY <1>4, SourcesAssumption DEF Known, CheckCollision, NewSource
  <2>2. EntryOK(t.own, p.ssrc, n) /\ Keep(s, n) BY <1>2, <2>1, AddressStored
  <2>3. EntryOK(t.own, p.ssrc, new) /\ Keep(n, new) BY <1>1, <2>2, PacketProcessed
  <2>4. p.ssrc \in Entries(t) => Keep(t.src[p.ssrc], new)
    BY <2>2, <2>3, KeepTransitive DEF Known
  <2>5. TableInv(u) /\ Extends(t, u)
    <3> HIDE DEF s, n, new
    <3> QED BY <1>1, <2>3, <2>4, Stored
  <2>6. CASE new.validated /\ p.csrc # NoSSRC
    <3>1. p.csrc \in SSRCs BY <2>6 DEF RTPPacket
    <3>2. r = ProcessCSRC([t |-> u, own |-> FALSE], p.csrc, a)
      BY <1>4, <2>6 DEF ProcessRTPPacket, NoCollision
    <3> HIDE DEF s, n, new, u, r
    <3>3. TableInv(r.t) /\ Extends(u, r.t) /\ r.own \in BOOLEAN
      BY <2>5, <3>1, <3>2, CSRCKeepsTable
    <3>4. Extends(t, r.t) BY <2>5, <3>3, KeepTransitive DEF Extends
    <3> QED BY <3>3, <3>4 DEF r
  <2>7. CASE ~(new.validated /\ p.csrc # NoSSRC)
    <3>1. r = NoCollision(u) BY <1>4, <2>7 DEF ProcessRTPPacket
    <3> HIDE DEF s, n, new, u
    <3> QED BY <2>5, <3>1 DEF NoCollision
  <2> QED BY <2>6, <2>7
<1> QED BY <1>3, <1>4
-----------------------------------------------------------------------------
(* What a packet from another host leaves alone.                             *)

LEMMA ElsewhereCollides ==
  ASSUME NEW s, NEW a, Elsewhere(s, a), NEW isrtp \in BOOLEAN
  PROVE  CheckCollision(s, a, isrtp)
BY DEF Elsewhere, CheckCollision

LEMMA StoredAs ==
  ASSUME NEW t, IsTable(t), NEW x \in SSRCs, NEW s
  PROVE  IsTable(Store(t, x, s)) /\ Store(t, x, s).src = Put(t.src, x, s)
<1> DEFINE u == Store(t, x, s)
           old == Known(t, x)
           f == Put(t.src, x, s)
           n == t.total + One(x \notin Entries(t))
           m == t.senders + One(s.sender /\ ~old.sender)
           k == t.active + One(IsActive(s) /\ ~IsActive(old))
                         - One(IsActive(old) /\ ~IsActive(s))
<1>1. /\ One(x \notin Entries(t)) \in Int /\ One(s.sender /\ ~old.sender) \in Int
      /\ One(IsActive(s) /\ ~IsActive(old)) \in Int
      /\ One(IsActive(old) /\ ~IsActive(s)) \in Int
  BY DEF One
<1>2. n \in Int /\ m \in Int /\ k \in Int BY <1>1 DEF IsTable
<1>3. u = [t EXCEPT !.src = f, !.total = n, !.senders = m, !.active = k] BY DEF Store
<1>4. Entries(t) \subseteq SSRCs BY DEF IsTable
<1>5. DOMAIN f = Entries(t) \union {x} BY DEF f, Put, Entries
<1> HIDE DEF u, f, old, n, m, k
<1>6. u \in [src : {f}, own : {t.own}, total : Int, senders : Int, active : Int]
  BY <1>2, <1>3, Updated
<1>7. u.src = f /\ u.own = t.own BY <1>6
<1>8. Entries(u) \subseteq SSRCs BY <1>4, <1>5, <1>7 DEF Entries
<1>9. IsTable(u) /\ u.src = f BY <1>6, <1>7, <1>8 DEF IsTable
<1> QED BY <1>9 DEF u, f

(* Entries are only added, and that of x stays as it is. *)
Spares(t, u, x) == x \in Entries(u) /\ u.src[x] = t.src[x]

LEMMA PutSpares ==
  ASSUME NEW t, NEW u, NEW y, NEW s, u.src = Put(t.src, y, s),
         NEW x \in Entries(t), x # y
  PROVE  Spares(t, u, x)
BY DEF Spares, Put, Entries

LEMMA ItemSpares ==
  ASSUME NEW t, IsTable(t), NEW item \in Items, NEW a,
         NEW x \in Entries(t), Elsewhere(t.src[x], a)
  PROVE  Spares(t, ProcessItem(t, item, a).t, x)
<1> DEFINE y == item.ssrc
           s == Known(t, y)
           n == After(StoreAddress(s, a, FALSE), item)
<1>1. y \in SSRCs BY DEF Items
<1>2. Spares(t, t, x) BY DEF Spares
<1>3. CASE y \in Entries(t) /\ CheckCollision(s, a, FALSE)
  <2>1. ProcessItem(t, item, a) = Collision(t, s) BY <1>3 DEF ProcessItem
  <2> QED BY <1>2, <2>1 DEF Collision
<1>4. CASE ~(y \in Entries(t) /\ CheckCollision(s, a, FALSE))
  <2>1. x # y BY <1>4, ElsewhereCollides DEF Known
  <2>2. ProcessItem(t, item, a) = NoCollision(Store(t, y, n)) BY <1>4 DEF ProcessItem
  <2> HIDE DEF y, s, n
  <2>3. Store(t, y, n).src = Put(t.src, y, n) BY <1>1, StoredAs
  <2>4. Spares(t, Store(t, y, n), x) BY <2>1, <2>3 DEF Spares, Put, Entries
  <2> QED BY <2>2, <2>4 DEF NoCollision
<1> QED BY <1>3, <1>4

LEMMA CSRCSpares ==
  ASSUME NEW t, IsTable(t), NEW own, NEW y \in SSRCs, NEW a,
         NEW x \in Entries(t), Elsewhere(t.src[x], a)
  PROVE  Spares(t, ProcessCSRC([t |-> t, own |-> own], y, a).t, x)
<1> DEFINE r == ProcessCSRC([t |-> t, own |-> own], y, a)
           s == Known(t, y)
           marked == [s EXCEPT !.validated = TRUE]
           n == StoreAddress(marked, a, TRUE)
<1>1. Spares(t, t, x) BY DEF Spares
<1>2. CASE y \notin Entries(t)
  <2>1. r.t = Store(t, y, marked) BY <1>2 DEF ProcessCSRC
  <2> HIDE DEF r, s, marked, n
  <2>2. r.t.src = Put(t.src, y, marked) BY <2>1, StoredAs
  <2>3. Spares(t, r.t, x) BY <1>2, <2>2 DEF Spares, Put, Entries
  <2> QED BY <2>3 DEF r
<1>3. CASE y \in Entries(t) /\ CheckCollision(s, a, TRUE)
  <2>1. r.t = t BY <1>3 DEF ProcessCSRC
  <2> QED BY <1>1, <2>1
<1>4. CASE y \in Entries(t) /\ ~CheckCollision(s, a, TRUE)
  <2>1. x # y BY <1>4, ElsewhereCollides DEF Known
  <2>2. r.t = [t EXCEPT !.src = Put(t.src, y, n)] BY <1>4 DEF ProcessCSRC
  <2> HIDE DEF r, s, marked, n
  <2>3. r.t.src = Put(t.src, y, n) BY <2>2 DEF IsTable
  <2>4. Spares(t, r.t, x) BY <2>1, <2>3 DEF Spares, Put, Entries
  <2> QED BY <2>4 DEF r
<1> QED BY <1>2, <1>3, <1>4

LEMMA RTPSpares ==
  ASSUME NEW t, IsTable(t), NEW p \in RTPPacket, NEW a,
         NEW x \in Entries(t), Elsewhere(t.src[x], a)
  PROVE  Spares(t, ProcessRTPPacket(t, p, a).t, x)
<1> DEFINE s == Known(t, p.ssrc)
           new == ProcessPacket(StoreAddress(s, a, TRUE), p.next)
           u == Store(t, p.ssrc, new)
           r == ProcessRTPPacket(t, p, a)
<1>1. p.ssrc \in SSRCs BY DEF RTPPacket
<1>2. Spares(t, t, x) BY DEF Spares
<1>3. CASE p.ssrc \in Entries(t) /\ CheckCollision(s, a, TRUE)
  <2>1. r = Collision(t, s) BY <1>3 DEF ProcessRTPPacket
  <2> QED BY <1>2, <2>1 DEF Collision
<1>4. CASE ~(p.ssrc \in Entries(t) /\ CheckCollision(s, a, TRUE))
  <2>1. x # p.ssrc BY <1>4, ElsewhereCollides DEF Known
  <2>2. IsTable(u) /\ u.src = Put(t.src, p.ssrc, new) BY <1>1, StoredAs
  <2>3. Spares(t, u, x)
    <3> HIDE DEF u, new
    <3> QED BY <2>1, <2>2, PutSpares
  <2>4. CASE new.validated /\ p.csrc # NoSSRC
    <3>1. p.csrc \in SSRCs BY <2>4 DEF RTPPacket
    <3>2. r = ProcessCSRC([t |-> u, own |-> FALSE], p.csrc, a)
      BY <1>4, <2>4 DEF ProcessRTPPacket, NoCollision
    <3> HIDE DEF s, new, u, r
    <3>3. x \in Entries(u) /\ Elsewhere(u.src[x], a) BY <2>3 DEF Spares
    <3>4. Spares(u, r.t, x) BY <2>2, <3>1, <3>2, <3>3, CSRCSpares
    <3> QED BY <2>3, <3>4 DEF Spares, r
  <2>5. CASE ~(new.validated /\ p.csrc # NoSSRC)
    <3>1. r = NoCollision(u) BY <1>4, <2>5 DEF ProcessRTPPacket
    <3> HIDE DEF s, new, u
    <3> QED BY <2>3, <3>1 DEF NoCollision
  <2> QED BY <2>4, <2>5
<1> QED BY <1>3, <1>4
-----------------------------------------------------------------------------
(* Our own entry and the timeouts.                                           *)

(* A table without an entry of ours, as it is while our SSRC changes *)
Ownerless(t) ==
  /\ IsTable(t) /\ t.own = NoSSRC
  /\ \A y \in Entries(t) : EntryOK(NoSSRC, y, t.src[y])

LEMMA OwnCreated ==
  ASSUME NEW t, Ownerless(t), NEW x \in SSRCs \ Entries(t)
  PROVE  LET u == CreateOwnSSRC(t, x)
         IN /\ TableInv(u) /\ u.own = x /\ Entries(u) = Entries(t) \union {x}
            /\ \A y \in Entries(t) : u.src[y] = t.src[y]
<1> DEFINE u == CreateOwnSSRC(t, x)
           f == Put(t.src, x, OwnSource)
           n == t.total + 1
           k == t.active + 1
<1>1. t \in [src : {t.src}, own : {NoSSRC}, total : Int, senders : Int, active : Int]
  BY DEF Ownerless, IsTable
<1>2. u = [t EXCEPT !.src = f, !.own = x, !.total = n, !.active = k]
  BY DEF CreateOwnSSRC, Ownerless
<1>3. n \in Int /\ k \in Int BY <1>1
<1> HIDE DEF u, n, k, f
<1>4. u \in [src : {f}, own : {x}, total : Int, senders : Int, active : Int]
  BY <1>1, <1>2, <1>3
<1>5. u.src = f /\ u.own = x BY <1>4
<1>6. Entries(u) = Entries(t) \union {x} BY <1>5 DEF f, Put, Entries
<1>7. \A y \in Entries(u) : u.src[y] = IF y = x THEN OwnSource ELSE t.src[y]
  BY <1>5, <1>6 DEF f, Put, Entries
<1>8. EntryOK(x, x, OwnSource)
  <2>1. NewSource \in Source BY SourcesAssumption DEF NewSource, Source
  <2>2. OwnSource \in Source BY <2>1 DEF OwnSource, Source
  <2>3. /\ OwnSource.own /\ OwnSource.validated /\ OwnSource.rtp = Self
        /\ OwnSource.rtcp = Self /\ OwnSource.bye = NewSource.bye
    BY <2>1 DEF OwnSource, Source
  <2>4. ~NewSource.bye BY DEF NewSource
  <2> QED BY <2>2, <2>3, <2>4, SourcesAssumption DEF EntryOK, HostOK
<1>9. ASSUME NEW y \in Entries(t) PROVE EntryOK(x, y, t.src[y])
  <2>1. EntryOK(NoSSRC, y, t.src[y]) /\ y \in SSRCs BY DEF Ownerless, IsTable
  <2> QED BY <2>1, SourcesAssumption DEF EntryOK
<1>10. IsTable(u) BY <1>4, <1>5, <1>6 DEF IsTable, Ownerless
<1>11. TableInv(u) BY <1>5, <1>6, <1>7, <1>8, <1>9, <1>10 DEF TableInv
<1> QED BY <1>5, <1>6, <1>7, <1>11 DEF u

LEMMA OwnDeleted ==
  ASSUME NEW t, TableInv(t)
  PROVE  LET u == DeleteOwnSSRC(t)
         IN /\ Ownerless(u) /\ Entries(u) = Entries(t) \ {t.own}
            /\ \A y \in Entries(u) : u.src[y] = t.src[y]
<1> DEFINE u == DeleteOwnSSRC(t)
           f == Without(t.src, {t.own})
           n == t.total - 1
           m == t.senders - One(t.src[t.own].sender)
           k == t.active - One(IsActive(t.src[t.own]))
<1>1. IsTable(t) /\ t.own \in SSRCs BY DEF TableInv, IsTable
<1>2. u = [t EXCEPT !.src = f, !.own = NoSSRC, !.total = n, !.senders = m, !.active = k]
  BY <1>1, SourcesAssumption DEF DeleteOwnSSRC
<1>3. One(t.src[t.own].sender) \in Int /\ One(IsActive(t.src[t.own])) \in Int BY DEF One
<1>4. n \in Int /\ m \in Int /\ k \in Int BY <1>1, <1>3 DEF IsTable
<1> HIDE DEF u, n, m, k, f
<1>5. u \in [src : {f}, own : {NoSSRC}, total : Int, senders : Int, active : Int]
  BY <1>1, <1>2, <1>4 DEF IsTable
<1>6. u.src = f /\ u.own = NoSSRC BY <1>5
<1>7. Entries(u) = Entries(t) \ {t.own} BY <1>6 DEF f, Without, Entries
<1>8. \A y \in Entries(u) : u.src[y] = t.src[y]
  BY <1>6, <1>7 DEF f, Without, Entries
<1>9. ASSUME NEW y \in Entries(u) PROVE EntryOK(NoSSRC, y, u.src[y])
  <2>1. EntryOK(t.own, y, t.src[y]) /\ y \in SSRCs /\ y # t.own
    BY <1>1, <1>7 DEF TableInv, IsTable
  <2> QED BY <1>8, <2>1, SourcesAssumption DEF EntryOK
<1>10. IsTable(u) BY <1>1, <1>5, <1>6, <1>7 DEF IsTable
<1>11. Ownerless(u) BY <1>6, <1>9, <1>10 DEF Ownerless
<1> QED BY <1>7, <1>8, <1>11 DEF u

(* A step leaves the entries of others as it should. *)
KeepsOthers(t, u) ==
  \A x \in (Entries(t) \intersect Entries(u)) \ {t.own, u.own} : Keep(t.src[x], u.src[x])

LEMMA SentKeepsTable ==
  ASSUME NEW t, TableInv(t)
  PROVE  LET u == SentRTPPacket(t)
         IN TableInv(u) /\ KeepsOthers(t, u) /\ u.own = t.own
<1> DEFINE u == SentRTPPacket(t)
           s == [t.src[t.own] EXCEPT !.sender = TRUE]
           m == t.senders + One(~t.src[t.own].sender)
<1>1. IsTable(t) /\ t.own \in SSRCs /\ t.own \in Entries(t) BY DEF TableInv, IsTable
<1>2. u = [t EXCEPT !.src = Put(t.src, t.own, s), !.senders = m]
  BY <1>1, SourcesAssumption DEF SentRTPPacket
<1>3. One(~t.src[t.own].sender) \in Int BY DEF One
<1>4. m \in Int BY <1>1, <1>3 DEF IsTable
<1>5. EntryOK(t.own, t.own, t.src[t.own]) BY <1>1 DEF TableInv
<1>6. EntryOK(t.own, t.own, s) /\ Keep(t.src[t.own], s)
  BY <1>5 DEF EntryOK, Source, HostOK, Keep
<1> HIDE DEF u, m, s
<1>7. u \in [src : {Put(t.src, t.own, s)}, own : {t.own}, total : Int, senders : Int,
             active : Int]
  BY <1>1, <1>2, <1>4 DEF IsTable
<1>8. TableInv(u) /\ Extends(t, u) BY <1>1, <1>6, <1>7, Placed
<1> QED BY <1>8 DEF Extends, KeepsOthers, u

LEMMA TimeoutsKeepTable ==
  ASSUME NEW t, TableInv(t), NEW silent, NEW quiet, NEW left
  PROVE  LET u == MultipleTimeouts(t, silent, quiet, left)
         IN TableInv(u) /\ KeepsOthers(t, u) /\ u.own = t.own
<1> DEFINE u == MultipleTimeouts(t, silent, quiet, left)
           gone == {x \in Entries(t) \ {t.own} :
                      x \in silent \/ (t.src[x].bye /\ x \in left)}
           kept == Entries(t) \ gone
           sends(x) == t.src[x].sender /\ x \notin quiet
           f == [x \in kept |-> [t.src[x] EXCEPT !.sender = sends(x)]]
           n == Cardinality(kept)
           m == Cardinality({x \in kept : sends(x)})
           k == Cardinality({x \in kept : IsActive(t.src[x])})
<1>1. IsTable(t) /\ t.own \in Entries(t) /\ Entries(t) \subseteq SSRCs
  BY DEF TableInv, IsTable
<1>2. n \in Int /\ m \in Int /\ k \in Int
  <2>1. IsFiniteSet(kept) /\ kept \subseteq SSRCs BY <1>1, SourcesAssumption, FS_Subset
  <2>2. IsFiniteSet({x \in kept : sends(x)}) /\ IsFiniteSet({x \in kept : IsActive(t.src[x])})
    BY <2>1, FS_Subset
  <2>3. n \in Nat /\ m \in Nat /\ k \in Nat BY <2>1, <2>2, FS_CardinalityType
  <2> QED BY <2>3
<1>3. u = [t EXCEPT !.src = f, !.total = n, !.senders = m, !.active = k]
  BY DEF MultipleTimeouts
<1>4. ASSUME NEW x \in kept PROVE EntryOK(t.own, x, f[x]) /\ Keep(t.src[x], f[x])
  <2>1. EntryOK(t.own, x, t.src[x]) BY DEF TableInv
  <2>2. sends(x) \in BOOLEAN OBVIOUS
  <2> DEFINE b == sends(x)
  <2>3. f[x] = [t.src[x] EXCEPT !.sender = b] OBVIOUS
  <2> HIDE DEF f, b
  <2> QED BY <2>1, <2>2, <2>3 DEF EntryOK, Source, HostOK, Keep, b
<1>5. DOMAIN f = kept /\ kept \subseteq Entries(t) /\ t.own \in kept BY <1>1
<1> HIDE DEF u, f, n, m, k, gone, kept, sends
<1>6. u \in [src : {f}, own : {t.own}, total : Int, senders : Int, active : Int]
  BY <1>1, <1>2, <1>3, Updated
<1>7. u.src = f /\ u.own = t.own /\ Entries(u) = kept BY <1>5, <1>6 DEF Entries
<1>8. IsTable(u) BY <1>1, <1>5, <1>6, <1>7 DEF IsTable
<1>9. TableInv(u) BY <1>4, <1>5, <1>7, <1>8 DEF TableInv
<1>10. KeepsOthers(t, u) BY <1>4, <1>7 DEF KeepsOthers
<1> QED BY <1>7, <1>9, <1>10 DEF u
-----------------------------------------------------------------------------
(* The session.                                                              *)

Inv ==
  /\ TableInv(table)
  /\ collisions \subseteq Addresses
  /\ incoming \in [rtp : BOOLEAN, from : Addresses \union {Unset}, own : BOOLEAN]
  /\ incoming # NoPacket => incoming.from \in Addresses

Step == TableInv(table') /\ KeepsOthers(table, table')

LEMMA InitInv == Init => Inv
<1> SUFFICES ASSUME Init PROVE Inv OBVIOUS
<1>1. PICK x \in SSRCs : table = CreateOwnSSRC(EmptyTable, x) BY DEF Init
<1>2. Ownerless(EmptyTable) /\ Entries(EmptyTable) = {}
  BY DEF Ownerless, IsTable, EmptyTable, Entries
<1>3. TableInv(table) BY <1>1, <1>2, OwnCreated
<1>4. NoPacket \in [rtp : BOOLEAN, from : Addresses \union {Unset}, own : BOOLEAN]
  BY DEF NoPacket
<1> QED BY <1>3, <1>4 DEF Init, Inv

LEMMA NextInv == Inv /\ [Next]_vars => Inv' /\ Step
<1> SUFFICES ASSUME Inv, [Next]_vars PROVE Inv' /\ Step OBVIOUS
<1>1. TableInv(table) /\ KeepsOthers(table, table) BY DEF Inv, KeepsOthers, Keep
<1>2. \A a \in Addresses : SenderAddress(a) \in Senders BY DEF SenderAddress, Senders
<1>3. ASSUME NEW u, Extends(table, u) PROVE KeepsOthers(table, u)
  BY <1>3 DEF Extends, KeepsOthers
<1>4. \A a \in Addresses, rtp \in BOOLEAN, own \in BOOLEAN :
        LET p == [rtp |-> rtp, from |-> a, own |-> own]
        IN p \in [rtp : BOOLEAN, from : Addresses \union {Unset}, own : BOOLEAN] /\ p.from = a
  OBVIOUS
<1>5. CASE ReceiveRTP
  <2>1. PICK a \in Addresses, x \in SSRCs, c \in SSRCs \union {NoSSRC}, next \in BOOLEAN :
          LET p == [ssrc |-> x, csrc |-> c, next |-> next]
              r == ProcessRTPPacket(table, p, SenderAddress(a))
          IN table' = r.t /\ incoming' = [rtp |-> TRUE, from |-> a, own |-> r.own]
    BY <1>5 DEF ReceiveRTP
  <2> DEFINE p == [ssrc |-> x, csrc |-> c, next |-> next]
             r == ProcessRTPPacket(table, p, SenderAddress(a))
  <2>2. p \in RTPPacket BY DEF RTPPacket
  <2>3. table' = r.t /\ incoming' = [rtp |-> TRUE, from |-> a, own |-> r.own] BY <2>1
  <2> HIDE DEF p
  <2>4. TableInv(r.t) /\ Extends(table, r.t) /\ r.own \in BOOLEAN
    BY <1>1, <1>2, <2>2, RTPKeepsTable
  <2> HIDE DEF r
  <2> QED BY <1>3, <1>4, <1>5, <2>3, <2>4 DEF ReceiveRTP, Inv, Step
<1>6. CASE ReceiveRTCP
  BY <1>1, <1>4, <1>6 DEF ReceiveRTCP, Inv, Step
<1>7. CASE NextItem
  <2>1. PICK item \in Items :
          LET r == ProcessItem(table, item, SenderAddress(incoming.from))
          IN table' = r.t /\ incoming' = [incoming EXCEPT !.own = @ \/ r.own]
    BY <1>7 DEF NextItem
  <2> DEFINE r == ProcessItem(table, item, SenderAddress(incoming.from))
             own == incoming.own \/ r.own
  <2>2. incoming.from \in Addresses /\ collisions' = collisions BY <1>7 DEF NextItem, Inv
  <2>3. TableInv(r.t) /\ Extends(table, r.t) BY <1>1, <1>2, <2>2, ItemKeepsTable
  <2>4. table' = r.t /\ incoming' = [incoming EXCEPT !.own = own] /\ own \in BOOLEAN
    BY <2>1
  <2> HIDE DEF r, own
  <2>5. /\ incoming' \in [rtp : BOOLEAN, from : Addresses \union {Unset}, own : BOOLEAN]
        /\ incoming'.from = incoming.from
    BY <2>4 DEF Inv
  <2> QED BY <1>3, <2>2, <2>3, <2>4, <2>5 DEF Inv, Step
<1>8. CASE EndOfPacket
  <2>1. NoPacket \in [rtp : BOOLEAN, from : Addresses \union {Unset}, own : BOOLEAN]
    BY DEF NoPacket
  <2>2. incoming.from \in Addresses /\ incoming' = NoPacket BY <1>8 DEF EndOfPacket, Inv
  <2>3. CASE UNCHANGED <<table, collisions>> BY <1>1, <2>1, <2>2, <2>3 DEF Inv, Step
  <2>4. CASE /\ \E x \in Free(table) : table' = ChangeOwnSSRC(table, x)
             /\ collisions' = collisions \union {incoming.from}
    <3>1. PICK x \in Free(table) : table' = ChangeOwnSSRC(table, x) BY <2>4
    <3> DEFINE u == DeleteOwnSSRC(table)
    <3>2. /\ Ownerless(u) /\ Entries(u) = Entries(table) \ {table.own}
          /\ \A y \in Entries(u) : u.src[y] = table.src[y]
      BY <1>1, OwnDeleted
    <3>3. table' = CreateOwnSSRC(u, x) BY <3>1 DEF ChangeOwnSSRC
    <3>4. x \in SSRCs \ Entries(u) BY <3>2 DEF Free
    <3> HIDE DEF u
    <3>5. /\ TableInv(table') /\ table'.own = x
          /\ Entries(table') = Entries(u) \union {x}
          /\ \A y \in Entries(u) : table'.src[y] = u.src[y]
      BY <3>2, <3>3, <3>4, OwnCreated
    <3>6. KeepsOthers(table, table') BY <3>2, <3>5 DEF KeepsOthers, Keep
    <3> QED BY <2>1, <2>2, <2>4, <3>5, <3>6 DEF Inv, Step
  <2> QED BY <1>8, <2>3, <2>4 DEF EndOfPacket
<1>9. CASE Send BY <1>1, <1>9, SentKeepsTable DEF Send, Inv, Step
<1>10. CASE Timeouts
  <2>1. PICK silent, quiet, left, old :
          /\ table' = MultipleTimeouts(table, silent, quiet, left)
          /\ collisions' = collisions \ old
    BY <1>10 DEF Timeouts
  <2>2. TableInv(table') /\ KeepsOthers(table, table') BY <1>1, <2>1, TimeoutsKeepTable
  <2> QED BY <1>10, <2>1, <2>2 DEF Timeouts, Inv, Step
<1>11. CASE UNCHANGED vars BY <1>1, <1>11 DEF vars, Inv, Step
<1> QED BY <1>5, <1>6, <1>7, <1>8, <1>9, <1>10, <1>11 DEF Next
-----------------------------------------------------------------------------
(* The counters.                                                             *)

SendersOf(t) == {x \in Entries(t) : t.src[x].sender}
ActiveOf(t) == {x \in Entries(t) : IsActive(t.src[x])}

(* A sender is a validated source with an address to send from. *)
SenderOK(s) == s.sender /\ ~s.own => s.validated /\ s.data /\ s.rtp # Unset

Counted(t) ==
  /\ t.total = Cardinality(Entries(t))
  /\ t.senders = Cardinality(SendersOf(t))
  /\ t.active <= Cardinality(ActiveOf(t))
  /\ \A x \in Entries(t) : SenderOK(t.src[x])

(* What a packet does to a source that may be a sender *)
Sending(s, n) == SenderOK(n) /\ (s.sender => n.sender)

(* Two sets that differ by one element at most *)
LEMMA OneChanged ==
  ASSUME NEW S, NEW T, NEW x, IsFiniteSet(S), T \ {x} = S \ {x}
  PROVE  /\ IsFiniteSet(T) /\ Cardinality(S) \in Nat /\ Cardinality(T) \in Nat
         /\ Cardinality(T) = Cardinality(S) + One(x \in T) - One(x \in S)
<1> DEFINE U == S \ {x}
           c == Cardinality(U)
<1>1. Cardinality(S) \in Nat BY FS_CardinalityType
<1>2. IsFiniteSet(U) /\ c = IF x \in S THEN Cardinality(S) - 1 ELSE Cardinality(S)
  BY FS_RemoveElement
<1>3. x \notin U /\ c \in Nat BY <1>2, FS_CardinalityType
<1>4. IsFiniteSet(U \union {x}) /\ Cardinality(U \union {x}) = c + 1
  BY <1>2, <1>3, FS_AddElement
<1>5. T = U \/ T = U \union {x} BY DEF U
<1>6. IsFiniteSet(T) /\ Cardinality(T) = IF x \in T THEN c + 1 ELSE c
  <2>1. CASE T = U BY <1>2, <1>3, <2>1
  <2>2. CASE T = U \union {x} BY <1>4, <2>2
  <2> QED BY <1>5, <2>1, <2>2
<1> HIDE DEF c
<1> QED BY <1>1, <1>2, <1>3, <1>6 DEF One

(* The sets that are counted are finite. *)
LEMMA Finite ==
  ASSUME NEW t, IsTable(t)
  PROVE  /\ IsFiniteSet(Entries(t)) /\ IsFiniteSet(SendersOf(t)) /\ IsFiniteSet(ActiveOf(t))
         /\ Cardinality(Entries(t)) \in Nat /\ Cardinality(SendersOf(t)) \in Nat
         /\ Cardinality(ActiveOf(t)) \in Nat
<1>1. IsFiniteSet(Entries(t)) BY SourcesAssumption, FS_Subset DEF IsTable
<1>2. IsFiniteSet(SendersOf(t)) /\ IsFiniteSet(ActiveOf(t))
  BY <1>1, FS_Subset DEF SendersOf, ActiveOf
<1> QED BY <1>1, <1>2, FS_CardinalityType

LEMMA Fields ==
  ASSUME NEW t, IsTable(t), NEW f, NEW i, NEW j, NEW k
  PROVE  LET u == [t EXCEPT !.src = f, !.total = i, !.senders = j, !.active = k]
         IN u.src = f /\ u.own = t.own /\ u.total = i /\ u.senders = j /\ u.active = k
BY DEF IsTable

(* An entry put into a table: how the three counts change *)
LEMMA PlacedCounts ==
  ASSUME NEW t, IsTable(t), NEW x, NEW s, NEW u, u.src = Put(t.src, x, s),
         s.sender \in BOOLEAN
  PROVE  /\ Cardinality(Entries(u)) = Cardinality(Entries(t)) + One(x \notin Entries(t))
         /\ Cardinality(SendersOf(u)) =
              Cardinality(SendersOf(t)) + One(s.sender) - One(x \in SendersOf(t))
         /\ Cardinality(ActiveOf(u)) =
              Cardinality(ActiveOf(t)) + One(IsActive(s)) - One(x \in ActiveOf(t))
<1>1. Entries(u) = Entries(t) \union {x} BY DEF Entries, Put
<1>2. \A y \in Entries(u) : u.src[y] = IF y = x THEN s ELSE t.src[y]
  BY <1>1 DEF Entries, Put
<1>3. SendersOf(u) \ {x} = SendersOf(t) \ {x} /\ ActiveOf(u) \ {x} = ActiveOf(t) \ {x}
  BY <1>1, <1>2 DEF SendersOf, ActiveOf
<1>4. (x \in SendersOf(u) <=> s.sender) /\ (x \in ActiveOf(u) <=> IsActive(s))
  BY <1>1, <1>2 DEF SendersOf, ActiveOf
<1>5. One(x \in SendersOf(u)) = One(s.sender) /\ One(x \in ActiveOf(u)) = One(IsActive(s))
  BY <1>4 DEF One
<1>6. Cardinality(SendersOf(u)) =
        Cardinality(SendersOf(t)) + One(x \in SendersOf(u)) - One(x \in SendersOf(t))
  BY <1>3, Finite, OneChanged
<1>7. Cardinality(ActiveOf(u)) =
        Cardinality(ActiveOf(t)) + One(x \in ActiveOf(u)) - One(x \in ActiveOf(t))
  BY <1>3, Finite, OneChanged
<1>8. Cardinality(Entries(u)) = Cardinality(Entries(t)) + One(x \notin Entries(t))
  <2> DEFINE E == Entries(t)
  <2>1. IsFiniteSet(E) /\ Cardinality(E) \in Nat BY Finite
  <2>2. Cardinality(E \union {x}) = IF x \in E THEN Cardinality(E) ELSE Cardinality(E) + 1
    BY <2>1, FS_AddElement
  <2> HIDE DEF E
  <2>3. Cardinality(E \union {x}) = Cardinality(E) + One(x \notin E) BY <2>1, <2>2 DEF One
  <2> QED BY <1>1, <2>3 DEF E
<1> QED BY <1>5, <1>6, <1>7, <1>8

LEMMA StoredCounted ==
  ASSUME NEW t, TableInv(t), Counted(t), NEW x \in SSRCs, NEW s, s \in Source,
         Sending(Known(t, x), s)
  PROVE  Counted(Store(t, x, s))
<1> DEFINE u == Store(t, x, s)
           old == Known(t, x)
           f == Put(t.src, x, s)
           n == t.total + One(x \notin Entries(t))
           m == t.senders + One(s.sender /\ ~old.sender)
           k == t.active + One(IsActive(s) /\ ~IsActive(old))
                         - One(IsActive(old) /\ ~IsActive(s))
           e == Cardinality(Entries(t))
           d == Cardinality(SendersOf(t))
           c == Cardinality(ActiveOf(t))
<1>1. IsTable(t) BY DEF TableInv
<1>2. u = [t EXCEPT !.src = f, !.total = n, !.senders = m, !.active = k] BY DEF Store
<1>3. u.src = f /\ u.total = n /\ u.senders = m /\ u.active = k
  <2> HIDE DEF u, f, n, m, k
  <2> QED BY <1>1, <1>2, Fields
<1>4. (x \in SendersOf(t) <=> old.sender) /\ (x \in ActiveOf(t) <=> IsActive(old))
  BY DEF Known, SendersOf, ActiveOf, NewSource, IsActive
<1>5. old.sender => s.sender BY DEF Sending
<1>6. e \in Nat /\ d \in Nat /\ c \in Nat /\ t.active \in Int BY <1>1, Finite DEF IsTable
<1>7. t.total = e /\ t.senders = d /\ t.active <= c BY DEF Counted
<1>8. s.sender \in BOOLEAN BY DEF Source
<1>9. /\ Cardinality(Entries(u)) = e + One(x \notin Entries(t))
      /\ Cardinality(SendersOf(u)) = d + One(s.sender) - One(x \in SendersOf(t))
      /\ Cardinality(ActiveOf(u)) = c + One(IsActive(s)) - One(x \in ActiveOf(t))
  <2> HIDE DEF u
  <2> QED BY <1>1, <1>3, <1>8, PlacedCounts
<1>10. ASSUME NEW y \in Entries(u) PROVE SenderOK(u.src[y])
  <2>1. y \in Entries(t) \union {x} /\ u.src[y] = IF y = x THEN s ELSE t.src[y]
    <3> HIDE DEF u
    <3> QED BY <1>3, <1>10 DEF Entries, Put
  <2> HIDE DEF u
  <2> QED BY <2>1 DEF Counted, Sending
<1> HIDE DEF u, old, e, d, c
<1>11. u.total = Cardinality(Entries(u)) BY <1>3, <1>7, <1>9
<1>12. u.senders = Cardinality(SendersOf(u))
  BY <1>3, <1>4, <1>5, <1>6, <1>7, <1>9 DEF One
<1>13. u.active <= Cardinality(ActiveOf(u))
  BY <1>3, <1>4, <1>6, <1>7, <1>9 DEF One
<1> HIDE DEF f, n, m, k
<1>14. Counted(u) BY <1>10, <1>11, <1>12, <1>13 DEF Counted
<1> QED BY <1>14 DEF u

LEMMA KnownSending ==
  ASSUME NEW t, TableInv(t), Counted(t), NEW x \in SSRCs
  PROVE  SenderOK(Known(t, x))
BY DEF Counted, Known, SenderOK, NewSource

LEMMA AddressSending ==
  ASSUME NEW s \in Source, SenderOK(s), NEW a \in Senders, NEW isrtp \in BOOLEAN
  PROVE  /\ Sending(s, StoreAddress(s, a, isrtp))
         /\ isrtp => StoreAddress(s, a, isrtp).rtp # Unset
<1>1. a # Unset BY SourcesAssumption DEF Senders
<1>2. CASE isrtp
  <2> DEFINE b == IF s.rtp = Unset THEN a ELSE s.rtp
             n == [s EXCEPT !.rtp = b]
  <2>1. StoreAddress(s, a, isrtp) = n BY <1>2 DEF StoreAddress
  <2>2. b # Unset BY <1>1
  <2>3. /\ n.rtp = b /\ n.sender = s.sender /\ n.own = s.own
        /\ n.validated = s.validated /\ n.data = s.data
    BY DEF Source
  <2> HIDE DEF n, b
  <2> QED BY <2>1, <2>2, <2>3 DEF Sending, SenderOK
<1>3. CASE ~isrtp
  <2> DEFINE b == IF s.rtcp = Unset THEN a ELSE s.rtcp
             n == [s EXCEPT !.rtcp = b]
  <2>1. StoreAddress(s, a, isrtp) = n BY <1>3 DEF StoreAddress
  <2>2. /\ n.rtp = s.rtp /\ n.sender = s.sender /\ n.own = s.own
        /\ n.validated = s.validated /\ n.data = s.data
    BY DEF Source
  <2> HIDE DEF n, b
  <2> QED BY <1>3, <2>1, <2>2 DEF Sending, SenderOK
<1> QED BY <1>2, <1>3

LEMMA PacketSending ==
  ASSUME NEW s \in Source, SenderOK(s), s.rtp # Unset, NEW next \in BOOLEAN
  PROVE  Sending(s, ProcessPacket(s, next))
<1>1. Sending(s, Accept(s))
  <2>1. /\ Accept(s).rtp = s.rtp /\ Accept(s).sender = (s.sender \/ ~s.own)
        /\ Accept(s).own = s.own /\ Accept(s).validated /\ Accept(s).data
    BY DEF Accept, Source
  <2> QED BY <2>1 DEF Sending, SenderOK
<1>2. ASSUME NEW p PROVE Sending(s, [s EXCEPT !.probation = p])
  BY DEF Sending, SenderOK, Source
<1>3. CASE s.data \/ s.validated BY <1>1, <1>3 DEF ProcessPacket
<1>4. CASE ~(s.data \/ s.validated) /\ (s.probation = 0 \/ ~next)
  BY <1>2, <1>4 DEF ProcessPacket
<1>5. CASE ~(s.data \/ s.validated) /\ ~(s.probation = 0 \/ ~next) /\ s.probation = 1
  BY <1>1, <1>5 DEF ProcessPacket
<1>6. CASE ~(s.data \/ s.validated) /\ ~(s.probation = 0 \/ ~next) /\ s.probation # 1
  BY <1>2, <1>6 DEF ProcessPacket
<1> QED BY <1>3, <1>4, <1>5, <1>6

LEMMA ItemSending ==
  ASSUME NEW s \in Source, SenderOK(s), NEW item \in Items
  PROVE  Sending(s, After(s, item))
<1>1. Sending(s, s) BY DEF Sending
<1>2. Sending(s, [s EXCEPT !.bye = TRUE]) BY DEF Sending, SenderOK, Source
<1>3. Sending(s, [s EXCEPT !.cname = item.name, !.validated = TRUE])
  BY DEF Sending, SenderOK, Source
<1>4. Sending(s, SetCNAME(s, item.name)) BY <1>1, <1>3 DEF SetCNAME
<1>5. item.kind \in {"report", "bye", "cname"} BY DEF Items
<1> QED BY <1>1, <1>2, <1>4, <1>5 DEF After

LEMMA ItemCounted ==
  ASSUME NEW t, TableInv(t), Counted(t), NEW item \in Items, NEW a \in Senders
  PROVE  Counted(ProcessItem(t, item, a).t)
<1> DEFINE x == item.ssrc
           s == Known(t, x)
           n == StoreAddress(s, a, FALSE)
           new == After(n, item)
<1>1. x \in SSRCs BY DEF Items
<1>2. EntryOK(t.own, x, s) /\ SenderOK(s) BY <1>1, KnownOK, KnownSending
<1>3. CASE x \in Entries(t) /\ CheckCollision(s, a, FALSE)
  BY <1>3 DEF ProcessItem, Collision
<1>4. CASE ~(x \in Entries(t) /\ CheckCollision(s, a, FALSE))
  <2>1. ~CheckCollision(s, a, FALSE)
    BY <1>4, SourcesAssumption DEF Known, CheckCollision, NewSource
  <2>2. EntryOK(t.own, x, n) BY <1>2, <2>1, AddressStored
  <2>3. Sending(s, n) BY <1>2, AddressSending DEF EntryOK
  <2>4. EntryOK(t.own, x, new) BY <2>2, ItemProcessed
  <2>5. Sending(n, new) BY <2>2, <2>3, ItemSending DEF EntryOK, Sending
  <2>6. new \in Source /\ Sending(s, new) BY <2>3, <2>4, <2>5 DEF EntryOK, Sending
  <2>7. ProcessItem(t, item, a) = NoCollision(Store(t, x, new)) BY <1>4 DEF ProcessItem
  <2>8. Counted(Store(t, x, new))
    <3> HIDE DEF new, n, x
    <3> QED BY <1>1, <2>6, StoredCounted DEF s
  <2> HIDE DEF new
  <2> QED BY <2>7, <2>8 DEF NoCollision
<1> QED BY <1>3, <1>4

LEMMA CSRCCounted ==
  ASSUME NEW t, TableInv(t), Counted(t), NEW own, NEW x \in SSRCs, NEW a \in Senders
  PROVE  Counted(ProcessCSRC([t |-> t, own |-> own], x, a).t)
<1> DEFINE c == [t |-> t, own |-> own]
           r == ProcessCSRC(c, x, a)
           s == Known(t, x)
           marked == [s EXCEPT !.validated = TRUE]
           n == StoreAddress(marked, a, TRUE)
<1>1. EntryOK(t.own, x, s) /\ SenderOK(s) BY KnownOK, KnownSending
<1>2. s \in Source BY <1>1 DEF EntryOK
<1>3. /\ marked.sender = s.sender /\ marked.own = s.own /\ marked.data = s.data
      /\ marked.rtp = s.rtp /\ marked.validated /\ marked.bye = s.bye
  BY <1>2 DEF Source
<1>4. marked \in Source BY <1>2 DEF Source
<1>5. Sending(s, marked)
  <2> HIDE DEF s, marked
  <2> QED BY <1>1, <1>3 DEF Sending, SenderOK
<1>6. CASE x \notin Entries(t)
  <2>1. r.t = Store(t, x, marked) BY <1>6 DEF ProcessCSRC
  <2> HIDE DEF r, marked
  <2>2. Counted(r.t) BY <1>4, <1>5, <2>1, StoredCounted
  <2> QED BY <2>2 DEF r, c
<1>7. CASE x \in Entries(t) /\ CheckCollision(s, a, TRUE)
  <2>1. r.t = t BY <1>7 DEF ProcessCSRC
  <2> QED BY <2>1
<1>8. CASE x \in Entries(t) /\ ~CheckCollision(s, a, TRUE)
  <2> DEFINE u == [t EXCEPT !.src = Put(t.src, x, n)]
  <2>1. r.t = u BY <1>8 DEF ProcessCSRC
  <2>2. Sending(marked, n)
    <3> HIDE DEF marked
    <3> QED BY <1>4, <1>5, AddressSending DEF Sending
  <2>3. n.sender = s.sender /\ n.validated /\ n.bye = s.bye
    <3> HIDE DEF marked
    <3> QED BY <1>3, <1>4 DEF StoreAddress, Source
  <2>4. IsTable(t) BY DEF TableInv
  <2>5. u.src = Put(t.src, x, n) /\ u.own = t.own /\ u.total = t.total
        /\ u.senders = t.senders /\ u.active = t.active
    BY <2>4 DEF IsTable
  <2>6. s = t.src[x] BY <1>8 DEF Known
  <2>7. n.sender \in BOOLEAN BY <1>2, <2>3 DEF Source
  <2> HIDE DEF c, r, s, n, marked, u
  <2>8. /\ Cardinality(Entries(u)) = Cardinality(Entries(t)) + One(x \notin Entries(t))
        /\ Cardinality(SendersOf(u)) =
             Cardinality(SendersOf(t)) + One(n.sender) - One(x \in SendersOf(t))
        /\ Cardinality(ActiveOf(u)) =
             Cardinality(ActiveOf(t)) + One(IsActive(n)) - One(x \in ActiveOf(t))
    BY <2>4, <2>5, <2>7, PlacedCounts
  <2>9. (x \in SendersOf(t) <=> n.sender) /\ (x \in ActiveOf(t) => IsActive(n))
    BY <1>8, <2>3, <2>6 DEF SendersOf, ActiveOf, IsActive
  <2>10. \A y \in Entries(u) : SenderOK(u.src[y])
    BY <2>2, <2>5 DEF Counted, Sending, Entries, Put
  <2>11. /\ t.active \in Int /\ Cardinality(Entries(t)) \in Nat
         /\ Cardinality(SendersOf(t)) \in Nat /\ Cardinality(ActiveOf(t)) \in Nat
    BY <2>4, Finite DEF IsTable
  <2>12. Cardinality(Entries(u)) = Cardinality(Entries(t))
    BY <1>8, <2>8, <2>11 DEF One
  <2>13. Cardinality(SendersOf(u)) = Cardinality(SendersOf(t))
    BY <2>8, <2>9, <2>11 DEF One
  <2>14. t.active <= Cardinality(ActiveOf(u))
    BY <2>8, <2>9, <2>11 DEF One, Counted
  <2>15. Counted(u) BY <2>5, <2>10, <2>12, <2>13, <2>14 DEF Counted
  <2>16. Counted(r.t) BY <2>1, <2>15
  <2> QED BY <2>16 DEF r, c
<1> QED BY <1>6, <1>7, <1>8

LEMMA RTPCounted ==
  ASSUME NEW t, TableInv(t), Counted(t), NEW p \in RTPPacket, NEW a \in Senders
  PROVE  Counted(ProcessRTPPacket(t, p, a).t)
<1> DEFINE s == Known(t, p.ssrc)
           n == StoreAddress(s, a, TRUE)
           new == ProcessPacket(n, p.next)
           u == Store(t, p.ssrc, new)
           r == ProcessRTPPacket(t, p, a)
<1>1. p.ssrc \in SSRCs /\ p.next \in BOOLEAN BY DEF RTPPacket
<1>2. EntryOK(t.own, p.ssrc, s) /\ SenderOK(s) BY <1>1, KnownOK, KnownSending
<1>3. CASE p.ssrc \in Entries(t) /\ CheckCollision(s, a, TRUE)
  BY <1>3 DEF ProcessRTPPacket, Collision
<1>4. CASE ~(p.ssrc \in Entries(t) /\ CheckCollision(s, a, TRUE))
  <2>1. ~CheckCollision(s, a, TRUE)
    BY <1>4, SourcesAssumption DEF Known, CheckCollision, NewSource
  <2>2. EntryOK(t.own, p.ssrc, n) /\ Keep(s, n) BY <1>2, <2>1, AddressStored
  <2>3. Sending(s, n) /\ n.rtp # Unset BY <1>2, AddressSending DEF EntryOK
  <2>4. EntryOK(t.own, p.ssrc, new) /\ Keep(n, new) BY <1>1, <2>2, PacketProcessed
  <2>5. Sending(n, new) BY <1>1, <2>2, <2>3, PacketSending DEF EntryOK, Sending
  <2>6. new \in Source /\ Sending(s, new) BY <2>3, <2>4, <2>5 DEF EntryOK, Sending
  <2>7. p.ssrc \in Entries(t) => Keep(t.src[p.ssrc], new)
    BY <2>2, <2>4, KeepTransitive DEF Known
  <2>8. TableInv(u) /\ Counted(u)
    <3> HIDE DEF new, n
    <3> QED BY <1>1, <2>4, <2>6, <2>7, Stored, StoredCounted DEF s
  <2>9. CASE new.validated /\ p.csrc # NoSSRC
    <3>1. p.csrc \in SSRCs BY <2>9 DEF RTPPacket
    <3>2. r = ProcessCSRC([t |-> u, own |-> FALSE], p.csrc, a)
      BY <1>4, <2>9 DEF ProcessRTPPacket, NoCollision
    <3> HIDE DEF u, r
    <3>3. Counted(r.t) BY <2>8, <3>1, <3>2, CSRCCounted
    <3> QED BY <3>3 DEF r
  <2>10. CASE ~(new.validated /\ p.csrc # NoSSRC)
    <3>1. r = NoCollision(u) BY <1>4, <2>10 DEF ProcessRTPPacket
    <3> HIDE DEF s, n, new, u
    <3> QED BY <2>8, <3>1 DEF NoCollision
  <2> QED BY <2>9, <2>10
<1> QED BY <1>3, <1>4

LEMMA CreatedCounted ==
  ASSUME NEW t, Ownerless(t), Counted(t), NEW x \in SSRCs \ Entries(t)
  PROVE  Counted(CreateOwnSSRC(t, x))
<1> DEFINE u == CreateOwnSSRC(t, x)
           f == Put(t.src, x, OwnSource)
           n == t.total + 1
           k == t.active + 1
<1>1. IsTable(t) BY DEF Ownerless
<1>2. u = [t EXCEPT !.src = f, !.own = x, !.total = n, !.active = k]
  BY DEF CreateOwnSSRC, Ownerless
<1>3. u.src = f /\ u.total = n /\ u.active = k /\ u.senders = t.senders
  <2> HIDE DEF u, f, n, k
  <2> QED BY <1>1, <1>2 DEF IsTable
<1>4. ~OwnSource.sender /\ OwnSource.own /\ IsActive(OwnSource)
  BY DEF OwnSource, NewSource, IsActive
<1>5. OwnSource.sender \in BOOLEAN BY DEF OwnSource, NewSource
<1> HIDE DEF u
<1>6. /\ Cardinality(Entries(u)) = Cardinality(Entries(t)) + One(x \notin Entries(t))
      /\ Cardinality(SendersOf(u)) =
           Cardinality(SendersOf(t)) + One(OwnSource.sender) - One(x \in SendersOf(t))
      /\ Cardinality(ActiveOf(u)) =
           Cardinality(ActiveOf(t)) + One(IsActive(OwnSource)) - One(x \in ActiveOf(t))
  BY <1>1, <1>3, <1>5, PlacedCounts
<1>7. x \notin SendersOf(t) /\ x \notin ActiveOf(t) BY DEF SendersOf, ActiveOf
<1>8. /\ t.active \in Int /\ Cardinality(Entries(t)) \in Nat
      /\ Cardinality(SendersOf(t)) \in Nat /\ Cardinality(ActiveOf(t)) \in Nat
  BY <1>1, Finite DEF IsTable
<1>9. u.total = Cardinality(Entries(u)) BY <1>3, <1>6, <1>8 DEF One, Counted
<1>10. u.senders = Cardinality(SendersOf(u)) BY <1>3, <1>4, <1>6, <1>7, <1>8 DEF One, Counted
<1>11. u.active <= Cardinality(ActiveOf(u)) BY <1>3, <1>4, <1>6, <1>7, <1>8 DEF One, Counted
<1>12. \A y \in Entries(u) : SenderOK(u.src[y])
  BY <1>3, <1>4 DEF Counted, SenderOK, Entries, Put
<1>13. Counted(u) BY <1>9, <1>10, <1>11, <1>12 DEF Counted
<1> QED BY <1>13 DEF u

LEMMA DeletedCounted ==
  ASSUME NEW t, TableInv(t), Counted(t)
  PROVE  Counted(DeleteOwnSSRC(t))
<1> DEFINE u == DeleteOwnSSRC(t)
           x == t.own
           f == Without(t.src, {x})
           n == t.total - 1
           m == t.senders - One(t.src[x].sender)
           k == t.active - One(IsActive(t.src[x]))
<1>1. IsTable(t) /\ x \in SSRCs /\ x \in Entries(t) BY DEF TableInv, IsTable
<1>2. u = [t EXCEPT !.src = f, !.own = NoSSRC, !.total = n, !.senders = m, !.active = k]
  BY <1>1, SourcesAssumption DEF DeleteOwnSSRC
<1>3. u.src = f /\ u.total = n /\ u.active = k /\ u.senders = m
  <2> HIDE DEF u, f, n, m, k, x
  <2> QED BY <1>1, <1>2 DEF IsTable
<1> HIDE DEF u
<1>4. Entries(u) = Entries(t) \ {x} /\ \A y \in Entries(u) : u.src[y] = t.src[y]
  BY <1>3 DEF Entries, Without
<1>5. SendersOf(u) = SendersOf(t) \ {x} /\ ActiveOf(u) = ActiveOf(t) \ {x}
  BY <1>4 DEF SendersOf, ActiveOf
<1>6. (x \in SendersOf(t) <=> t.src[x].sender) /\ (x \in ActiveOf(t) <=> IsActive(t.src[x]))
  BY <1>1 DEF SendersOf, ActiveOf
<1>7. /\ t.active \in Int /\ Cardinality(Entries(t)) \in Nat
      /\ Cardinality(SendersOf(t)) \in Nat /\ Cardinality(ActiveOf(t)) \in Nat
  BY <1>1, Finite DEF IsTable
<1>8. Cardinality(Entries(u)) = Cardinality(Entries(t)) - 1
  BY <1>1, <1>4, Finite, FS_RemoveElement
<1>9. Cardinality(SendersOf(u)) = IF x \in SendersOf(t) THEN Cardinality(SendersOf(t)) - 1
                                  ELSE Cardinality(SendersOf(t))
  BY <1>1, <1>5, Finite, FS_RemoveElement
<1>10. Cardinality(ActiveOf(u)) = IF x \in ActiveOf(t) THEN Cardinality(ActiveOf(t)) - 1
                                  ELSE Cardinality(ActiveOf(t))
  BY <1>1, <1>5, Finite, FS_RemoveElement
<1> HIDE DEF x
<1>11. u.total = Cardinality(Entries(u)) BY <1>3, <1>8 DEF Counted
<1>12. u.senders = Cardinality(SendersOf(u)) BY <1>3, <1>6, <1>7, <1>9 DEF One, Counted
<1>13. u.active <= Cardinality(ActiveOf(u)) BY <1>3, <1>6, <1>7, <1>10 DEF One, Counted
<1>14. \A y \in Entries(u) : SenderOK(u.src[y]) BY <1>4 DEF Counted
<1>15. Counted(u) BY <1>11, <1>12, <1>13, <1>14 DEF Counted
<1> QED BY <1>15 DEF u

LEMMA SentCounted ==
  ASSUME NEW t, TableInv(t), Counted(t)
  PROVE  Counted(SentRTPPacket(t))
<1> DEFINE u == SentRTPPacket(t)
           x == t.own
           old == t.src[x]
           s == [old EXCEPT !.sender = TRUE]
           m == t.senders + One(~old.sender)
<1>1. IsTable(t) /\ x \in SSRCs /\ x \in Entries(t) BY DEF TableInv, IsTable
<1>2. EntryOK(x, x, old) BY <1>1 DEF TableInv
<1>3. u = [t EXCEPT !.src = Put(t.src, x, s), !.senders = m]
  BY <1>1, SourcesAssumption DEF SentRTPPacket
<1>4. u.src = Put(t.src, x, s) /\ u.total = t.total /\ u.active = t.active /\ u.senders = m
  <2> HIDE DEF u, m, x, s
  <2> QED BY <1>1, <1>3 DEF IsTable
<1>5. s.sender /\ s.own /\ s.validated = old.validated /\ s.bye = old.bye
  BY <1>2 DEF EntryOK, Source
<1>6. s.sender \in BOOLEAN BY <1>2 DEF EntryOK, Source
<1> HIDE DEF u, s
<1>7. /\ Cardinality(Entries(u)) = Cardinality(Entries(t)) + One(x \notin Entries(t))
      /\ Cardinality(SendersOf(u)) =
           Cardinality(SendersOf(t)) + One(s.sender) - One(x \in SendersOf(t))
      /\ Cardinality(ActiveOf(u)) =
           Cardinality(ActiveOf(t)) + One(IsActive(s)) - One(x \in ActiveOf(t))
  BY <1>1, <1>4, <1>6, PlacedCounts
<1>8. (x \in SendersOf(t) <=> old.sender) /\ (x \in ActiveOf(t) <=> IsActive(s))
  BY <1>1, <1>5 DEF SendersOf, ActiveOf, IsActive
<1>9. /\ t.active \in Int /\ Cardinality(Entries(t)) \in Nat
      /\ Cardinality(SendersOf(t)) \in Nat /\ Cardinality(ActiveOf(t)) \in Nat
  BY <1>1, Finite DEF IsTable
<1>10. \A y \in Entries(u) : SenderOK(u.src[y])
  BY <1>4, <1>5 DEF Counted, SenderOK, Entries, Put
<1> HIDE DEF x, old
<1>11. u.total = Cardinality(Entries(u)) BY <1>1, <1>4, <1>7, <1>9 DEF One, Counted
<1>12. u.senders = Cardinality(SendersOf(u))
  BY <1>4, <1>5, <1>7, <1>8, <1>9 DEF One, Counted
<1>13. u.active <= Cardinality(ActiveOf(u)) BY <1>4, <1>7, <1>8, <1>9 DEF One, Counted
<1>14. Counted(u) BY <1>10, <1>11, <1>12, <1>13 DEF Counted
<1> QED BY <1>14 DEF u

LEMMA TimeoutsCounted ==
  ASSUME NEW t, TableInv(t), Counted(t), NEW silent, NEW quiet, NEW left
  PROVE  Counted(MultipleTimeouts(t, silent, quiet, left))
<1> DEFINE u == MultipleTimeouts(t, silent, quiet, left)
           gone == {x \in Entries(t) \ {t.own} :
                      x \in silent \/ (t.src[x].bye /\ x \in left)}
           kept == Entries(t) \ gone
           sends(x) == t.src[x].sender /\ x \notin quiet
           f == [x \in kept |-> [t.src[x] EXCEPT !.sender = sends(x)]]
           n == Cardinality(kept)
           m == Cardinality({x \in kept : sends(x)})
           k == Cardinality({x \in kept : IsActive(t.src[x])})
<1>1. IsTable(t) BY DEF TableInv
<1>2. u = [t EXCEPT !.src = f, !.total = n, !.senders = m, !.active = k]
  BY DEF MultipleTimeouts
<1>3. u.src = f /\ u.total = n /\ u.active = k /\ u.senders = m
  <2> HIDE DEF u, f, n, m, k
  <2> QED BY <1>1, <1>2, Fields
<1>4. Entries(u) = kept BY <1>3 DEF Entries
<1>5. ASSUME NEW x \in kept
      PROVE  /\ u.src[x].sender <=> sends(x)
             /\ IsActive(u.src[x]) <=> IsActive(t.src[x])
             /\ SenderOK(u.src[x])
  <2> DEFINE b == sends(x)
             s == t.src[x]
  <2>1. u.src[x] = [s EXCEPT !.sender = b] BY <1>3, <1>5
  <2>2. s \in Source /\ SenderOK(s) BY DEF TableInv, EntryOK, Counted
  <2>3. b => s.sender OBVIOUS
  <2>4. b \in BOOLEAN OBVIOUS
  <2> HIDE DEF b, s, u
  <2>5. /\ u.src[x].sender = b /\ u.src[x].own = s.own /\ u.src[x].validated = s.validated
        /\ u.src[x].data = s.data /\ u.src[x].rtp = s.rtp /\ u.src[x].bye = s.bye
    BY <2>1, <2>2 DEF Source
  <2>6. u.src[x].sender <=> b BY <2>5
  <2>7. IsActive(u.src[x]) <=> IsActive(s) BY <2>5 DEF IsActive
  <2>8. SenderOK(u.src[x]) BY <2>2, <2>3, <2>5 DEF SenderOK
  <2> QED BY <2>6, <2>7, <2>8 DEF b, s
<1>6. SendersOf(u) = {x \in kept : sends(x)} /\ ActiveOf(u) = {x \in kept : IsActive(t.src[x])}
  <2> HIDE DEF u, kept, sends
  <2> QED BY <1>4, <1>5 DEF SendersOf, ActiveOf
<1>7. k \in Nat
  <2>1. IsFiniteSet({x \in kept : IsActive(t.src[x])}) BY <1>1, Finite, FS_Subset
  <2> QED BY <2>1, FS_CardinalityType
<1>8. Counted(u)
  <2> HIDE DEF u, f, kept, sends
  <2>1. u.active <= Cardinality(ActiveOf(u)) BY <1>3, <1>6, <1>7
  <2> QED BY <1>3, <1>4, <1>5, <1>6, <2>1 DEF Counted
<1> QED BY <1>8 DEF u

(* A step that turns a table that is right into one that is *)
LEMMA NextCounted == Inv /\ Counted(table) /\ [Next]_vars => Counted(table')
<1> SUFFICES ASSUME Inv, Counted(table), [Next]_vars PROVE Counted(table') OBVIOUS
<1>1. TableInv(table) BY DEF Inv
<1>2. \A a \in Addresses : SenderAddress(a) \in Senders BY DEF SenderAddress, Senders
<1>3. CASE ReceiveRTP
  <2>1. PICK a \in Addresses, x \in SSRCs, c \in SSRCs \union {NoSSRC}, next \in BOOLEAN :
          LET p == [ssrc |-> x, csrc |-> c, next |-> next]
          IN table' = ProcessRTPPacket(table, p, SenderAddress(a)).t
    BY <1>3 DEF ReceiveRTP
  <2> DEFINE p == [ssrc |-> x, csrc |-> c, next |-> next]
  <2>2. p \in RTPPacket BY DEF RTPPacket
  <2>3. table' = ProcessRTPPacket(table, p, SenderAddress(a)).t BY <2>1
  <2> HIDE DEF p
  <2> QED BY <1>1, <1>2, <2>2, <2>3, RTPCounted
<1>4. CASE NextItem
  <2>1. PICK item \in Items :
          table' = ProcessItem(table, item, SenderAddress(incoming.from)).t
    BY <1>4 DEF NextItem
  <2>2. incoming.from \in Addresses BY <1>4 DEF NextItem, Inv
  <2> QED BY <1>1, <1>2, <2>1, <2>2, ItemCounted
<1>5. CASE EndOfPacket
  <2>1. CASE table' = table BY <2>1
  <2>2. CASE \E x \in Free(table) : table' = ChangeOwnSSRC(table, x)
    <3>1. PICK x \in Free(table) : table' = ChangeOwnSSRC(table, x) BY <2>2
    <3> DEFINE u == DeleteOwnSSRC(table)
    <3>2. Ownerless(u) /\ Entries(u) = Entries(table) \ {table.own} /\ Counted(u)
      BY <1>1, OwnDeleted, DeletedCounted
    <3>3. table' = CreateOwnSSRC(u, x) BY <3>1 DEF ChangeOwnSSRC
    <3>4. x \in SSRCs \ Entries(u) BY <3>2 DEF Free
    <3> HIDE DEF u
    <3> QED BY <3>2, <3>3, <3>4, CreatedCounted
  <2> QED BY <1>5, <2>1, <2>2 DEF EndOfPacket
<1>6. CASE Send BY <1>1, <1>6, SentCounted DEF Send
<1>7. CASE Timeouts
  <2>1. PICK silent, quiet, left : table' = MultipleTimeouts(table, silent, quiet, left)
    BY <1>7 DEF Timeouts
  <2> QED BY <1>1, <2>1, TimeoutsCounted
<1>8. CASE ReceiveRTCP \/ UNCHANGED vars BY <1>8 DEF ReceiveRTCP, vars
<1> QED BY <1>3, <1>4, <1>5, <1>6, <1>7, <1>8 DEF Next

LEMMA InitCounted == Init => Counted(table)
<1> SUFFICES ASSUME Init PROVE Counted(table) OBVIOUS
<1>1. PICK x \in SSRCs : table = CreateOwnSSRC(EmptyTable, x) BY DEF Init
<1>2. /\ Ownerless(EmptyTable) /\ Entries(EmptyTable) = {}
      /\ EmptyTable.total = 0 /\ EmptyTable.senders = 0 /\ EmptyTable.active = 0
  BY DEF Ownerless, IsTable, EmptyTable, Entries
<1>3. SendersOf(EmptyTable) = {} /\ ActiveOf(EmptyTable) = {}
  BY <1>2 DEF SendersOf, ActiveOf
<1>4. Counted(EmptyTable) BY <1>2, <1>3, FS_EmptySet DEF Counted
<1> QED BY <1>1, <1>2, <1>4, CreatedCounted

LEMMA CountedAgree == Inv /\ Counted(table) => CountsAgree
<1> SUFFICES ASSUME Inv, Counted(table) PROVE CountsAgree OBVIOUS
<1>1. \A x \in Entries(table) \ {table.own} : ~table.src[x].own
  BY DEF Inv, TableInv, EntryOK
<1> QED BY <1>1 DEF Counted, SenderOK, SendersOf, ActiveOf, CountsAgree
-----------------------------------------------------------------------------
(* The variables keep their types. *)
THEOREM Types == Spec => []TypeOK
<1>1. Inv => TypeOK BY DEF Inv, TableInv, IsTable, EntryOK, TypeOK
<1> QED BY <1>1, InitInv, NextInv, PTL DEF Spec

(* Whatever packets come from wherever, the two addresses of a source are on *)
(* one host, and ours are never taken from the network.                      *)
THEOREM OneHost == Spec => []OneHostPerSource
<1>1. Inv => OneHostPerSource
  <2> SUFFICES ASSUME Inv, NEW x \in Entries(table)
               PROVE  LET s == table.src[x]
                      IN /\ s.own <=> x = table.own
                         /\ HostOK(s)
    BY DEF OneHostPerSource, HostOK, SameHost
  <2> QED BY DEF Inv, TableInv, EntryOK
<1> QED BY <1>1, InitInv, NextInv, PTL DEF Spec

(* There is always an entry of our own, validated and without a BYE. *)
THEOREM OwnAlwaysThere == Spec => []OwnSurvives
<1>1. Inv => OwnSurvives BY DEF Inv, TableInv, EntryOK, OwnSurvives, IsActive
<1> QED BY <1>1, InitInv, NextInv, PTL DEF Spec

(* For any number of sources, hosts and packets: a packet from another host  *)
(* than a source is known to be on changes nothing of that source's entry.   *)
THEOREM NeverTakenOver == Spec => NoTakeover
<1> DEFINE Spared ==
             \A x \in Entries(table) :
               incoming' # NoPacket /\ Elsewhere(table.src[x], SenderAddress(incoming'.from))
                 => x \in Entries(table') /\ table'.src[x] = table.src[x]
<1>1. Inv /\ [Next]_vars => [Spared]_vars
  <2> SUFFICES ASSUME Inv, Next, incoming' # NoPacket, NEW x \in Entries(table),
                      Elsewhere(table.src[x], SenderAddress(incoming'.from))
               PROVE  Spares(table, table', x)
    BY DEF Spares
  <2>1. IsTable(table) BY DEF Inv, TableInv
  <2>2. CASE ReceiveRTP
    <3>1. PICK a \in Addresses, y \in SSRCs, c \in SSRCs \union {NoSSRC}, next \in BOOLEAN :
            LET p == [ssrc |-> y, csrc |-> c, next |-> next]
                r == ProcessRTPPacket(table, p, SenderAddress(a))
            IN table' = r.t /\ incoming' = [rtp |-> TRUE, from |-> a, own |-> r.own]
      BY <2>2 DEF ReceiveRTP
    <3> DEFINE p == [ssrc |-> y, csrc |-> c, next |-> next]
    <3>2. p \in RTPPacket BY DEF RTPPacket
    <3>3. table' = ProcessRTPPacket(table, p, SenderAddress(a)).t /\ incoming'.from = a
      BY <3>1
    <3> HIDE DEF p
    <3> QED BY <2>1, <3>2, <3>3, RTPSpares
  <2>3. CASE NextItem
    <3>1. PICK item \in Items :
            LET r == ProcessItem(table, item, SenderAddress(incoming.from))
            IN table' = r.t /\ incoming' = [incoming EXCEPT !.own = @ \/ r.own]
      BY <2>3 DEF NextItem
    <3>2. incoming'.from = incoming.from BY <3>1 DEF Inv
    <3> QED BY <2>1, <3>1, <3>2, ItemSpares
  <2>4. CASE ReceiveRTCP BY <2>4 DEF ReceiveRTCP, Spares
  <2>5. CASE EndOfPacket \/ Send \/ Timeouts BY <2>5 DEF EndOfPacket, Send, Timeouts
  <2> QED BY <2>2, <2>3, <2>4, <2>5 DEF Next
<1> QED BY <1>1, InitInv, NextInv, PTL DEF Spec, NoTakeover

(* The counters of all sources and of senders are what the table has, that   *)
(* of active sources is never too high.                                      *)
THEOREM Counts == Spec => []CountsAgree
<1>1. Init => Inv /\ Counted(table) BY InitInv, InitCounted
<1>2. (Inv /\ Counted(table)) /\ [Next]_vars => (Inv /\ Counted(table))'
  BY NextInv, NextCounted
<1> QED BY <1>1, <1>2, CountedAgree, PTL DEF Spec
=============================================================================
