-------------------------- MODULE RtpStreamProofs --------------------------
(***************************************************************************)
(* Proofs about the depacketizer: in a stream whose numbers do not wrap    *)
(* (RtpStream), and in one that goes on for ever (RtpRecovery).            *)
(***************************************************************************)
EXTENDS RtpStream, RtpRecovery,
        SequenceTheorems, FiniteSetTheorems, WellFoundedInduction, TLAPS

-----------------------------------------------------------------------------
\* A set of integers with an upper bound has a largest element.
LEMMA LargestExists ==
    ASSUME NEW T \in SUBSET Int, T # {}, NEW n \in Int, \A t \in T : t <= n
    PROVE  \E m \in T : \A k \in T : k <= m
<1> DEFINE U == {n - t : t \in T}
           Less == {p \in Nat \X Nat : p[1] < p[2]}
<1>1. IsWellFoundedOn(Less, Nat)
  BY NatLessThanWellFounded DEF OpToRel
<1>2. U \subseteq Nat /\ U # {}
  <2>1. PICK t \in T : TRUE OBVIOUS
  <2>2. n - t \in U OBVIOUS
  <2>3. ASSUME NEW u \in U PROVE u \in Nat
    <3>1. PICK k \in T : u = n - k BY <2>3
    <3>2. k \in Int /\ k <= n OBVIOUS
    <3> QED BY <3>1, <3>2
  <2> QED BY <2>2, <2>3
<1> HIDE DEF Less
<1>3. PICK x \in U : \A y \in U : <<y, x>> \notin Less
  BY <1>1, <1>2, WFMin
<1>4. PICK m \in T : x = n - m BY <1>3
<1>5. ASSUME NEW k \in T PROVE k <= m
  <2>1. n - k \in U /\ <<n - k, x>> \notin Less BY <1>3
  <2>2. n - k \in Nat /\ x \in Nat BY <1>2, <2>1
  <2>3. ~(n - k < x) BY <2>1, <2>2 DEF Less
  <2> QED BY <1>4, <2>3
<1> QED BY <1>5

-----------------------------------------------------------------------------
\* The numbers of the stream do not wrap around.
Fits == InitialSeq + MaxPackets <= SeqMod

\* What the receiver keeps are packets of the stream, under their numbers.
Kept(packets) ==
    /\ DOMAIN packets \subseteq Int
    /\ \A q \in DOMAIN packets :
          q - InitialSeq \in Positions /\ packets[q] = Packet(q - InitialSeq)

\* Where in the stream a frame begins whose next packet is numbered next.
Start(frame, next) == next - InitialSeq - Len(frame)

\* frame is what has been put together of a frame whose next packet is numbered
\* next: it lacks nothing and holds no marked packet, and it starts with the
\* first packet of a frame or with the packet f.
Open(frame, next, f) ==
    /\ frame \in Seq(Int)
    /\ Start(frame, next) \in Nat
    /\ \A i \in 1 .. Len(frame) :
          /\ frame[i] = Start(frame, next) + i - 1
          /\ ~Marker(frame[i])
    /\ StartsFrame(Start(frame, next)) \/ Start(frame, next) = f

\* The packets numbered from .. to - 1 are there.
Present(packets, from, to) == \A q \in from .. to - 1 : q \in DOMAIN packets

StreamInv ==
    /\ sent \in Seq(BOOLEAN)
    /\ Len(sent) <= MaxPackets
    /\ inFlight \subseteq Positions
    /\ first \in Positions \cup {-1}
    /\ mNextSequenceNum \in Int

ReceiverInv ==
    /\ Kept(mPackets)
    /\ first = -1 => /\ mNextSequenceNum = -1
                     /\ mPackets = << >>
                     /\ mCurrentFrame = << >>
    /\ first # -1 => /\ mNextSequenceNum - InitialSeq \in 0 .. Len(sent)
                     /\ Open(mCurrentFrame, mNextSequenceNum, first)

\* The frames handed over last, with the packets they consist of.
DeliveredInv ==
    \A frame \in delivered :
        /\ frame \in Seq(Positions) /\ frame # << >>
        /\ EndsAtMarker(frame)
        /\ StartsFrame(frame[1]) \/ frame[1] = first

IInv == StreamInv /\ ReceiverInv /\ DeliveredInv

-----------------------------------------------------------------------------
\* Without wrap-around a packet's number is its position from InitialSeq on.
LEMMA SeqOfPosition ==
    ASSUME Fits, StreamInv, NEW pos \in Positions
    PROVE  SeqOf(pos) = InitialSeq + pos
<1>1. InitialSeq + pos \in 0 .. SeqMod - 1
  BY SeqModAssumption, StreamAssumption DEF Fits, StreamInv, Positions, SeqNums
<1> QED BY <1>1, SeqModAssumption DEF SeqOf

LEMMA PushedKept ==
    ASSUME Fits, StreamInv, Kept(mPackets), NEW pos \in Positions
    PROVE  /\ Kept(Pushed(Packet(pos)))
           /\ Packet(pos).seq = InitialSeq + pos
<1> DEFINE p == Packet(pos)
           packets == Pushed(p)
<1>1. p.seq = InitialSeq + pos BY SeqOfPosition DEF Packet
<1>2. pos \in Int /\ InitialSeq \in Int /\ p.seq \in Int /\ p.seq - InitialSeq = pos
  BY <1>1, StreamAssumption DEF Positions, SeqNums
<1>3. DOMAIN packets = DOMAIN mPackets \cup {p.seq} BY DEF Pushed
<1>4. ASSUME NEW q \in DOMAIN packets
      PROVE  q \in Int /\ q - InitialSeq \in Positions
                /\ packets[q] = Packet(q - InitialSeq)
  <2>1. CASE q \in DOMAIN mPackets
    BY <1>3, <2>1 DEF Kept, Pushed
  <2>2. CASE q \notin DOMAIN mPackets
    <3>1. q = p.seq /\ packets[q] = p BY <1>3, <2>2 DEF Pushed
    <3> QED BY <1>2, <3>1
  <2> QED BY <2>1, <2>2
<1> QED BY <1>1, <1>4 DEF Kept

\* A sequence of payloads of kept packets is a piece of the stream.
LEMMA PayloadsStream ==
    ASSUME NEW packets, Kept(packets), NEW from \in Int, NEW to \in Int,
           from <= to, Present(packets, from, to)
    PROVE  /\ Payloads(packets, from, to) \in Seq(Int)
           /\ Len(Payloads(packets, from, to)) = to - from
           /\ \A i \in 1 .. to - from :
                 /\ Payloads(packets, from, to)[i] = from - InitialSeq + i - 1
                 /\ from - InitialSeq + i - 1 \in Positions
<1> DEFINE s == Payloads(packets, from, to)
<1>0. InitialSeq \in Int BY StreamAssumption DEF SeqNums
<1>1. ASSUME NEW i \in 1 .. to - from
      PROVE  /\ packets[from + i - 1].payload = from - InitialSeq + i - 1
             /\ from - InitialSeq + i - 1 \in Positions
  <2>1. from + i - 1 \in from .. to - 1 OBVIOUS
  <2>2. from + i - 1 \in DOMAIN packets BY <2>1 DEF Present
  <2>3. (from + i - 1) - InitialSeq = from - InitialSeq + i - 1 BY <1>0
  <2> QED BY <2>2, <2>3 DEF Kept, Packet
<1>2. \A i \in 1 .. to - from : packets[from + i - 1].payload \in Int
  BY <1>0, <1>1
<1>3. s = [i \in 1 .. to - from |-> packets[from + i - 1].payload] BY DEF Payloads
<1>4. to - from \in Nat OBVIOUS
<1>5. s \in Seq(Int) /\ Len(s) = to - from
  <2> DEFINE k == to - from
  <2> HIDE DEF s
  <2>1. k \in Nat /\ s \in [1 .. k -> Int] BY <1>2, <1>3, <1>4
  <2> HIDE DEF k
  <2>2. s \in Seq(Int) /\ Len(s) = k BY <2>1
  <2> QED BY <2>2 DEF k
<1> QED BY <1>1, <1>3, <1>5

LEMMA AssembledOpen ==
    ASSUME StreamInv, NEW packets, Kept(packets),
           NEW next \in Int, next >= InitialSeq, NEW upto \in Int, next <= upto,
           Present(packets, next, upto), NEW f, Open(mCurrentFrame, next, f)
    PROVE  /\ Open(Assembled(packets, next, upto), upto, f)
           /\ Start(mCurrentFrame, next) <= Start(Assembled(packets, next, upto), upto)
           /\ \A m \in Markers(packets, next, upto) :
                 m - InitialSeq < Start(Assembled(packets, next, upto), upto)
<1> DEFINE marks == Markers(packets, next, upto)
           frame == Assembled(packets, next, upto)
           s == Start(mCurrentFrame, next)
<1>0. InitialSeq \in Int BY StreamAssumption DEF SeqNums
<1>1. marks = {q \in next .. upto - 1 : packets[q].marker} BY DEF Markers
<1>2. \A q \in next .. upto - 1 :
          /\ packets[q].marker <=> Marker(q - InitialSeq)
          /\ q - InitialSeq \in Positions
  BY DEF Present, Kept, Packet
<1>3. CASE marks = {}
  <2> DEFINE t == Payloads(packets, next, upto)
  <2>1. frame = mCurrentFrame \o t BY <1>3 DEF Assembled
  <2>2. /\ t \in Seq(Int) /\ Len(t) = upto - next
        /\ \A i \in 1 .. upto - next : t[i] = next - InitialSeq + i - 1
    BY PayloadsStream
  <2>3. mCurrentFrame \in Seq(Int) /\ s \in Nat
        /\ \A i \in 1 .. Len(mCurrentFrame) :
              mCurrentFrame[i] = s + i - 1 /\ ~Marker(mCurrentFrame[i])
    BY DEF Open
  <2> DEFINE c == Len(mCurrentFrame)
  <2>4. c \in Nat /\ s = next - InitialSeq - c BY <2>3 DEF Start
  <2> HIDE DEF t
  <2>5. /\ frame \in Seq(Int) /\ Len(frame) = c + (upto - next)
        /\ \A i \in 1 .. c + (upto - next) :
              frame[i] = IF i <= c THEN mCurrentFrame[i] ELSE t[i - c]
    <3>1. /\ mCurrentFrame \o t \in Seq(Int)
          /\ Len(mCurrentFrame \o t) = Len(mCurrentFrame) + Len(t)
          /\ \A i \in 1 .. Len(mCurrentFrame) + Len(t) :
                (mCurrentFrame \o t)[i] = IF i <= Len(mCurrentFrame)
                                          THEN mCurrentFrame[i]
                                          ELSE t[i - Len(mCurrentFrame)]
      BY <2>2, <2>3, ConcatProperties
    <3> HIDE DEF frame
    <3> QED BY <2>1, <2>2, <3>1
  <2>6. Start(frame, upto) = s BY <1>0, <2>4, <2>5 DEF Start
  <2>7. ASSUME NEW i \in 1 .. Len(frame)
        PROVE  frame[i] = s + i - 1 /\ ~Marker(frame[i])
    <3>1. CASE i <= c BY <2>3, <2>4, <2>5, <3>1
    <3>2. CASE i > c
      <4>1. i - c \in 1 .. upto - next BY <2>4, <2>5, <3>2
      <4>2. frame[i] = next - InitialSeq + (i - c) - 1 BY <2>2, <2>4, <2>5, <3>2, <4>1
      <4>3. frame[i] = s + i - 1 BY <1>0, <2>4, <4>2
      <4> DEFINE q == next + (i - c) - 1
      <4>4. q \in next .. upto - 1 /\ q - InitialSeq = frame[i] BY <1>0, <2>4, <4>1, <4>2
      <4>5. ~packets[q].marker BY <1>1, <1>3, <4>4
      <4> QED BY <1>2, <4>3, <4>4, <4>5
    <3> QED BY <2>4, <3>1, <3>2
  <2>8. Open(frame, upto, f)
    <3> HIDE DEF frame
    <3> QED BY <2>3, <2>5, <2>6, <2>7 DEF Open
  <2> QED BY <1>3, <2>3, <2>6, <2>8
<1>4. CASE marks # {}
  <2>1. marks \in SUBSET Int /\ \A m \in marks : m <= upto BY <1>1
  <2>2. \E m \in marks : \A k \in marks : k <= m
    <3> HIDE DEF marks
    <3> QED BY <1>4, <2>1, LargestExists
  <2> DEFINE last == CHOOSE m \in marks : \A k \in marks : k <= m
  <2>3. last \in marks /\ \A k \in marks : k <= last
    <3> HIDE DEF marks
    <3> QED BY <2>2
  <2>4. frame = Payloads(packets, last + 1, upto) BY <1>4 DEF Assembled
  <2> HIDE DEF last
  <2>5. last \in next .. upto - 1 /\ packets[last].marker BY <1>1, <2>3
  <2>6. Present(packets, last + 1, upto) BY <2>5 DEF Present
  <2>7. /\ frame \in Seq(Int) /\ Len(frame) = upto - (last + 1)
        /\ \A i \in 1 .. upto - (last + 1) :
              frame[i] = (last + 1) - InitialSeq + i - 1
    <3> DEFINE from == last + 1
    <3>1. from \in Int /\ from <= upto /\ Present(packets, from, upto)
      BY <2>5, <2>6
    <3> HIDE DEF from
    <3>2. /\ Payloads(packets, from, upto) \in Seq(Int)
          /\ Len(Payloads(packets, from, upto)) = upto - from
          /\ \A i \in 1 .. upto - from :
                Payloads(packets, from, upto)[i] = from - InitialSeq + i - 1
      BY <3>1, PayloadsStream
    <3> HIDE DEF frame
    <3> QED BY <2>4, <3>2 DEF from
  <2>8. Start(frame, upto) = last + 1 - InitialSeq
    BY <1>0, <2>5, <2>7 DEF Start
  <2>9. ASSUME NEW i \in 1 .. Len(frame)
        PROVE  frame[i] = last + 1 - InitialSeq + i - 1 /\ ~Marker(frame[i])
    <3> DEFINE q == last + i
    <3>1. q \in next .. upto - 1 /\ q - InitialSeq = frame[i] /\ ~(q <= last)
      BY <1>0, <2>5, <2>7
    <3>2. ~packets[q].marker BY <1>1, <2>3, <3>1
    <3> QED BY <1>0, <1>2, <2>5, <2>7, <3>1, <3>2
  <2>10. StartsFrame(last + 1 - InitialSeq)
    <3>1. Marker(last - InitialSeq) BY <1>2, <2>5
    <3>2. (last + 1 - InitialSeq) - 1 = last - InitialSeq BY <1>0, <2>5
    <3> QED BY <3>1, <3>2 DEF StartsFrame
  <2>11. last + 1 - InitialSeq \in Nat /\ s <= last + 1 - InitialSeq
    <3>1. mCurrentFrame \in Seq(Int) BY DEF Open
    <3>2. s = next - InitialSeq - Len(mCurrentFrame) /\ Len(mCurrentFrame) \in Nat
      BY <3>1 DEF Start
    <3> QED BY <1>0, <2>5, <3>2
  <2>12. Open(frame, upto, f)
    <3> HIDE DEF frame
    <3> QED BY <2>7, <2>8, <2>9, <2>10, <2>11 DEF Open
  <2>13. \A m \in marks : m - InitialSeq < last + 1 - InitialSeq
    BY <1>0, <1>1, <2>3, <2>5
  <2> QED BY <2>8, <2>11, <2>12, <2>13
<1> QED BY <1>3, <1>4

\* The properties of a delivered frame, f being the first packet received.
Whole(frame, f) ==
    /\ frame \in Seq(Positions) /\ frame # << >>
    /\ EndsAtMarker(frame)
    /\ StartsFrame(frame[1]) \/ frame[1] = f

LEMMA CompletedWhole ==
    ASSUME StreamInv, NEW packets, Kept(packets),
           NEW next \in Int, next >= InitialSeq, NEW m \in Int, next <= m,
           Present(packets, next, m + 1), packets[m].marker,
           NEW f, Open(mCurrentFrame, next, f)
    PROVE  LET frame == Assembled(packets, next, m) \o <<packets[m].payload>>
           IN  /\ Whole(frame, f)
               /\ frame[Len(frame)] = m - InitialSeq
               /\ frame[1] >= Start(mCurrentFrame, next)
<1> DEFINE a == Assembled(packets, next, m)
           frame == a \o <<packets[m].payload>>
           t == Start(a, m)
           l == Len(a)
<1>0. InitialSeq \in Int BY StreamAssumption DEF SeqNums
<1>1. Present(packets, next, m) /\ m \in DOMAIN packets BY DEF Present
<1>2. Open(a, m, f) /\ Start(mCurrentFrame, next) <= t
  BY <1>1, AssembledOpen
<1>3. m - InitialSeq \in Positions /\ packets[m] = Packet(m - InitialSeq)
  BY <1>1 DEF Kept
<1>4. packets[m].payload = m - InitialSeq /\ Marker(m - InitialSeq)
  BY <1>3 DEF Packet
<1> HIDE DEF a
<1>5. a \in Seq(Int) /\ l \in Nat /\ t \in Nat /\ t = m - InitialSeq - l
  BY <1>2 DEF Open, Start
<1>6. \A i \in 1 .. l : a[i] = t + i - 1 /\ ~Marker(a[i])
  BY <1>2 DEF Open
<1>7. /\ frame \in Seq(Int) /\ Len(frame) = l + 1
      /\ \A i \in 1 .. l + 1 : frame[i] = IF i <= l THEN a[i] ELSE m - InitialSeq
  <2> DEFINE e == m - InitialSeq
  <2>1. frame = Append(a, e) BY <1>4, <1>5
  <2>2. e \in Int BY <1>0
  <2> HIDE DEF e
  <2>3. frame = Append(a, e) /\ a \in Seq(Int) /\ e \in Int BY <1>5, <2>1, <2>2
  <2> HIDE DEF frame
  <2>4. /\ frame \in Seq(Int) /\ Len(frame) = l + 1
        /\ \A i \in 1 .. l + 1 : frame[i] = IF i <= l THEN a[i] ELSE e
    BY <2>3
  <2> QED BY <2>4 DEF e
<1> HIDE DEF frame
<1>8. ASSUME NEW i \in 1 .. l + 1 PROVE frame[i] = t + i - 1
  <2>1. CASE i <= l
    <3>1. i \in 1 .. l BY <1>5, <2>1
    <3> QED BY <1>6, <1>7, <2>1, <3>1
  <2>2. CASE ~(i <= l)
    <3>1. i = l + 1 BY <1>5, <2>2
    <3>2. frame[i] = m - InitialSeq BY <1>7, <2>2
    <3> QED BY <1>0, <1>5, <3>1, <3>2
  <2> QED BY <2>1, <2>2
<1>9. frame[1] = t /\ frame[l + 1] = m - InitialSeq
  <2>1. 1 \in 1 .. l + 1 /\ l + 1 \in 1 .. l + 1 BY <1>5
  <2> QED BY <1>0, <1>5, <1>8, <2>1
<1>10. frame \in Seq(Positions) /\ frame # << >>
  <2>1. \A i \in 1 .. l + 1 : frame[i] \in Positions
    BY <1>0, <1>3, <1>5, <1>8 DEF Positions
  <2> QED BY <1>5, <1>7, <2>1
<1>11. EndsAtMarker(frame)
  <2>1. \A i \in 1 .. l + 1 : Marker(frame[i]) <=> i = l + 1
    <3>1. sent \in Seq(BOOLEAN) BY DEF StreamInv
    <3>2. ASSUME NEW i \in 1 .. l + 1 PROVE Marker(frame[i]) <=> i = l + 1
      <4>1. CASE i = l + 1 BY <1>4, <1>9, <4>1
      <4>2. CASE i # l + 1
        <5>1. i \in 1 .. l BY <1>5, <4>2
        <5>2. frame[i] = a[i] BY <1>5, <1>7, <5>1
        <5> QED BY <1>6, <4>2, <5>1, <5>2
      <4> QED BY <4>1, <4>2
    <3> QED BY <3>2
  <2> QED BY <1>7, <1>8, <1>9, <2>1 DEF EndsAtMarker
<1>12. StartsFrame(frame[1]) \/ frame[1] = f BY <1>2, <1>9 DEF Open
<1>13. frame[Len(frame)] = m - InitialSeq /\ frame[1] >= Start(mCurrentFrame, next)
  <2>1. Start(mCurrentFrame, next) <= t BY <1>2
  <2>2. t <= t BY <1>5
  <2> QED BY <1>7, <1>9, <2>1
<1> QED BY <1>10, <1>11, <1>12, <1>13 DEF Whole, frame, a

-----------------------------------------------------------------------------
(* The receiver's steps.  f is first', the first packet received.           *)

\* What a step of the receiver needs of the state before it, and what holds
\* of Expected and Pushed in it.
LEMMA ReceivePrepared ==
    ASSUME Fits, StreamInv, ReceiverInv, NEW pos \in Positions, NEW f,
           f = IF first = -1 THEN pos ELSE first
    PROVE  /\ Kept(Pushed(Packet(pos)))
           /\ Packet(pos).seq = InitialSeq + pos
           /\ Packet(pos).marker = Marker(pos)
           /\ Expected(Packet(pos)) \in Int
           /\ Expected(Packet(pos)) - InitialSeq \in 0 .. Len(sent)
           /\ Open(mCurrentFrame, Expected(Packet(pos)), f)
           /\ Inserts(Packet(pos)) \/ first # -1
<1> DEFINE p == Packet(pos)
<1>0. InitialSeq \in Nat /\ Len(sent) \in Nat /\ pos \in 0 .. Len(sent) - 1
  BY StreamAssumption DEF SeqNums, StreamInv, Positions
<1>1. Kept(Pushed(p)) /\ p.seq = InitialSeq + pos /\ p.marker = Marker(pos)
  BY PushedKept DEF ReceiverInv, Packet
<1>2. CASE first = -1
  <2>1. Expected(p) = InitialSeq + pos /\ f = pos /\ mCurrentFrame = << >>
    BY <1>1, <1>2 DEF ReceiverInv, Expected
  <2>2. Start(mCurrentFrame, Expected(p)) = pos BY <1>0, <2>1 DEF Start
  <2>3. Open(mCurrentFrame, Expected(p), f)
    BY <1>0, <2>1, <2>2 DEF Open
  <2>4. Inserts(p) BY <1>1, <2>1 DEF Inserts, Pushed
  <2> QED BY <1>0, <1>1, <2>1, <2>3, <2>4
<1>3. CASE first # -1
  <2>1. mNextSequenceNum - InitialSeq \in 0 .. Len(sent) /\ mNextSequenceNum \in Int
    BY <1>3 DEF ReceiverInv, StreamInv
  <2>2. Expected(p) = mNextSequenceNum BY <1>0, <2>1 DEF Expected
  <2> QED BY <1>1, <1>3, <2>1, <2>2 DEF ReceiverInv
<1> QED BY <1>2, <1>3

\* What the invariant says of the receiver after a step that has received pos
\* and left the sender alone.
LEMMA InsertStep ==
    ASSUME Fits, IInv, NEW pos \in Positions, NEW upto \in Int,
           InsertPackets(Packet(pos), upto),
           sent' = sent, first' = IF first = -1 THEN pos ELSE first
    PROVE  /\ ReceiverInv' /\ mNextSequenceNum' \in Int
           /\ \A frame \in delivered' :
                 /\ Whole(frame, first')
                 /\ frame[1] >= Start(mCurrentFrame, Expected(Packet(pos)))
                 /\ frame[Len(frame)] < Start(mCurrentFrame', mNextSequenceNum')
           /\ Start(mCurrentFrame', mNextSequenceNum')
                 >= Start(mCurrentFrame, Expected(Packet(pos)))
<1> DEFINE p == Packet(pos)
           packets == Pushed(p)
           next == Expected(p)
           f == first'
<1>0. InitialSeq \in Nat /\ Len(sent) \in Nat /\ pos \in 0 .. Len(sent) - 1
      /\ first \in Positions \cup {-1}
  BY StreamAssumption DEF SeqNums, IInv, StreamInv, Positions
<1>1. /\ Kept(packets) /\ next \in Int /\ next - InitialSeq \in 0 .. Len(sent)
      /\ Open(mCurrentFrame, next, f)
  <2>1. f = IF first = -1 THEN pos ELSE first OBVIOUS
  <2> HIDE DEF f
  <2> QED BY <2>1, ReceivePrepared DEF IInv
<1>2. next >= InitialSeq BY <1>0, <1>1
<1>3. /\ next < upto /\ Present(packets, next, upto)
      /\ delivered' = {Assembled(packets, next, m) \o <<packets[m].payload>> :
                          m \in Markers(packets, next, upto)}
      /\ mCurrentFrame' = Assembled(packets, next, upto)
      /\ mNextSequenceNum' = upto
      /\ mPackets' = Cleanup(packets, upto)
  BY DEF InsertPackets, Present
<1> HIDE DEF packets, next, f
<1>4. /\ Open(mCurrentFrame', upto, f)
      /\ Start(mCurrentFrame, next) <= Start(mCurrentFrame', upto)
      /\ \A m \in Markers(packets, next, upto) :
            m - InitialSeq < Start(mCurrentFrame', upto)
  BY <1>1, <1>2, <1>3, AssembledOpen DEF IInv
<1>5. ASSUME NEW m \in Markers(packets, next, upto)
      PROVE  LET frame == Assembled(packets, next, m) \o <<packets[m].payload>>
             IN  /\ Whole(frame, f)
                 /\ frame[Len(frame)] = m - InitialSeq
                 /\ frame[1] >= Start(mCurrentFrame, next)
  <2>1. m \in next .. upto - 1 /\ packets[m].marker BY DEF Markers
  <2>2. m \in Int /\ next <= m /\ Present(packets, next, m + 1)
    BY <1>1, <1>3, <2>1 DEF Present
  <2> QED BY <1>1, <1>2, <2>1, <2>2, CompletedWhole DEF IInv
<1>6. ASSUME NEW frame \in delivered'
      PROVE  /\ Whole(frame, f)
             /\ frame[1] >= Start(mCurrentFrame, next)
             /\ frame[Len(frame)] < Start(mCurrentFrame', upto)
  <2>1. PICK m \in Markers(packets, next, upto) :
          frame = Assembled(packets, next, m) \o <<packets[m].payload>>
    BY <1>3
  <2> QED BY <1>4, <1>5, <2>1
<1>7. Kept(mPackets') BY <1>1, <1>3 DEF Kept, Cleanup
<1>8. upto - InitialSeq \in 0 .. Len(sent)
  <2>1. upto - 1 \in next .. upto - 1 BY <1>1, <1>3
  <2>2. (upto - 1) - InitialSeq \in Positions BY <1>1, <1>3, <2>1 DEF Present, Kept
  <2> QED BY <1>0, <2>2 DEF Positions
<1>9. f # -1 BY <1>0 DEF f
<1>10. ReceiverInv'
  <2>1. Kept(mPackets)' BY <1>7 DEF Kept, Positions, Packet, Marker
  <2>2. Open(mCurrentFrame, mNextSequenceNum, first)'
    BY <1>3, <1>4 DEF Open, Start, Marker, StartsFrame, f
  <2> QED BY <1>3, <1>8, <1>9, <2>1, <2>2 DEF ReceiverInv, f
<1> QED BY <1>3, <1>4, <1>6, <1>10 DEF next, f, p

LEMMA SkipStep ==
    ASSUME Fits, IInv, NEW pos \in Positions, SkipFrame(Packet(pos)),
           sent' = sent, first' = IF first = -1 THEN pos ELSE first
    PROVE  /\ ReceiverInv' /\ delivered' = {} /\ first # -1
           /\ mNextSequenceNum' = InitialSeq + pos + 1
           /\ Start(mCurrentFrame', mNextSequenceNum') = pos + 1
<1> DEFINE p == Packet(pos)
           packets == Pushed(p)
<1>0. InitialSeq \in Nat /\ Len(sent) \in Nat /\ pos \in 0 .. Len(sent) - 1
  BY StreamAssumption DEF SeqNums, IInv, StreamInv, Positions
<1>1. /\ Kept(packets) /\ p.seq = InitialSeq + pos /\ p.marker = Marker(pos)
      /\ Inserts(p) \/ first # -1
  BY ReceivePrepared DEF IInv
<1>2. /\ ~Inserts(p) /\ p.marker
      /\ mCurrentFrame' = << >> /\ mNextSequenceNum' = p.seq + 1
      /\ mPackets' = Cleanup(packets, p.seq + 1) /\ delivered' = {}
  BY DEF SkipFrame
<1> HIDE DEF packets, p
<1>3. first # -1 /\ first' = first BY <1>1, <1>2
<1>4. mNextSequenceNum' = InitialSeq + pos + 1 BY <1>0, <1>1, <1>2
<1>5. Start(mCurrentFrame', mNextSequenceNum') = pos + 1
  BY <1>0, <1>2, <1>4 DEF Start
<1>6. StartsFrame(pos + 1)
  <2>1. (pos + 1) - 1 = pos /\ Marker(pos) BY <1>0, <1>1, <1>2
  <2> QED BY <2>1 DEF StartsFrame
<1>7. Open(mCurrentFrame', mNextSequenceNum', first)
  BY <1>0, <1>2, <1>5, <1>6 DEF Open
<1>8. Open(mCurrentFrame, mNextSequenceNum, first)'
  BY <1>3, <1>7 DEF Open, Start, Marker, StartsFrame
<1>9. Kept(mPackets)'
  <2>1. Kept(mPackets') BY <1>1, <1>2 DEF Kept, Cleanup
  <2> QED BY <2>1 DEF Kept, Positions, Packet, Marker
<1>10. mNextSequenceNum' - InitialSeq \in 0 .. Len(sent) BY <1>0, <1>4
<1> QED BY <1>2, <1>3, <1>4, <1>5, <1>8, <1>9, <1>10 DEF ReceiverInv

LEMMA KeepStep ==
    ASSUME Fits, IInv, NEW pos \in Positions, KeepPacket(Packet(pos)),
           sent' = sent, first' = IF first = -1 THEN pos ELSE first
    PROVE  /\ ReceiverInv' /\ delivered' = {} /\ first # -1
           /\ UNCHANGED <<mNextSequenceNum, mCurrentFrame>>
<1> DEFINE p == Packet(pos)
           packets == Pushed(p)
<1>1. Kept(packets) /\ (Inserts(p) \/ first # -1)
  BY ReceivePrepared DEF IInv
<1>2. /\ ~Inserts(p)
      /\ mPackets' = Cleanup(packets, mNextSequenceNum) /\ delivered' = {}
      /\ UNCHANGED <<mNextSequenceNum, mCurrentFrame>>
  BY DEF KeepPacket
<1> HIDE DEF packets, p
<1>3. first # -1 /\ first' = first BY <1>1, <1>2
<1>4. Kept(mPackets)'
  <2>1. Kept(mPackets') BY <1>1, <1>2 DEF Kept, Cleanup
  <2> QED BY <2>1 DEF Kept, Positions, Packet, Marker
<1>5. Open(mCurrentFrame, mNextSequenceNum, first)'
  BY <1>2, <1>3 DEF Open, Start, Marker, StartsFrame, IInv, ReceiverInv
<1> QED BY <1>2, <1>3, <1>4, <1>5 DEF IInv, ReceiverInv

-----------------------------------------------------------------------------
\* Whatever has been received: packets sent later do not change what the
\* invariant says.
LEMMA SendStep ==
    ASSUME IInv, SendFragment PROVE IInv'
<1> DEFINE n == Len(sent)
           b == fragmentsLeft = 1
<1>0. sent \in Seq(BOOLEAN) /\ n \in Nat /\ n < MaxPackets /\ MaxPackets \in Nat
      /\ InitialSeq \in Nat
  BY StreamAssumption DEF SendFragment, IInv, StreamInv, SeqNums
<1>1. /\ sent' = Append(sent, b) /\ inFlight' = inFlight \cup {n}
      /\ UNCHANGED <<mNextSequenceNum, mPackets, mCurrentFrame, delivered, first>>
  BY DEF SendFragment, receiver, history
<1>2. /\ sent' \in Seq(BOOLEAN) /\ Len(sent') = n + 1
      /\ \A i \in 1 .. n : sent'[i] = sent[i]
  <2>1. b \in BOOLEAN OBVIOUS
  <2> HIDE DEF b
  <2> QED BY <1>0, <1>1, <2>1
<1>3. Positions = 0 .. n - 1 /\ Positions' = 0 .. n BY <1>0, <1>2 DEF Positions
<1>4. ASSUME NEW pos \in Positions
      PROVE  Marker(pos)' = Marker(pos) /\ Packet(pos)' = Packet(pos)
  <2>1. pos + 1 \in 1 .. n BY <1>0, <1>3
  <2> QED BY <1>2, <2>1 DEF Marker, Packet, SeqOf
<1>5. ASSUME NEW pos \in 0 .. n PROVE StartsFrame(pos)' = StartsFrame(pos)
  <2>1. CASE pos = 0 BY <2>1 DEF StartsFrame
  <2>2. CASE pos # 0
    <3>1. pos - 1 \in Positions BY <1>0, <1>3, <2>2
    <3> QED BY <1>4, <3>1 DEF StartsFrame
  <2> QED BY <2>1, <2>2
<1>6. StreamInv'
  <2>1. inFlight \subseteq Positions /\ first \in Positions \cup {-1}
        /\ mNextSequenceNum \in Int
    BY DEF IInv, StreamInv
  <2>2. Positions' = Positions \cup {n} BY <1>0, <1>3
  <2>3. (inFlight \subseteq Positions)' BY <1>1, <2>1, <2>2
  <2>4. (first \in Positions \cup {-1})' BY <1>1, <2>1, <2>2
  <2>5. sent' \in Seq(BOOLEAN) /\ Len(sent') <= MaxPackets BY <1>0, <1>2
  <2> HIDE DEF n, b
  <2> QED BY <1>1, <2>1, <2>3, <2>4, <2>5 DEF StreamInv
<1>7. Kept(mPackets)'
  BY <1>1, <1>3, <1>4 DEF IInv, ReceiverInv, Kept
<1>8. ASSUME first # -1 PROVE Open(mCurrentFrame, mNextSequenceNum, first)'
  <2> DEFINE s == Start(mCurrentFrame, mNextSequenceNum)
  <2>1. Open(mCurrentFrame, mNextSequenceNum, first)
        /\ mNextSequenceNum - InitialSeq \in 0 .. n /\ mNextSequenceNum \in Int
    BY <1>8 DEF IInv, ReceiverInv, StreamInv
  <2>2. s \in Nat /\ s = mNextSequenceNum - InitialSeq - Len(mCurrentFrame)
        /\ Len(mCurrentFrame) \in Nat
    BY <2>1 DEF Open, Start
  <2>3. s \in 0 .. n BY <1>0, <2>1, <2>2
  <2>4. s' = s BY <1>1 DEF Start
  <2>5. ASSUME NEW i \in 1 .. Len(mCurrentFrame)
        PROVE  mCurrentFrame[i] = s + i - 1 /\ ~Marker(mCurrentFrame[i])'
    <3>1. mCurrentFrame[i] = s + i - 1 /\ ~Marker(mCurrentFrame[i])
      BY <2>1 DEF Open
    <3>2. mCurrentFrame[i] \in Positions
      BY <1>0, <1>3, <2>1, <2>2, <3>1
    <3> QED BY <1>1, <1>4, <3>1, <3>2 DEF Marker
  <2>6. StartsFrame(s)' \/ s' = first'
    BY <1>1, <1>5, <2>1, <2>3, <2>4 DEF Open, StartsFrame, Marker
  <2> QED BY <1>1, <2>1, <2>2, <2>4, <2>5, <2>6 DEF Open
<1>9. ReceiverInv'
  <2>1. first # -1 => (mNextSequenceNum - InitialSeq \in 0 .. Len(sent))'
    BY <1>0, <1>1, <1>2 DEF IInv, ReceiverInv, StreamInv
  <2> QED BY <1>1, <1>7, <1>8, <2>1 DEF IInv, ReceiverInv
<1>10. DeliveredInv'
  <2> SUFFICES ASSUME NEW frame \in delivered
               PROVE  /\ frame \in Seq(Positions') /\ frame # << >>
                      /\ EndsAtMarker(frame)'
                      /\ StartsFrame(frame[1])' \/ frame[1] = first
    BY <1>1 DEF DeliveredInv, EndsAtMarker, StartsFrame, Marker
  <2>1. /\ frame \in Seq(Positions) /\ frame # << >>
        /\ EndsAtMarker(frame)
        /\ StartsFrame(frame[1]) \/ frame[1] = first
    BY DEF IInv, DeliveredInv
  <2>2. \A i \in 1 .. Len(frame) : frame[i] \in Positions BY <2>1
  <2>3. frame \in Seq(Positions')
    <3>1. Positions \subseteq Positions' BY <1>0, <1>3
    <3> QED BY <2>1, <3>1, SeqMonotonic
  <2>4. EndsAtMarker(frame)'
    BY <1>4, <2>1, <2>2 DEF EndsAtMarker, Marker
  <2>5. frame[1] \in 0 .. n BY <1>0, <1>3, <2>1, <2>2
  <2> QED BY <1>5, <2>1, <2>3, <2>4, <2>5 DEF StartsFrame, Marker
<1> QED BY <1>6, <1>9, <1>10 DEF IInv

-----------------------------------------------------------------------------
LEMMA InitIInv == Init => IInv
<1> SUFFICES ASSUME Init PROVE IInv OBVIOUS
<1>1. /\ sent = << >> /\ inFlight = {} /\ first = -1 /\ mNextSequenceNum = -1
      /\ mPackets = << >> /\ mCurrentFrame = << >> /\ delivered = {}
  BY DEF Init, ReceiverInit
<1>2. StreamInv BY <1>1, StreamAssumption DEF StreamInv
<1>3. Kept(mPackets)
  <2>1. DOMAIN mPackets = {} BY <1>1
  <2> QED BY <2>1 DEF Kept
<1> QED BY <1>1, <1>2, <1>3 DEF IInv, ReceiverInv, DeliveredInv

LEMMA ReceiveIInv ==
    ASSUME Fits, IInv, NEW pos \in inFlight, Deliver(pos) PROVE IInv'
<1>0. /\ pos \in Positions /\ inFlight' \subseteq Positions
      /\ first \in Positions \cup {-1}
  BY DEF IInv, StreamInv, Deliver
<1>1. /\ ProcessRTPPacket(Packet(pos))
      /\ sent' = sent /\ first' = IF first = -1 THEN pos ELSE first
  BY DEF Deliver, Receive, sender
<1>2. ASSUME mNextSequenceNum' \in Int PROVE StreamInv'
  BY <1>0, <1>1, <1>2 DEF IInv, StreamInv, Positions
<1>3. ASSUME NEW upto \in 0 .. SeqMod, InsertPackets(Packet(pos), upto)
      PROVE  IInv'
  <2>1. upto \in Int BY SeqModAssumption
  <2>2. /\ ReceiverInv' /\ mNextSequenceNum' \in Int
        /\ \A frame \in delivered' : Whole(frame, first')
    BY <1>0, <1>1, <1>3, <2>1, InsertStep
  <2>3. DeliveredInv'
    BY <1>1, <2>2 DEF DeliveredInv, Whole, Positions, EndsAtMarker, StartsFrame, Marker
  <2> QED BY <1>2, <2>2, <2>3 DEF IInv
<1>4. CASE SkipFrame(Packet(pos))
  <2>1. ReceiverInv' /\ delivered' = {} /\ mNextSequenceNum' = InitialSeq + pos + 1
    BY <1>0, <1>1, <1>4, SkipStep
  <2>2. mNextSequenceNum' \in Int
    BY <1>0, <2>1, StreamAssumption DEF Positions, SeqNums
  <2> QED BY <1>2, <2>1, <2>2 DEF IInv, DeliveredInv
<1>5. CASE KeepPacket(Packet(pos))
  <2>1. ReceiverInv' /\ delivered' = {} /\ mNextSequenceNum' = mNextSequenceNum
    BY <1>0, <1>1, <1>5, KeepStep
  <2>2. mNextSequenceNum' \in Int BY <2>1 DEF IInv, StreamInv
  <2> QED BY <1>2, <2>1, <2>2 DEF IInv, DeliveredInv
<1> QED BY <1>1, <1>3, <1>4, <1>5 DEF ProcessRTPPacket

\* What the receiver leaves alone does not change.
LEMMA QuietIInv ==
    ASSUME IInv, UNCHANGED <<receiver, sent, first>>, inFlight' \subseteq inFlight
    PROVE  IInv'
<1>1. UNCHANGED <<mNextSequenceNum, mPackets, mCurrentFrame, delivered, sent, first>>
  BY DEF receiver
<1>2. StreamInv'
  BY <1>1 DEF IInv, StreamInv, Positions
<1>3. ReceiverInv'
  BY <1>1 DEF IInv, ReceiverInv, Kept, Positions, Packet, Marker, SeqOf, Open,
              Start, StartsFrame
<1>4. DeliveredInv'
  BY <1>1 DEF IInv, DeliveredInv, Positions, EndsAtMarker, Marker, StartsFrame
<1> QED BY <1>2, <1>3, <1>4 DEF IInv

LEMMA NextIInv == ASSUME Fits PROVE IInv /\ [Next]_vars => IInv'
<1> SUFFICES ASSUME IInv, [Next]_vars PROVE IInv' OBVIOUS
<1>1. ASSUME NEW n \in 1 .. MaxFragments, SendFrame(n) PROVE IInv'
  BY <1>1, QuietIInv DEF SendFrame, network, history
<1>2. CASE SendFragment BY <1>2, SendStep
<1>3. ASSUME NEW pos \in inFlight, Lose(pos) PROVE IInv'
  BY <1>3, QuietIInv DEF Lose, sender, history
<1>4. ASSUME NEW pos \in inFlight, Deliver(pos) PROVE IInv'
  BY <1>4, ReceiveIInv
<1>5. CASE UNCHANGED vars
  BY <1>5, QuietIInv DEF vars, sender, network, history
<1> QED BY <1>1, <1>2, <1>3, <1>4, <1>5 DEF Next

\* As long as the numbers do not wrap around, a frame handed to the decoder is
\* a frame as SendMultiPacket was given it, whatever the network has lost,
\* duplicated or reordered and whatever has been skipped.
THEOREM FramesAreWhole == ASSUME Fits PROVE Spec => []WholeFrames
<1>1. Init => IInv BY InitIInv
<1>2. IInv /\ [Next]_vars => IInv' BY NextIInv
<1>3. IInv => WholeFrames BY DEF IInv, DeliveredInv, WholeFrames
<1> QED BY <1>1, <1>2, <1>3, PTL DEF Spec

-----------------------------------------------------------------------------
\* Nothing at or behind the start of the frame being assembled has been
\* delivered, and nothing behind the packet inserted last.
OrderInv ==
    /\ newest \in Int /\ mLastInsertedSequenceNum \in Int
    /\ first = -1 => newest = -1
    /\ first # -1 /\ ~rewound =>
          /\ newest < Start(mCurrentFrame, mNextSequenceNum)
          /\ newest + InitialSeq <= mLastInsertedSequenceNum

LEMMA ReceiveOrder ==
    ASSUME Fits, IInv, OrderInv, NEW pos \in inFlight, Deliver(pos)
    PROVE  /\ OrderInv'
           /\ ~rewound' => \A frame \in delivered' : frame[1] > newest
<1>0. /\ pos \in Positions /\ pos \in Int /\ InitialSeq \in Int
      /\ newest \in Int /\ mLastInsertedSequenceNum \in Int
      /\ first # -1 => mCurrentFrame \in Seq(Int) /\ mNextSequenceNum \in Int
  BY StreamAssumption DEF IInv, StreamInv, ReceiverInv, Positions, SeqNums,
                          OrderInv, Open
<1>1. /\ ProcessRTPPacket(Packet(pos))
      /\ sent' = sent /\ first' = IF first = -1 THEN pos ELSE first
      /\ newest' \in {newest} \cup Ends(delivered')
      /\ rewound' = (rewound \/ mNextSequenceNum' <= mLastInsertedSequenceNum')
  BY DEF Deliver, Receive, sender
<1>2. first' # -1 BY <1>0, <1>1 DEF Positions
<1>3. ASSUME NEW upto \in 0 .. SeqMod, InsertPackets(Packet(pos), upto)
      PROVE  /\ OrderInv'
             /\ ~rewound' => \A frame \in delivered' : frame[1] > newest
  <2> DEFINE next == Expected(Packet(pos))
             s == Start(mCurrentFrame, next)
             t == Start(mCurrentFrame', mNextSequenceNum')
  <2>1. upto \in Int BY SeqModAssumption
  <2>2. /\ mNextSequenceNum' = upto /\ mLastInsertedSequenceNum' = upto - 1
        /\ ReceiverInv'
        /\ \A frame \in delivered' : /\ Whole(frame, first')
                                     /\ frame[1] >= s /\ frame[Len(frame)] < t
        /\ t >= s
    BY <1>0, <1>1, <1>3, <2>1, InsertStep DEF InsertPackets
  <2>3. /\ next \in Int /\ mCurrentFrame \in Seq(Int) /\ s \in Int
    <3> DEFINE f == first'
    <3>1. f = IF first = -1 THEN pos ELSE first BY <1>1
    <3> HIDE DEF f
    <3>2. next \in Int /\ Open(mCurrentFrame, next, f)
      BY <1>0, <3>1, ReceivePrepared DEF IInv
    <3> QED BY <3>2 DEF Open
  <2>4. t \in Int /\ t <= upto - InitialSeq
    <3>1. mCurrentFrame' \in Seq(Int) BY <1>2, <2>2 DEF ReceiverInv, Open
    <3>2. Len(mCurrentFrame') \in Nat BY <3>1
    <3> QED BY <1>0, <2>1, <2>2, <3>2 DEF Start
  <2>5. \A frame \in delivered' :
            frame[1] \in Int /\ frame[Len(frame)] \in Int
    <3> SUFFICES ASSUME NEW frame \in delivered'
                 PROVE  frame[1] \in Int /\ frame[Len(frame)] \in Int
      OBVIOUS
    <3>1. frame \in Seq(Positions) /\ frame # << >> BY <2>2 DEF Whole
    <3>2. 1 \in 1 .. Len(frame) /\ Len(frame) \in 1 .. Len(frame) BY <3>1
    <3>3. Positions \subseteq Int BY DEF Positions
    <3>4. frame[1] \in Positions /\ frame[Len(frame)] \in Positions
      BY <3>1, <3>2, ElementOfSeq
    <3> QED BY <3>3, <3>4
  <2>6. ASSUME ~rewound' PROVE newest < s
    <3>1. CASE first = -1
      <4>1. newest = -1 /\ mNextSequenceNum = -1 /\ mCurrentFrame = << >>
        BY <3>1 DEF OrderInv, IInv, ReceiverInv
      <4>2. next = InitialSeq + pos
        BY <1>0, <4>1, PushedKept DEF Expected, IInv, ReceiverInv
      <4>3. s = pos BY <1>0, <4>1, <4>2 DEF Start
      <4> QED BY <1>0, <4>1, <4>3 DEF Positions
    <3>2. CASE first # -1
      <4>1. newest < Start(mCurrentFrame, mNextSequenceNum)
        BY <1>1, <2>6, <3>2 DEF OrderInv
      <4>2. mNextSequenceNum # -1
        <5>1. mNextSequenceNum - InitialSeq \in 0 .. Len(sent)
          BY <3>2 DEF IInv, ReceiverInv
        <5> QED BY <1>0, <3>2, <5>1, StreamAssumption DEF SeqNums, IInv, StreamInv
      <4> QED BY <4>1, <4>2 DEF Expected
    <3> QED BY <3>1, <3>2
  <2> HIDE DEF next, s, t
  <2>7. newest' \in Int
    BY <1>0, <1>1, <2>5 DEF Ends
  <2>8. ASSUME ~rewound' PROVE newest' < t
    <3>1. newest < t BY <1>0, <2>2, <2>3, <2>4, <2>6, <2>8
    <3> QED BY <1>1, <2>2, <3>1 DEF Ends
  <2>9. ASSUME ~rewound' PROVE \A frame \in delivered' : frame[1] > newest
    BY <1>0, <2>2, <2>3, <2>5, <2>6, <2>9
  <2>10. ASSUME ~rewound' PROVE newest' + InitialSeq <= upto - 1
    <3>1. newest' < t BY <2>8, <2>10
    <3>2. t \in Int /\ t <= upto - InitialSeq /\ InitialSeq \in Int
      BY <1>0, <2>4
    <3> DEFINE n == newest'
    <3>3. n < t /\ n \in Int BY <2>7, <3>1
    <3> HIDE DEF n
    <3>4. n + InitialSeq <= upto - 1 BY <2>1, <3>2, <3>3
    <3> QED BY <3>4 DEF n
  <2>11. OrderInv'
    BY <1>2, <2>1, <2>2, <2>7, <2>8, <2>10 DEF OrderInv, t
  <2> QED BY <2>9, <2>11
<1>4. CASE SkipFrame(Packet(pos))
  <2>1. /\ delivered' = {} /\ first # -1
        /\ mNextSequenceNum' = InitialSeq + pos + 1
        /\ Start(mCurrentFrame', mNextSequenceNum') = pos + 1
    BY <1>0, <1>1, <1>4, SkipStep
  <2>2. newest' = newest /\ mLastInsertedSequenceNum' = mLastInsertedSequenceNum
    BY <1>1, <1>4, <2>1 DEF Ends, SkipFrame
  <2>3. ASSUME ~rewound'
        PROVE  newest < pos + 1 /\ newest + InitialSeq <= mLastInsertedSequenceNum
    <3>1. newest + InitialSeq <= mLastInsertedSequenceNum
      BY <1>1, <2>1, <2>3 DEF OrderInv
    <3>2. ~(InitialSeq + pos + 1 <= mLastInsertedSequenceNum)
      BY <1>1, <2>1, <2>2, <2>3
    <3> QED BY <1>0, <3>1, <3>2
  <2> QED BY <1>0, <1>2, <2>1, <2>2, <2>3 DEF OrderInv
<1>5. CASE KeepPacket(Packet(pos))
  <2>1. /\ delivered' = {} /\ first # -1
        /\ UNCHANGED <<mNextSequenceNum, mCurrentFrame>>
    BY <1>0, <1>1, <1>5, KeepStep
  <2>2. newest' = newest /\ mLastInsertedSequenceNum' = mLastInsertedSequenceNum
    BY <1>1, <1>5, <2>1 DEF Ends, KeepPacket
  <2>3. ~rewound' => ~rewound BY <1>1
  <2> QED BY <1>1, <2>1, <2>2, <2>3 DEF OrderInv, Start
<1> QED BY <1>1, <1>3, <1>4, <1>5 DEF ProcessRTPPacket

LEMMA InitOrder == Init => OrderInv
BY DEF Init, ReceiverInit, OrderInv

LEMMA NextOrder ==
    ASSUME Fits
    PROVE  IInv /\ OrderInv /\ [Next]_vars =>
              /\ OrderInv'
              /\ receiver' # receiver /\ ~rewound' =>
                    \A frame \in delivered' : frame[1] > newest
<1> DEFINE Ordered == receiver' # receiver /\ ~rewound' =>
                          \A frame \in delivered' : frame[1] > newest
<1> SUFFICES ASSUME IInv, OrderInv, [Next]_vars PROVE OrderInv' /\ Ordered
  OBVIOUS
<1>1. ASSUME UNCHANGED <<receiver, history>> PROVE OrderInv' /\ Ordered
  BY <1>1 DEF receiver, history, OrderInv, Start
<1>2. ASSUME NEW n \in 1 .. MaxFragments, SendFrame(n) PROVE OrderInv' /\ Ordered
  BY <1>1, <1>2 DEF SendFrame
<1>3. CASE SendFragment BY <1>1, <1>3 DEF SendFragment
<1>4. ASSUME NEW pos \in inFlight, Lose(pos) PROVE OrderInv' /\ Ordered
  BY <1>1, <1>4 DEF Lose
<1>5. ASSUME NEW pos \in inFlight, Deliver(pos) PROVE OrderInv' /\ Ordered
  BY <1>5, ReceiveOrder
<1>6. CASE UNCHANGED vars BY <1>1, <1>6 DEF vars
<1> QED BY <1>2, <1>3, <1>4, <1>5, <1>6 DEF Next

\* Frames are delivered in the order they were sent in and none is delivered
\* twice, unless the receiver has gone back behind a packet it had inserted.
THEOREM FramesInOrder == ASSUME Fits PROVE Spec => InOrder
<1> DEFINE Step == receiver' # receiver /\ ~rewound' =>
                       \A frame \in delivered' : frame[1] > newest
<1>1. Init => IInv /\ OrderInv BY InitIInv, InitOrder
<1>2. IInv /\ OrderInv /\ [Next]_vars => IInv' /\ OrderInv'
  BY NextIInv, NextOrder
<1>3. IInv /\ OrderInv /\ [Next]_vars => [Step]_vars
  BY NextOrder
<1> QED BY <1>1, <1>2, <1>3, PTL DEF Spec, InOrder

-----------------------------------------------------------------------------
(* What a tame network makes of the receiver.                               *)

\* A packet may be overtaken by no more packets than the receiver waits for.
Patient == PacketSequenceDiff - 2 <= PacketBufferSize

\* While the network is tame, what the receiver waits for is in the network, it
\* keeps each packet that has overtaken it, and those are neither far ahead nor
\* more than the counter may count.
Waiting ==
    /\ mLastInsertedSequenceNum = mNextSequenceNum - 1
    /\ \A pos \in Positions :
          /\ InitialSeq + pos < mNextSequenceNum => pos \notin inFlight
          /\ InitialSeq + pos = mNextSequenceNum => pos \in inFlight
          /\ InitialSeq + pos > mNextSequenceNum =>
                (pos \in inFlight <=> InitialSeq + pos \notin DOMAIN mPackets)
    /\ \A q \in DOMAIN mPackets :
          mNextSequenceNum < q /\ q <= mNextSequenceNum + PacketSequenceDiff - 2
    /\ IsFiniteSet(DOMAIN mPackets)
    /\ mNotInsertedCounter <= Cardinality(DOMAIN mPackets)

TameInv ==
    tame => /\ first = -1 => inFlight = Positions
            /\ first # -1 => Waiting

\* What the types say beside the invariant of the frames.
Counts ==
    /\ fragmentsLeft \in 0 .. MaxFragments /\ losses \in 0 .. MaxLosses
    /\ tame \in BOOLEAN /\ rewound \in BOOLEAN
    /\ mNotInsertedCounter \in Nat
    /\ mLastInsertedSequenceNum \in SeqNums
    /\ newest \in Positions \cup {-1}

LEMMA TameFacts ==
    ASSUME Fits, IInv, Counts
    PROVE  /\ InitialSeq \in Nat /\ Len(sent) \in Nat /\ mNextSequenceNum \in Int
           /\ mNotInsertedCounter \in Nat /\ mLastInsertedSequenceNum \in Int
           /\ PacketSequenceDiff \in Nat /\ PacketBufferSize \in Nat
           /\ Positions = 0 .. Len(sent) - 1 /\ inFlight \subseteq Positions
           /\ DOMAIN mPackets \subseteq Int
           /\ first # -1 => /\ mNextSequenceNum # -1
                            /\ mNextSequenceNum - InitialSeq \in 0 .. Len(sent)
<1>1. InitialSeq \in Nat /\ Len(sent) \in Nat
  BY StreamAssumption DEF SeqNums, IInv, StreamInv
<1>2. mNotInsertedCounter \in Nat /\ mLastInsertedSequenceNum \in Int
  BY SeqModAssumption DEF Counts, SeqNums
<1>3. mNextSequenceNum \in Int /\ inFlight \subseteq Positions BY DEF IInv, StreamInv
<1>4. DOMAIN mPackets \subseteq Int BY DEF IInv, ReceiverInv, Kept
<1>5. first # -1 => mNextSequenceNum - InitialSeq \in 0 .. Len(sent)
  BY DEF IInv, ReceiverInv
<1>6. first # -1 => mNextSequenceNum # -1 BY <1>1, <1>3, <1>5
<1> QED BY <1>1, <1>2, <1>3, <1>4, <1>5, <1>6, ThresholdAssumption DEF Positions

\* On a tame network a packet that is not the one waited for is kept: it is not
\* far ahead, and few have come before it.
LEMMA TameKeeps ==
    ASSUME Fits, Patient, IInv, Counts, tame, first # -1, Waiting,
           NEW pos \in inFlight, NearlyInOrder(pos), InitialSeq + pos # mNextSequenceNum
    PROVE  /\ InitialSeq + pos > mNextSequenceNum
           /\ InitialSeq + pos \notin DOMAIN mPackets
           /\ InitialSeq + pos <= mNextSequenceNum + PacketSequenceDiff - 2
           /\ ~GiveUp(Packet(pos))
<1> DEFINE N == mNextSequenceNum
           D == DOMAIN mPackets
           q == InitialSeq + pos
<1>0. /\ InitialSeq \in Nat /\ Len(sent) \in Nat /\ N \in Int
      /\ mNotInsertedCounter \in Nat /\ mLastInsertedSequenceNum \in Int
      /\ PacketSequenceDiff \in Nat /\ PacketBufferSize \in Nat
      /\ Positions = 0 .. Len(sent) - 1 /\ pos \in 0 .. Len(sent) - 1
      /\ D \subseteq Int /\ N - InitialSeq \in 0 .. Len(sent)
  BY TameFacts
<1>1. q > N
  <2>1. q < N => pos \notin inFlight BY <1>0 DEF Waiting
  <2>2. q \in Int BY <1>0
  <2> QED BY <1>0, <2>1, <2>2
<1>2. q \notin D BY <1>0, <1>1 DEF Waiting
<1>3. q <= N + PacketSequenceDiff - 2
  <2> DEFINE other == N - InitialSeq
  <2>1. other \in Positions /\ InitialSeq + other = N BY <1>0, <1>1
  <2>2. other \in inFlight BY <2>1 DEF Waiting
  <2>3. pos - other <= PacketSequenceDiff - 2 BY <2>2 DEF NearlyInOrder
  <2> QED BY <1>0, <2>3
<1>4. mNotInsertedCounter + 1 <= PacketBufferSize
  <2> DEFINE B == N + 1 .. N + PacketSequenceDiff - 2
  <2>1. IsFiniteSet(D) /\ mNotInsertedCounter <= Cardinality(D) BY DEF Waiting
  <2>2. IsFiniteSet(B) /\ Cardinality(B) = PacketSequenceDiff - 2
    <3> DEFINE a == N + 1
               b == N + PacketSequenceDiff - 2
    <3>1. a \in Int /\ b \in Int /\ ~(a > b) /\ b - a + 1 = PacketSequenceDiff - 2
      BY <1>0, <1>1, <1>3
    <3>2. B = a .. b OBVIOUS
    <3> HIDE DEF a, b, B
    <3>3. IsFiniteSet(a .. b) /\ Cardinality(a .. b) = b - a + 1 BY <3>1, FS_Interval
    <3> QED BY <3>1, <3>2, <3>3
  <2>3. q \in B /\ D \subseteq B
    <3>1. \A r \in D : N < r /\ r <= N + PacketSequenceDiff - 2 BY DEF Waiting
    <3>2. \A r \in D : r \in B BY <1>0, <3>1
    <3> QED BY <1>0, <1>1, <1>3, <3>2
  <2> HIDE DEF B, D
  <2>4. IsFiniteSet(D \cup {q}) /\ Cardinality(D \cup {q}) = Cardinality(D) + 1
        /\ Cardinality(D) \in Nat
    BY <1>2, <2>1, FS_AddElement, FS_CardinalityType
  <2>5. D \cup {q} \in SUBSET B BY <2>3
  <2>6. Cardinality(D \cup {q}) <= Cardinality(B) BY <2>2, <2>5, FS_Subset
  <2> QED BY <1>0, <2>1, <2>2, <2>4, <2>6 DEF Patient
<1>5. Packet(pos).seq = q BY <1>0, SeqOfPosition DEF Packet, IInv
<1>6. mLastInsertedSequenceNum = N - 1 BY DEF Waiting
<1>7. ~(q - mLastInsertedSequenceNum >= PacketSequenceDiff) BY <1>0, <1>3, <1>6
<1>8. ~(mNotInsertedCounter + 1 > PacketBufferSize) BY <1>0, <1>4
<1>9. ~GiveUp(Packet(pos)) BY <1>5, <1>7, <1>8 DEF GiveUp
<1> HIDE DEF N, D, q
<1> QED BY <1>1, <1>2, <1>3, <1>9 DEF N, D, q

\* The packet waited for comes, and takes those kept behind it along.
LEMMA TameInserts ==
    ASSUME Fits, Patient, IInv, Counts, TameInv,
           NEW pos \in inFlight, NEW upto \in 0 .. SeqMod,
           InsertPackets(Packet(pos), upto), tame, NearlyInOrder(pos),
           inFlight' = inFlight \ {pos}, sent' = sent
    PROVE  Waiting'
<1> DEFINE N == Expected(Packet(pos))
           D == DOMAIN mPackets
           q == InitialSeq + pos
<1>0. /\ InitialSeq \in Nat /\ Len(sent) \in Nat /\ upto \in Int
      /\ PacketSequenceDiff \in Nat
      /\ Positions = 0 .. Len(sent) - 1 /\ pos \in 0 .. Len(sent) - 1
      /\ inFlight \subseteq Positions /\ D \subseteq Int
      /\ mNextSequenceNum \in Int
  BY TameFacts, SeqModAssumption
<1>1. Packet(pos).seq = q BY <1>0, SeqOfPosition DEF Packet, IInv
<1>2. DOMAIN Pushed(Packet(pos)) = D \cup {q} BY <1>1 DEF Pushed
<1>3. /\ N < upto /\ \A r \in N .. upto - 1 : r \in D \cup {q}
      /\ upto \notin D \cup {q}
      /\ mLastInsertedSequenceNum' = upto - 1 /\ mNextSequenceNum' = upto
      /\ mNotInsertedCounter' = 0
      /\ DOMAIN mPackets' = {r \in D \cup {q} : r >= upto}
  BY <1>2 DEF InsertPackets, Cleanup
\* The receiver had waited for the packet at pos.
<1>4. /\ N = q
      /\ \A r \in D : q < r /\ r <= q + PacketSequenceDiff - 2
      /\ IsFiniteSet(D)
      /\ \A other \in Positions :
            /\ other < pos => other \notin inFlight
            /\ other > pos => (other \in inFlight <=> InitialSeq + other \notin D)
  <2>1. CASE first = -1
    <3>1. mNextSequenceNum = -1 /\ mPackets = << >> /\ inFlight = Positions /\ pos = 0
      BY <2>1 DEF IInv, ReceiverInv, TameInv, NearlyInOrder
    <3>2. N = q BY <1>1, <3>1 DEF Expected
    <3>3. D = {} BY <3>1
    <3>4. IsFiniteSet(D) BY <3>3, FS_EmptySet
    <3> QED BY <1>0, <3>1, <3>2, <3>3, <3>4
  <2>2. CASE first # -1
    <3>1. Waiting BY <2>2 DEF TameInv
    <3>2. mNextSequenceNum # -1 BY <2>2, TameFacts
    <3>3. N = mNextSequenceNum BY <3>2 DEF Expected
    <3>4. mNextSequenceNum \notin D BY <1>0, <3>1 DEF Waiting
    <3>5. N \in N .. upto - 1 BY <1>0, <1>3, <3>3
    <3>6. N = q BY <1>3, <3>3, <3>4, <3>5
    <3>7. \A other \in Positions :
            /\ InitialSeq + other < q => other \notin inFlight
            /\ InitialSeq + other > q =>
                  (other \in inFlight <=> InitialSeq + other \notin D)
      BY <3>1, <3>3, <3>6 DEF Waiting
    <3>8. \A other \in Positions :
            /\ other < pos => InitialSeq + other < q
            /\ other > pos => InitialSeq + other > q
      BY <1>0
    <3>9. \A r \in D : q < r /\ r <= q + PacketSequenceDiff - 2
      BY <3>1, <3>3, <3>6 DEF Waiting
    <3>10. IsFiniteSet(D) BY <3>1 DEF Waiting
    <3> HIDE DEF N, D, q
    <3> QED BY <3>6, <3>7, <3>8, <3>9, <3>10
  <2> QED BY <2>1, <2>2
<1> HIDE DEF N, D
<1>5. DOMAIN mPackets' \subseteq D
  <2>1. ~(q >= upto) BY <1>0, <1>3, <1>4
  <2> QED BY <1>3, <2>1
<1>6. IsFiniteSet(DOMAIN mPackets') /\ mNotInsertedCounter' <= Cardinality(DOMAIN mPackets')
  <2>1. DOMAIN mPackets' \in SUBSET D BY <1>5
  <2>2. IsFiniteSet(DOMAIN mPackets') BY <1>4, <2>1, FS_Subset
  <2>3. Cardinality(DOMAIN mPackets') \in Nat BY <2>2, FS_CardinalityType
  <2> QED BY <1>3, <2>2, <2>3
<1>7. \A r \in DOMAIN mPackets' : upto < r /\ r <= upto + PacketSequenceDiff - 2
  <2> SUFFICES ASSUME NEW r \in DOMAIN mPackets'
               PROVE  upto < r /\ r <= upto + PacketSequenceDiff - 2
    OBVIOUS
  <2>1. r \in D /\ r >= upto /\ r # upto /\ r \in Int
    BY <1>0, <1>3, <1>5 DEF D
  <2>2. r <= q + PacketSequenceDiff - 2 /\ q < upto /\ q \in Int BY <1>0, <1>3, <1>4, <2>1
  <2> QED BY <1>0, <2>1, <2>2
<1>8. ASSUME NEW other \in Positions
      PROVE  /\ InitialSeq + other < upto => other \notin inFlight'
             /\ InitialSeq + other = upto => other \in inFlight'
             /\ InitialSeq + other > upto =>
                   (other \in inFlight' <=> InitialSeq + other \notin DOMAIN mPackets')
  <2> DEFINE r == InitialSeq + other
  <2>0. other \in Int /\ r \in Int /\ q \in Int /\ pos \in Int BY <1>0
  <2>1. ASSUME r < upto PROVE other \notin inFlight'
    <3>1. CASE other < pos BY <1>4, <3>1
    <3>2. CASE other = pos BY <3>2
    <3>3. CASE other > pos
      <4>1. r \in q .. upto - 1 /\ r # q BY <1>0, <2>0, <2>1, <3>3
      <4>2. r \in D BY <1>3, <1>4, <4>1
      <4> QED BY <1>4, <3>3, <4>2
    <3> QED BY <2>0, <3>1, <3>2, <3>3
  <2>2. ASSUME r >= upto PROVE other > pos /\ (other \in inFlight' <=> r \notin D)
    <3>1. q < r BY <1>0, <1>3, <1>4, <2>0, <2>2
    <3>2. other > pos BY <1>0, <2>0, <3>1
    <3>3. other # pos BY <2>0, <3>2
    <3> QED BY <1>4, <3>2, <3>3
  <2>3. r >= upto /\ r # q => (r \in DOMAIN mPackets' <=> r \in D) BY <1>3
  <2>4. r >= upto => r # q BY <1>0, <1>3, <1>4, <2>0
  <2>5. upto \notin D BY <1>3
  <2>6. r = upto => other \in inFlight' BY <1>0, <2>2, <2>5
  <2>7. r > upto => (other \in inFlight' <=> r \notin DOMAIN mPackets')
    <3>1. r > upto => r >= upto BY <1>0, <2>0
    <3> HIDE DEF r
    <3> QED BY <2>2, <2>3, <2>4, <3>1
  <2> QED BY <2>1, <2>6, <2>7
<1>9. Positions' = Positions BY DEF Positions
<1>10. mLastInsertedSequenceNum' = mNextSequenceNum' - 1 BY <1>3
<1> HIDE DEF q
<1>11. /\ \A other \in Positions' :
            /\ InitialSeq + other < mNextSequenceNum' => other \notin inFlight'
            /\ InitialSeq + other = mNextSequenceNum' => other \in inFlight'
            /\ InitialSeq + other > mNextSequenceNum' =>
                  (other \in inFlight' <=> InitialSeq + other \notin DOMAIN mPackets')
       /\ \A r \in DOMAIN mPackets' : mNextSequenceNum' < r
                  /\ r <= mNextSequenceNum' + PacketSequenceDiff - 2
  BY <1>3, <1>7, <1>8, <1>9, Zenon
<1> QED BY <1>6, <1>10, <1>11, Zenon DEF Waiting

LEMMA TameDelivers ==
    ASSUME Fits, Patient, IInv, Counts, TameInv, NEW pos \in inFlight, Deliver(pos)
    PROVE  TameInv'
<1> SUFFICES ASSUME tame' PROVE (first = -1 => inFlight = Positions)' /\ (first # -1 => Waiting)'
  BY DEF TameInv
<1>1. /\ tame /\ NearlyInOrder(pos) /\ pos \notin inFlight'
      /\ inFlight' \in {inFlight, inFlight \ {pos}}
      /\ ProcessRTPPacket(Packet(pos)) /\ sent' = sent
      /\ first' = IF first = -1 THEN pos ELSE first
  BY DEF Deliver, Receive, sender
<1>2. inFlight' = inFlight \ {pos} BY <1>1
<1>3. pos \in Positions /\ first' # -1
  <2>1. pos \in Positions /\ Positions = 0 .. Len(sent) - 1 /\ Len(sent) \in Nat BY TameFacts
  <2> QED BY <1>1, <2>1
<1>4. ASSUME NEW upto \in 0 .. SeqMod, InsertPackets(Packet(pos), upto) PROVE Waiting'
  BY <1>1, <1>2, <1>4, TameInserts
<1>5. ASSUME ~Inserts(Packet(pos))
      PROVE  /\ first # -1 /\ Waiting
             /\ InitialSeq + pos # mNextSequenceNum
  <2>1. Packet(pos).seq = InitialSeq + pos BY <1>3, SeqOfPosition DEF Packet, IInv
  <2>2. InitialSeq + pos \in DOMAIN Pushed(Packet(pos)) BY <2>1 DEF Pushed
  <2>3. InitialSeq + pos # Expected(Packet(pos)) BY <1>5, <2>2 DEF Inserts
  <2>4. first # -1
    <3> SUFFICES ASSUME first = -1 PROVE FALSE OBVIOUS
    <3>1. mNextSequenceNum = -1 BY DEF IInv, ReceiverInv
    <3> QED BY <2>1, <2>3, <3>1 DEF Expected
  <2>5. mNextSequenceNum # -1 BY <2>4, TameFacts
  <2> QED BY <1>1, <2>3, <2>4, <2>5 DEF Expected, TameInv
<1>6. CASE SkipFrame(Packet(pos))
  <2>1. ~Inserts(Packet(pos)) /\ GiveUp(Packet(pos)) BY <1>6 DEF SkipFrame
  <2> QED BY <1>1, <1>5, <2>1, TameKeeps
<1>7. CASE KeepPacket(Packet(pos))
  <2> DEFINE N == mNextSequenceNum
             D == DOMAIN mPackets
             q == InitialSeq + pos
  <2>0. /\ InitialSeq \in Nat /\ N \in Int /\ D \subseteq Int /\ pos \in Int
        /\ Positions \subseteq Int /\ mNotInsertedCounter \in Nat
    BY <1>3, TameFacts
  <2>1. Waiting /\ q > N /\ q \notin D /\ q <= N + PacketSequenceDiff - 2
    BY <1>1, <1>5, <1>7, TameKeeps DEF KeepPacket
  <2>2. Packet(pos).seq = q BY <1>3, SeqOfPosition DEF Packet, IInv
  <2>3. /\ mNextSequenceNum' = N /\ mLastInsertedSequenceNum' = mLastInsertedSequenceNum
        /\ mNotInsertedCounter' = mNotInsertedCounter + 1
        /\ DOMAIN mPackets' = {r \in D \cup {q} : r >= N}
    BY <1>7, <2>2 DEF KeepPacket, Cleanup, Pushed
  <2>4. \A r \in D \cup {q} : N < r /\ r <= N + PacketSequenceDiff - 2
    BY <2>1 DEF Waiting
  <2>5. DOMAIN mPackets' = D \cup {q}
    <3>1. \A r \in D \cup {q} : r >= N BY <2>0, <2>4
    <3> QED BY <2>3, <3>1
  <2> HIDE DEF D
  <2>6. /\ IsFiniteSet(D \cup {q}) /\ mNotInsertedCounter + 1 <= Cardinality(D \cup {q})
    <3>1. IsFiniteSet(D) /\ mNotInsertedCounter <= Cardinality(D) BY <2>1 DEF Waiting, D
    <3> HIDE DEF q
    <3>2. IsFiniteSet(D \cup {q}) /\ Cardinality(D \cup {q}) = Cardinality(D) + 1
          /\ Cardinality(D) \in Nat
      BY <2>1, <3>1, FS_AddElement, FS_CardinalityType
    <3> QED BY <2>0, <3>1, <3>2
  <2>7. Positions' = Positions BY <1>1 DEF Positions
  <2>8. ASSUME NEW other \in Positions
        PROVE  /\ InitialSeq + other < N => other \notin inFlight'
               /\ InitialSeq + other = N => other \in inFlight'
               /\ InitialSeq + other > N =>
                     (other \in inFlight' <=> InitialSeq + other \notin D \cup {q})
    <3>1. /\ InitialSeq + other < N => other \notin inFlight
          /\ InitialSeq + other = N => other \in inFlight
          /\ InitialSeq + other > N => (other \in inFlight <=> InitialSeq + other \notin D)
      BY <2>1 DEF Waiting, D
    <3>2. InitialSeq + other = q <=> other = pos BY <2>0
    <3>3. other = pos => InitialSeq + other # N BY <2>0, <2>1
    <3> HIDE DEF N, q
    <3> QED BY <1>2, <3>1, <3>2, <3>3
  <2> HIDE DEF q
  <2>9. mLastInsertedSequenceNum' = mNextSequenceNum' - 1 BY <2>1, <2>3 DEF Waiting
  <2>10. /\ \A other \in Positions' :
              /\ InitialSeq + other < mNextSequenceNum' => other \notin inFlight'
              /\ InitialSeq + other = mNextSequenceNum' => other \in inFlight'
              /\ InitialSeq + other > mNextSequenceNum' =>
                    (other \in inFlight' <=> InitialSeq + other \notin DOMAIN mPackets')
         /\ \A r \in DOMAIN mPackets' : mNextSequenceNum' < r
                    /\ r <= mNextSequenceNum' + PacketSequenceDiff - 2
    BY <2>3, <2>4, <2>5, <2>7, <2>8, Zenon
  <2>11. IsFiniteSet(DOMAIN mPackets') /\ mNotInsertedCounter' <= Cardinality(DOMAIN mPackets')
    BY <2>3, <2>5, <2>6
  <2>12. Waiting' BY <2>9, <2>10, <2>11, Zenon DEF Waiting
  <2> QED BY <1>3, <2>12
<1>8. Waiting' BY <1>1, <1>4, <1>6, <1>7, <1>3 DEF ProcessRTPPacket
<1> QED BY <1>3, <1>8

\* The invariants of the frames give the other types.
LEMMA TypesTogether == ASSUME Fits PROVE IInv /\ Counts => TypeOK
<1> SUFFICES ASSUME IInv, Counts PROVE TypeOK OBVIOUS
<1>0. /\ InitialSeq \in Nat /\ Len(sent) \in Nat /\ mNextSequenceNum \in Int
      /\ Positions = 0 .. Len(sent) - 1 /\ inFlight \subseteq Positions
      /\ InitialSeq + Len(sent) <= SeqMod /\ SeqMod \in Nat
      /\ first # -1 => mNextSequenceNum - InitialSeq \in 0 .. Len(sent)
  <2>1. Len(sent) <= MaxPackets /\ MaxPackets \in Nat BY StreamAssumption DEF IInv, StreamInv
  <2>2. InitialSeq \in Nat /\ Len(sent) \in Nat BY TameFacts
  <2> QED BY <2>1, <2>2, TameFacts, SeqModAssumption DEF Fits
<1>1. mNextSequenceNum \in -1 .. SeqMod
  <2>1. CASE first = -1 BY <1>0, <2>1 DEF IInv, ReceiverInv
  <2>2. CASE first # -1 BY <1>0, <2>2
  <2> QED BY <2>1, <2>2
<1>2. ASSUME NEW q \in DOMAIN mPackets
      PROVE  /\ q \in SeqNums
             /\ \E pos \in Positions : mPackets[q] = Packet(pos) /\ q = SeqOf(pos)
  <2> DEFINE pos == q - InitialSeq
  <2>1. q \in Int /\ pos \in Positions /\ mPackets[q] = Packet(pos)
    BY DEF IInv, ReceiverInv, Kept
  <2>2. q \in SeqNums BY <1>0, <2>1 DEF SeqNums
  <2> HIDE DEF pos
  <2>3. SeqOf(pos) = InitialSeq + pos BY <2>1, SeqOfPosition DEF IInv
  <2>4. q = InitialSeq + pos BY <1>0, <2>1 DEF pos
  <2> QED BY <2>1, <2>2, <2>3, <2>4
<1>3. mCurrentFrame \in Seq(Positions)
  <2>1. CASE first = -1
    <3>1. mCurrentFrame = << >> BY <2>1 DEF IInv, ReceiverInv
    <3> QED BY <3>1
  <2>2. CASE first # -1
    <3>1. Open(mCurrentFrame, mNextSequenceNum, first) BY <2>2 DEF IInv, ReceiverInv
    <3> DEFINE n == Len(mCurrentFrame)
               s == Start(mCurrentFrame, mNextSequenceNum)
    <3>2. mCurrentFrame \in Seq(Int) /\ n \in Nat /\ s \in Nat
          /\ \A i \in 1 .. n : mCurrentFrame[i] = s + i - 1
      BY <3>1 DEF Open
    <3>3. s + n = mNextSequenceNum - InitialSeq BY <1>0, <3>2 DEF Start
    <3>4. s + n <= Len(sent) BY <1>0, <2>2, <3>3
    <3> HIDE DEF s
    <3>5. \A i \in 1 .. n : mCurrentFrame[i] \in Positions BY <1>0, <3>2, <3>4
    <3>6. mCurrentFrame = [i \in 1 .. n |-> mCurrentFrame[i]] BY <3>2
    <3>7. [i \in 1 .. n |-> mCurrentFrame[i]] \in Seq(Positions) BY <3>2, <3>5, IsASeq
    <3> QED BY <3>6, <3>7
  <2> QED BY <2>1, <2>2
<1>4. \A frame \in delivered : frame \in Seq(Positions) /\ frame # << >>
  BY DEF IInv, DeliveredInv
<1>5. sent \in Seq(BOOLEAN) /\ inFlight \subseteq Positions /\ first \in Positions \cup {-1}
  BY DEF IInv, StreamInv
<1>6. DOMAIN mPackets \subseteq SeqNums BY <1>2
<1> QED BY <1>1, <1>2, <1>3, <1>4, <1>5, <1>6 DEF TypeOK, Counts

LEMMA InitTame == Init => Counts /\ TameInv
<1> SUFFICES ASSUME Init PROVE Counts /\ TameInv OBVIOUS
<1>1. /\ fragmentsLeft = 0 /\ losses = 0 /\ tame = TRUE /\ rewound = FALSE
      /\ mNotInsertedCounter = 0 /\ mLastInsertedSequenceNum = 0
      /\ newest = -1 /\ first = -1 /\ inFlight = {} /\ sent = << >>
  BY DEF Init, ReceiverInit
<1>2. Positions = {} BY <1>1 DEF Positions
<1>3. MaxFragments \in Nat /\ MaxLosses \in Nat /\ 0 \in SeqNums
  BY StreamAssumption, SeqModAssumption DEF SeqNums
<1>4. tame \in BOOLEAN /\ rewound \in BOOLEAN BY <1>1
<1>5. fragmentsLeft \in 0 .. MaxFragments /\ losses \in 0 .. MaxLosses BY <1>1, <1>3
<1>6. mNotInsertedCounter \in Nat /\ mLastInsertedSequenceNum \in SeqNums
      /\ newest \in Positions \cup {-1}
  BY <1>1, <1>3
<1>7. inFlight = Positions /\ first = -1 BY <1>1, <1>2
<1> QED BY <1>4, <1>5, <1>6, <1>7 DEF Counts, TameInv

LEMMA NextCounts ==
    ASSUME IInv, IInv', Counts, Next PROVE Counts'
<1>0. /\ MaxFragments \in Nat /\ MaxLosses \in Nat /\ SeqMod \in Nat
      /\ fragmentsLeft \in 0 .. MaxFragments /\ losses \in 0 .. MaxLosses
      /\ mNotInsertedCounter \in Nat /\ mLastInsertedSequenceNum \in SeqNums
      /\ newest \in Positions \cup {-1} /\ tame \in BOOLEAN /\ rewound \in BOOLEAN
  BY StreamAssumption, SeqModAssumption DEF Counts
<1>1. Len(sent) \in Nat BY DEF IInv, StreamInv
<1>2. ASSUME NEW n \in 1 .. MaxFragments, SendFrame(n) PROVE Counts'
  <2>1. /\ fragmentsLeft' = n
        /\ UNCHANGED <<losses, tame, rewound, mNotInsertedCounter,
                       mLastInsertedSequenceNum, newest, sent>>
    BY <1>2 DEF SendFrame, receiver, network, history
  <2> QED BY <1>0, <2>1 DEF Counts, Positions
<1>3. CASE SendFragment
  <2> DEFINE b == fragmentsLeft = 1
  <2>1. /\ fragmentsLeft' = fragmentsLeft - 1 /\ fragmentsLeft > 0
        /\ sent' = Append(sent, b)
        /\ UNCHANGED <<losses, tame, rewound, mNotInsertedCounter,
                       mLastInsertedSequenceNum, newest>>
    BY <1>3 DEF SendFragment, receiver, history
  <2>2. Len(sent') = Len(sent) + 1
    <3>1. sent \in Seq(BOOLEAN) /\ b \in BOOLEAN BY DEF IInv, StreamInv
    <3> HIDE DEF b
    <3> QED BY <2>1, <3>1, AppendProperties
  <2>3. Positions \subseteq Positions' BY <1>1, <2>2 DEF Positions
  <2>4. fragmentsLeft' \in 0 .. MaxFragments BY <1>0, <2>1
  <2> HIDE DEF b
  <2> QED BY <1>0, <2>1, <2>3, <2>4 DEF Counts
<1>4. ASSUME NEW pos \in inFlight, Lose(pos) PROVE Counts'
  <2>1. /\ losses < MaxLosses /\ losses' = losses + 1 /\ tame' = FALSE
        /\ UNCHANGED <<fragmentsLeft, rewound, mNotInsertedCounter,
                       mLastInsertedSequenceNum, newest, sent>>
    BY <1>4 DEF Lose, receiver, sender, history
  <2>2. losses' \in 0 .. MaxLosses BY <1>0, <2>1
  <2>3. tame' \in BOOLEAN BY <2>1, Zenon
  <2> QED BY <1>0, <2>1, <2>2, <2>3 DEF Counts, Positions
<1>5. ASSUME NEW pos \in inFlight, Deliver(pos) PROVE Counts'
  <2>1. /\ ProcessRTPPacket(Packet(pos)) /\ sent' = sent
        /\ newest' \in {newest} \cup Ends(delivered')
        /\ rewound' \in BOOLEAN /\ tame' \in BOOLEAN
        /\ fragmentsLeft' = fragmentsLeft /\ losses' = losses
    BY <1>5 DEF Deliver, Receive, sender
  <2>2. Positions' = Positions BY <2>1 DEF Positions
  <2>3. newest' \in Positions \cup {-1}
    <3>1. ASSUME NEW frame \in delivered' PROVE frame[Len(frame)] \in Positions
      <4>1. frame \in Seq(Positions) /\ frame # << >>
        BY <2>2 DEF IInv, DeliveredInv
      <4>2. Len(frame) \in 1 .. Len(frame) BY <4>1
      <4> QED BY <4>1, <4>2, ElementOfSeq
    <3> QED BY <1>0, <2>1, <3>1 DEF Ends
  <2>4. mNotInsertedCounter' \in Nat /\ mLastInsertedSequenceNum' \in SeqNums
    <3>1. ASSUME NEW upto \in 0 .. SeqMod, InsertPackets(Packet(pos), upto)
          PROVE  mNotInsertedCounter' \in Nat /\ mLastInsertedSequenceNum' \in SeqNums
      <4>1. /\ mNotInsertedCounter' = 0 /\ mLastInsertedSequenceNum' = upto - 1
            /\ Expected(Packet(pos)) < upto
        BY <3>1 DEF InsertPackets
      <4>2. Expected(Packet(pos)) \in Nat
        <5>1. /\ first = -1 => mNextSequenceNum = -1
              /\ first # -1 => mNextSequenceNum - InitialSeq \in 0 .. Len(sent)
              /\ mNextSequenceNum \in Int /\ InitialSeq \in Nat /\ pos \in Nat
          BY StreamAssumption DEF IInv, ReceiverInv, StreamInv, SeqNums, Positions
        <5>2. Packet(pos).seq \in Nat
          BY <5>1, SeqModAssumption DEF Packet, SeqOf
        <5> QED BY <1>1, <5>1, <5>2 DEF Expected
      <4> QED BY <1>0, <4>1, <4>2 DEF SeqNums
    <3>2. CASE SkipFrame(Packet(pos)) BY <1>0, <3>2 DEF SkipFrame
    <3>3. CASE KeepPacket(Packet(pos)) BY <1>0, <3>3 DEF KeepPacket
    <3> QED BY <2>1, <3>1, <3>2, <3>3 DEF ProcessRTPPacket
  <2> QED BY <1>0, <2>1, <2>2, <2>3, <2>4 DEF Counts
<1> QED BY <1>2, <1>3, <1>4, <1>5 DEF Next

LEMMA NextTame ==
    ASSUME Fits, Patient PROVE IInv /\ Counts /\ TameInv /\ [Next]_vars => Counts' /\ TameInv'
<1> SUFFICES ASSUME IInv, Counts, TameInv, [Next]_vars PROVE Counts' /\ TameInv' OBVIOUS
<1>0. IInv' BY NextIInv
<1>1. CASE UNCHANGED vars
  <2>1. UNCHANGED <<mNextSequenceNum, mPackets, mNotInsertedCounter,
                    mLastInsertedSequenceNum, sent, fragmentsLeft, inFlight, losses, tame,
                    first, newest, rewound>>
    BY <1>1 DEF vars, receiver, sender, network, history
  <2>2. Positions' = Positions BY <2>1 DEF Positions
  <2>3. Counts' BY <2>1, <2>2 DEF Counts
  <2>4. TameInv' BY <2>1, <2>2 DEF TameInv, Waiting
  <2> QED BY <2>3, <2>4
<1>2. ASSUME Next PROVE Counts' BY <1>0, <1>2, NextCounts
<1>3. ASSUME NEW n \in 1 .. MaxFragments, SendFrame(n) PROVE TameInv'
  <2>1. UNCHANGED <<mNextSequenceNum, mPackets, mNotInsertedCounter,
                    mLastInsertedSequenceNum, sent, inFlight, tame, first>>
    BY <1>3 DEF SendFrame, receiver, network, history
  <2>2. Positions' = Positions BY <2>1 DEF Positions
  <2> QED BY <2>1, <2>2 DEF TameInv, Waiting
<1>4. CASE SendFragment
  <2> DEFINE n == Len(sent)
             b == fragmentsLeft = 1
  <2>0. /\ InitialSeq \in Nat /\ n \in Nat /\ mNextSequenceNum \in Int
        /\ Positions = 0 .. n - 1
        /\ first # -1 => mNextSequenceNum - InitialSeq \in 0 .. n
    BY TameFacts
  <2>1. /\ sent' = Append(sent, b) /\ inFlight' = inFlight \cup {n}
        /\ UNCHANGED <<mNextSequenceNum, mPackets, mNotInsertedCounter,
                       mLastInsertedSequenceNum, tame, first>>
    BY <1>4 DEF SendFragment, receiver, history
  <2>2. Len(sent') = n + 1
    <3>1. sent \in Seq(BOOLEAN) /\ b \in BOOLEAN BY DEF IInv, StreamInv
    <3> HIDE DEF b
    <3> QED BY <2>1, <3>1, AppendProperties
  <2>3. Positions' = Positions \cup {n} /\ n \notin Positions BY <2>0, <2>2 DEF Positions
  <2>4. ASSUME tame, first # -1 PROVE Waiting'
    <3>1. Waiting BY <2>4 DEF TameInv
    <3>2. n \in inFlight' /\ InitialSeq + n \in Int BY <2>0, <2>1
    <3>3. InitialSeq + n >= mNextSequenceNum BY <2>0, <2>4
    \* A packet kept has been sent.
    <3>4. InitialSeq + n \notin DOMAIN mPackets
      <4> SUFFICES ASSUME InitialSeq + n \in DOMAIN mPackets PROVE FALSE OBVIOUS
      <4>1. (InitialSeq + n) - InitialSeq \in Positions
        BY DEF IInv, ReceiverInv, Kept
      <4> QED BY <2>0, <4>1
    <3>5. ASSUME NEW pos \in Positions'
          PROVE  /\ InitialSeq + pos < mNextSequenceNum => pos \notin inFlight'
                 /\ InitialSeq + pos = mNextSequenceNum => pos \in inFlight'
                 /\ InitialSeq + pos > mNextSequenceNum =>
                       (pos \in inFlight' <=> InitialSeq + pos \notin DOMAIN mPackets)
      <4>1. CASE pos = n
        <5>1. ~(InitialSeq + pos < mNextSequenceNum) BY <2>0, <3>3, <4>1
        <5> HIDE DEF n
        <5> QED BY <3>2, <3>4, <4>1, <5>1
      <4>2. CASE pos # n
        <5>1. pos \in Positions /\ (pos \in inFlight' <=> pos \in inFlight)
          BY <2>1, <2>3, <4>2
        <5> QED BY <3>1, <5>1 DEF Waiting
      <4> QED BY <4>1, <4>2
    <3> HIDE DEF n, b
    <3>6. /\ mLastInsertedSequenceNum' = mNextSequenceNum' - 1
          /\ \A q \in DOMAIN mPackets' : mNextSequenceNum' < q
                 /\ q <= mNextSequenceNum' + PacketSequenceDiff - 2
          /\ IsFiniteSet(DOMAIN mPackets')
          /\ mNotInsertedCounter' <= Cardinality(DOMAIN mPackets')
      BY <2>1, <3>1 DEF Waiting
    <3>7. /\ \A pos \in Positions' :
              /\ InitialSeq + pos < mNextSequenceNum' => pos \notin inFlight'
              /\ InitialSeq + pos = mNextSequenceNum' => pos \in inFlight'
              /\ InitialSeq + pos > mNextSequenceNum' =>
                    (pos \in inFlight' <=> InitialSeq + pos \notin DOMAIN mPackets')
      BY <2>1, <3>5
    <3> QED BY <3>6, <3>7, Zenon DEF Waiting
  <2>5. tame /\ first = -1 => inFlight' = Positions' BY <2>1, <2>3 DEF TameInv
  <2>6. tame' = tame /\ first' = first BY <2>1
  <2>7. TameInv'
    <3> SUFFICES ASSUME tame'
                 PROVE  (first = -1 => inFlight = Positions)' /\ (first # -1 => Waiting)'
      BY DEF TameInv
    <3>1. tame BY <2>6
    <3>2. CASE first = -1
      <4>1. first' = -1 BY <2>6, <3>2
      <4> QED BY <2>5, <3>1, <3>2, <4>1
    <3>3. CASE first # -1
      <4>1. first' # -1 BY <2>6, <3>3
      <4>2. Waiting' BY <2>4, <3>1, <3>3
      <4> QED BY <4>1, <4>2
    <3> QED BY <3>2, <3>3
  <2> QED BY <1>2, <1>4, <2>7 DEF Next
<1>5. ASSUME NEW pos \in inFlight, Lose(pos) PROVE TameInv'
  BY <1>5 DEF Lose, TameInv
<1>6. ASSUME NEW pos \in inFlight, Deliver(pos) PROVE TameInv' BY <1>6, TameDelivers
<1> QED BY <1>1, <1>2, <1>3, <1>4, <1>5, <1>6 DEF Next

\* As long as the numbers do not wrap around: on a network that loses and repeats
\* nothing and delays a packet by fewer others than the receiver waits for, it
\* gives no packet up; whatever the network does, the types.
THEOREM NothingGivenUp == ASSUME Fits, Patient PROVE Spec => []RtpStreamInv
<1>1. Init => IInv /\ Counts /\ TameInv BY InitIInv, InitTame
<1>2. IInv /\ Counts /\ TameInv /\ [Next]_vars => IInv' /\ Counts' /\ TameInv'
  BY NextIInv, NextTame
<1>3. IInv /\ Counts /\ TameInv => RtpStreamInv
  <2> SUFFICES ASSUME IInv, Counts, TameInv PROVE NothingSkipped
    BY TypesTogether DEF RtpStreamInv
  <2> SUFFICES ASSUME tame, first # -1, NEW pos \in Positions
               PROVE  /\ SeqOf(pos) < mNextSequenceNum => pos \notin inFlight
                      /\ SeqOf(pos) = mNextSequenceNum => pos \in inFlight
    BY DEF NothingSkipped
  <2>1. SeqOf(pos) = InitialSeq + pos BY SeqOfPosition DEF IInv
  <2> QED BY <2>1 DEF TameInv, Waiting
<1> QED BY <1>1, <1>2, <1>3, PTL DEF Spec

-----------------------------------------------------------------------------
(* Finding back into the stream.                                            *)

\* A round of numbers is longer than the receiver takes to give up.
LongRounds == PacketBufferSize + FrameFragments < SeqMod

StreamPacket == [seq : SeqNums, marker : BOOLEAN, payload : {0}]

RecoveryTypes ==
    /\ seqnr \in SeqNums
    /\ fragmentsToSend \in 0 .. FrameFragments
    /\ channel \in Seq(StreamPacket) /\ Len(channel) <= MaxInFlight
    /\ mNextSequenceNum \in -1 .. SeqMod
    /\ DOMAIN mPackets \subseteq SeqNums
    /\ mNotInsertedCounter \in Nat
    /\ mLastInsertedSequenceNum \in SeqNums
    /\ stable \in BOOLEAN /\ stall \in Nat
    /\ ~stable => stall = 0

\* The number of the i-th packet to come, if i - 1 are in the channel that of
\* the next one sent.
Upcoming(i) == IF i <= Len(channel) THEN channel[i].seq ELSE seqnr

\* Of the e packets that begin with the i-th to come one is marked.
MarkedWithin(i, e) ==
    \/ \E j \in i .. Len(channel) : j - i < e /\ channel[j].marker
    \/ fragmentsToSend > 0 /\ Len(channel) - i + 1 + fragmentsToSend <= e
    \/ fragmentsToSend = 0 /\ Len(channel) < i /\ FrameFragments <= e

\* After the first m packets of the channel the stream has no gap.
Gapless(m) ==
    /\ \A i \in m + 1 .. Len(channel) : Upcoming(i + 1) = (channel[i].seq + 1) % SeqMod
    /\ \A i \in m + 1 .. Len(channel) + 1 : MarkedWithin(i, FrameFragments)

\* The three ways to wait when no gap is left: for the counter, or whatever
\* ends the wait before; with the number behind the highest for the counter
\* once more; and for the packet that comes next.
Round == PacketBufferSize + FrameFragments

FirstRound ==
    /\ stall <= MaxInFlight + mNotInsertedCounter
    /\ mNotInsertedCounter >= PacketBufferSize =>
          MarkedWithin(1, MaxInFlight + Round - stall)

SecondRound ==
    /\ mNextSequenceNum = SeqMod
    /\ Upcoming(1) = mNotInsertedCounter
    /\ stall <= MaxInFlight + Round + mNotInsertedCounter
    /\ mNotInsertedCounter >= PacketBufferSize =>
          MarkedWithin(1, Round - mNotInsertedCounter)

AboutToInsert ==
    /\ mNextSequenceNum = Upcoming(1)
    /\ stall <= MaxStall

\* m packets are left of the bad network's.
StableInv ==
    stable => \E m \in 0 .. Len(channel) :
                 /\ Gapless(m)
                 /\ m > 0 => stall <= MaxInFlight - m
                 /\ m = 0 => FirstRound \/ SecondRound \/ AboutToInsert

RecInv == RecoveryTypes /\ StableInv

-----------------------------------------------------------------------------
LEMMA ConstantsAreNumbers ==
    /\ SeqMod \in Nat \ {0} /\ PacketBufferSize \in Nat /\ PacketSequenceDiff \in Nat
    /\ FrameFragments \in Nat /\ MaxInFlight \in Nat /\ MaxBadInVain \in Nat
    /\ Round \in Nat
BY SeqModAssumption, ThresholdAssumption, RecoveryAssumption DEF Round

LEMMA RecoveryStarts == RecoveryInit => RecInv
<1> SUFFICES ASSUME RecoveryInit PROVE RecInv OBVIOUS
<1> USE ConstantsAreNumbers DEF RecoveryInit, ReceiverInit
<1>1. channel \in Seq(StreamPacket) /\ Len(channel) = 0 BY EmptySeq
<1>2. DOMAIN mPackets \subseteq SeqNums
  <2>1. DOMAIN mPackets = {} OBVIOUS
  <2> QED BY <2>1
<1>3. /\ seqnr \in SeqNums /\ fragmentsToSend \in 0 .. FrameFragments
      /\ mNextSequenceNum \in -1 .. SeqMod /\ mNotInsertedCounter \in Nat
      /\ mLastInsertedSequenceNum \in SeqNums
      /\ stable = FALSE /\ stall \in Nat /\ stall = 0
  BY DEF SeqNums
<1>4. Len(channel) <= MaxInFlight BY <1>1
<1>5. RecoveryTypes BY <1>1, <1>2, <1>3, <1>4, Zenon DEF RecoveryTypes
<1> QED BY <1>5 DEF RecInv, StableInv

\* What a packet does to the numbers the receiver keeps, and that it comes into
\* a frame or is counted or ends the wait.
LEMMA PacketIsProcessed ==
    ASSUME RecoveryTypes, NEW p \in StreamPacket, ProcessRTPPacket(p)
    PROVE  /\ mNextSequenceNum' \in -1 .. SeqMod
           /\ DOMAIN mPackets' \subseteq SeqNums
           /\ mNotInsertedCounter' \in Nat
           /\ mLastInsertedSequenceNum' \in SeqNums
           /\ \/ Inserts(p) /\ mNotInsertedCounter' = 0
              \/ /\ ~Inserts(p) /\ p.marker /\ mNotInsertedCounter' = 0
                 /\ mNextSequenceNum' = p.seq + 1
              \/ /\ ~Inserts(p)
                 /\ mNotInsertedCounter >= PacketBufferSize => ~p.marker
                 /\ mNotInsertedCounter' = mNotInsertedCounter + 1
                 /\ mNextSequenceNum' = mNextSequenceNum
<1> USE ConstantsAreNumbers DEF RecoveryTypes
<1>0. p.seq \in SeqNums /\ p.seq \in Nat /\ p.seq < SeqMod /\ p.marker \in BOOLEAN
  BY DEF StreamPacket, SeqNums
<1>1. DOMAIN Pushed(p) \subseteq SeqNums BY <1>0 DEF Pushed
<1>2. ASSUME NEW n PROVE DOMAIN Cleanup(Pushed(p), n) \subseteq SeqNums
  BY <1>1 DEF Cleanup
<1>3. ASSUME NEW upto \in 0 .. SeqMod, InsertPackets(p, upto)
      PROVE  /\ upto - 1 \in SeqNums /\ Inserts(p)
             /\ mNotInsertedCounter' = 0 /\ mNextSequenceNum' = upto
             /\ mLastInsertedSequenceNum' = upto - 1
             /\ DOMAIN mPackets' \subseteq SeqNums
  <2>1. Expected(p) \in Nat /\ Expected(p) < upto
    BY <1>0, <1>3 DEF InsertPackets, Expected
  <2>2. Expected(p) \in Expected(p) .. upto - 1 BY <2>1
  <2>3. Inserts(p) BY <1>3, <2>2 DEF InsertPackets, Inserts
  <2> QED BY <1>2, <1>3, <2>1, <2>3 DEF InsertPackets, SeqNums
<1>4. CASE SkipFrame(p) BY <1>0, <1>2, <1>4 DEF SkipFrame
<1>5. CASE KeepPacket(p) BY <1>0, <1>2, <1>5 DEF KeepPacket, GiveUp
<1> QED BY <1>3, <1>4, <1>5 DEF ProcessRTPPacket

\* A longer wait is as good.
LEMMA MarkedLater ==
    ASSUME RecoveryTypes, NEW i \in Nat, NEW e \in Int, NEW d \in Int, e <= d,
           MarkedWithin(i, e)
    PROVE  MarkedWithin(i, d)
BY ConstantsAreNumbers DEF MarkedWithin, RecoveryTypes

\* There is no wait of no packets for one that is marked.
LEMMA MarkedIsSome ==
    ASSUME RecoveryTypes, NEW e \in Int, MarkedWithin(1, e)
    PROVE  e >= 0 /\ (channel # << >> => e >= 1)
BY ConstantsAreNumbers DEF MarkedWithin, RecoveryTypes

\* The same packets come when the next frame has been begun.
LEMMA FrameBegins ==
    ASSUME RecoveryTypes, SendNextFrame
    PROVE  /\ \A i \in 1 .. Len(channel) + 1, e \in Int :
                MarkedWithin(i, e) => MarkedWithin(i, e)'
           /\ \A i \in Nat : Upcoming(i)' = Upcoming(i)
<1> USE ConstantsAreNumbers DEF RecoveryTypes
<1>0. /\ Len(channel) \in Nat /\ channel' = channel /\ seqnr' = seqnr
      /\ fragmentsToSend = 0 /\ fragmentsToSend' \in 1 .. FrameFragments
  BY DEF SendNextFrame
<1>1. ASSUME NEW i \in 1 .. Len(channel) + 1, NEW e \in Int, MarkedWithin(i, e)
      PROVE  MarkedWithin(i, e)'
  BY <1>0, <1>1 DEF MarkedWithin
<1> QED BY <1>0, <1>1 DEF Upcoming

\* Nor when a packet has been sent, which is the one that was to be.
LEMMA FragmentIsSent ==
    ASSUME RecoveryTypes, SendNextFragment
    PROVE  /\ \A i \in 1 .. Len(channel) + 1, e \in Int :
                MarkedWithin(i, e) => MarkedWithin(i, e)'
           /\ \A i \in 1 .. Len(channel) + 1 : Upcoming(i)' = Upcoming(i)
           /\ \A i \in Nat : i = Len(channel) + 2 => MarkedWithin(i, FrameFragments)'
           /\ RecoveryTypes' /\ Len(channel') = Len(channel) + 1
           /\ channel'[Len(channel) + 1].seq = seqnr /\ seqnr' = (seqnr + 1) % SeqMod
           /\ \A i \in 1 .. Len(channel) : channel'[i] = channel[i]
<1> USE ConstantsAreNumbers DEF RecoveryTypes
<1> DEFINE L == Len(channel)
           p == [seq |-> seqnr, payload |-> 0, marker |-> fragmentsToSend = 1]
<1>0. /\ L \in Nat /\ L < MaxInFlight /\ channel' = Append(channel, p)
      /\ seqnr' = (seqnr + 1) % SeqMod /\ fragmentsToSend' = fragmentsToSend - 1
      /\ fragmentsToSend \in 1 .. FrameFragments
      /\ UNCHANGED <<receiver, stable, stall>>
  BY DEF SendNextFragment
<1>1. p \in StreamPacket BY DEF StreamPacket
<1>2. /\ channel' \in Seq(StreamPacket) /\ Len(channel') = L + 1
      /\ channel'[L + 1] = p /\ \A i \in 1 .. L : channel'[i] = channel[i]
  BY <1>0, <1>1, AppendProperties
<1>3. RecoveryTypes'
  <2>1. seqnr' \in SeqNums /\ fragmentsToSend' \in 0 .. FrameFragments
    BY <1>0 DEF SeqNums
  <2>2. Len(channel') <= MaxInFlight BY <1>0, <1>2
  <2> QED BY <1>0, <1>2, <2>1, <2>2 DEF receiver
<1>4. ASSUME NEW i \in 1 .. L + 1, NEW e \in Int, MarkedWithin(i, e)
      PROVE  MarkedWithin(i, e)'
  <2>1. ASSUME NEW j \in i .. L, j - i < e, channel[j].marker PROVE MarkedWithin(i, e)'
    <3>1. j \in i .. L + 1 /\ channel'[j].marker BY <1>0, <1>2, <2>1
    <3> QED BY <1>2, <2>1, <3>1 DEF MarkedWithin
  <2>2. CASE L - i + 1 + fragmentsToSend <= e
    <3>1. CASE fragmentsToSend = 1
      <4>1. L + 1 \in i .. L + 1 /\ channel'[L + 1].marker /\ L + 1 - i < e
        <5>1. p.marker BY <3>1, Zenon
        <5>2. channel'[L + 1].marker BY <1>2, <5>1, Zenon
        <5> QED BY <1>0, <2>2, <3>1, <5>2
      <4> QED BY <1>2, <4>1 DEF MarkedWithin
    <3>2. CASE fragmentsToSend # 1
      <4>1. fragmentsToSend' > 0 /\ Len(channel') - i + 1 + fragmentsToSend' <= e
        BY <1>0, <1>2, <2>2, <3>2
      <4> QED BY <4>1 DEF MarkedWithin
    <3> QED BY <3>1, <3>2
  <2> QED BY <1>0, <1>4, <2>1, <2>2 DEF MarkedWithin
<1>5. ASSUME NEW i \in Nat, i = L + 2 PROVE MarkedWithin(i, FrameFragments)'
  BY <1>0, <1>2, <1>5 DEF MarkedWithin
<1>6. ASSUME NEW i \in 1 .. L + 1 PROVE Upcoming(i)' = Upcoming(i)
  BY <1>0, <1>2 DEF Upcoming
<1> QED BY <1>0, <1>2, <1>3, <1>4, <1>5, <1>6

\* When the oldest packet has been taken the others have moved up.
LEMMA PacketIsTaken ==
    ASSUME RecoveryTypes, channel # << >>, channel' = Tail(channel),
           UNCHANGED <<seqnr, fragmentsToSend>>
    PROVE  /\ channel' \in Seq(StreamPacket) /\ Len(channel') = Len(channel) - 1
           /\ Head(channel) = channel[1] /\ channel[1] \in StreamPacket
           /\ \A i \in 1 .. Len(channel) - 1 : channel'[i] = channel[i + 1]
           /\ \A i \in 1 .. Len(channel) : Upcoming(i)' = Upcoming(i + 1)
           /\ \A i \in 1 .. Len(channel), e \in Int :
                MarkedWithin(i + 1, e) => MarkedWithin(i, e)'
           /\ \A e \in Int :
                ~channel[1].marker /\ MarkedWithin(1, e) => MarkedWithin(1, e - 1)'
<1> USE ConstantsAreNumbers DEF RecoveryTypes
<1> DEFINE L == Len(channel)
<1>0. L \in Nat \ {0} /\ Head(channel) = channel[1] /\ channel[1] \in StreamPacket
  OBVIOUS
<1>1. /\ channel' \in Seq(StreamPacket) /\ Len(channel') = L - 1
      /\ \A i \in 1 .. L - 1 : channel'[i] = channel[i + 1]
  BY HeadTailProperties
<1>2. ASSUME NEW i \in 1 .. L PROVE Upcoming(i)' = Upcoming(i + 1)
  BY <1>0, <1>1 DEF Upcoming
<1>3. ASSUME NEW i \in 1 .. L, NEW e \in Int, MarkedWithin(i + 1, e)
      PROVE  MarkedWithin(i, e)'
  <2>1. ASSUME NEW j \in i + 1 .. L, j - (i + 1) < e, channel[j].marker
        PROVE  MarkedWithin(i, e)'
    <3>1. j - 1 \in i .. L - 1 /\ j - 1 - i < e /\ channel'[j - 1].marker
      <4>1. j - 1 \in 1 .. L - 1 /\ j = (j - 1) + 1 BY <1>0
      <4>2. channel'[j - 1] = channel[j] BY <1>1, <4>1
      <4> QED BY <1>0, <2>1, <4>2
    <3> QED BY <1>1, <3>1 DEF MarkedWithin
  <2> QED BY <1>0, <1>1, <1>3, <2>1 DEF MarkedWithin
<1>4. ASSUME NEW e \in Int, ~channel[1].marker, MarkedWithin(1, e)
      PROVE  MarkedWithin(1, e - 1)'
  <2>1. MarkedWithin(2, e - 1)
    <3>1. ASSUME NEW j \in 1 .. L, j - 1 < e, channel[j].marker
          PROVE  j \in 2 .. L /\ j - 2 < e - 1
      BY <1>0, <1>4, <3>1
    <3> QED BY <1>0, <1>4, <3>1 DEF MarkedWithin
  <2> QED BY <1>0, <1>3, <2>1
<1> QED BY <1>0, <1>1, <1>2, <1>3, <1>4

\* The gap-free part of the channel when the bad network's next packet, if one
\* is left, has been taken.
LEMMA GaplessMovesUp ==
    ASSUME RecoveryTypes, channel # << >>, channel' = Tail(channel),
           UNCHANGED <<seqnr, fragmentsToSend>>,
           NEW m \in 0 .. Len(channel), Gapless(m),
           NEW n \in 0 .. Len(channel) - 1, n = IF m = 0 THEN 0 ELSE m - 1
    PROVE  Gapless(n)'
<1> DEFINE L == Len(channel)
<1>0. L \in Nat \ {0} /\ Len(channel') = L - 1 BY PacketIsTaken DEF RecoveryTypes
<1>1. ASSUME NEW i \in n + 1 .. Len(channel')
      PROVE  Upcoming(i + 1)' = (channel'[i].seq + 1) % SeqMod
  <2>1. i + 1 \in m + 1 .. L /\ i \in 1 .. L - 1 /\ i + 1 \in 1 .. L BY <1>0
  <2>2. Upcoming((i + 1) + 1) = (channel[i + 1].seq + 1) % SeqMod BY <2>1 DEF Gapless
  <2>3. /\ Upcoming(i + 1)' = Upcoming((i + 1) + 1)
        /\ channel'[i] = channel[i + 1]
    BY <2>1, PacketIsTaken
  <2> QED BY <2>2, <2>3
<1>2. ASSUME NEW i \in n + 1 .. Len(channel') + 1
      PROVE  MarkedWithin(i, FrameFragments)'
  <2>1. i + 1 \in m + 1 .. L + 1 /\ i \in 1 .. L BY <1>0
  <2>2. MarkedWithin(i + 1, FrameFragments) BY <2>1 DEF Gapless
  <2> QED BY <2>1, <2>2, PacketIsTaken, ConstantsAreNumbers
<1> QED BY <1>1, <1>2 DEF Gapless

\* The bound follows from where the receiver is.
LEMMA StallIsBounded == LongRounds /\ RecInv => StallBounded
<1> SUFFICES ASSUME LongRounds, RecInv PROVE StallBounded OBVIOUS
<1> USE ConstantsAreNumbers DEF RecInv
<1>1. /\ stall \in Nat /\ mNotInsertedCounter \in Nat /\ Round \in Nat
      /\ MaxStall = MaxInFlight + Round + Round
  BY DEF RecoveryTypes, Round, MaxStall
<1>2. CASE ~stable BY <1>1, <1>2 DEF RecoveryTypes, StallBounded
<1>3. CASE stable
  <2>1. PICK m \in 0 .. Len(channel) :
          /\ m > 0 => stall <= MaxInFlight - m
          /\ m = 0 => FirstRound \/ SecondRound \/ AboutToInsert
    BY <1>3 DEF StableInv
  <2>2. CASE m > 0 BY <1>1, <2>1, <2>2 DEF StallBounded, RecoveryTypes
  <2>3. CASE FirstRound
    <3>1. CASE mNotInsertedCounter >= PacketBufferSize
      BY <1>1, <2>3, <3>1, MarkedIsSome DEF FirstRound, StallBounded
    <3>2. CASE mNotInsertedCounter < PacketBufferSize
      BY <1>1, <2>3, <3>2 DEF FirstRound, StallBounded, Round
    <3> QED BY <1>1, <3>1, <3>2
  <2>4. CASE SecondRound
    <3>1. CASE mNotInsertedCounter >= PacketBufferSize
      BY <1>1, <2>4, <3>1, MarkedIsSome DEF SecondRound, StallBounded
    <3>2. CASE mNotInsertedCounter < PacketBufferSize
      BY <1>1, <2>4, <3>2 DEF SecondRound, StallBounded, Round
    <3> QED BY <1>1, <3>1, <3>2
  <2>5. CASE AboutToInsert BY <2>5 DEF AboutToInsert, StallBounded
  <2> QED BY <2>1, <2>2, <2>3, <2>4, <2>5 DEF RecoveryTypes
<1> QED BY <1>2, <1>3

\* Once no gap is left the receiver waits for the first round, for the second,
\* or not at all.
LEMMA StreamIsTaken ==
    ASSUME LongRounds, RecInv, stable, DeliverStable, Gapless(0),
           FirstRound \/ SecondRound \/ AboutToInsert, RecoveryTypes'
    PROVE  (FirstRound \/ SecondRound \/ AboutToInsert)'
<1> USE ConstantsAreNumbers
<1> DEFINE p == Head(channel)
           c == mNotInsertedCounter
<1>0. /\ channel # << >> /\ channel' = Tail(channel) /\ ProcessRTPPacket(p)
      /\ UNCHANGED <<seqnr, fragmentsToSend>> /\ RecoveryTypes
  BY DEF DeliverStable, RecInv
<1>1. /\ p = channel[1] /\ p \in StreamPacket
      /\ Len(channel) \in Nat \ {0} /\ Len(channel') = Len(channel) - 1
  BY <1>0, PacketIsTaken DEF RecoveryTypes
<1>2. /\ p.seq \in Nat /\ p.seq < SeqMod /\ p.marker \in BOOLEAN
      /\ stall \in Nat /\ c \in Nat /\ Round \in Nat /\ Round < SeqMod
      /\ MaxStall = MaxInFlight + Round + Round
  BY <1>0, <1>1 DEF StreamPacket, SeqNums, RecoveryTypes, Round, MaxStall, LongRounds
<1>3. Upcoming(1) = p.seq BY <1>1 DEF Upcoming
<1>4. Upcoming(1)' = (p.seq + 1) % SeqMod
  <2>1. 1 \in 1 .. Len(channel) /\ 1 \in 0 + 1 .. Len(channel) BY <1>1
  <2>2. Upcoming(1 + 1) = (channel[1].seq + 1) % SeqMod BY <2>1 DEF Gapless
  <2>3. Upcoming(1)' = Upcoming(1 + 1) BY <1>0, <2>1, PacketIsTaken
  <2> QED BY <1>1, <2>2, <2>3
<1>5. MarkedWithin(1, FrameFragments)'
  <2>1. 1 + 1 \in 0 + 1 .. Len(channel) + 1 /\ 1 \in 1 .. Len(channel) BY <1>1
  <2>2. MarkedWithin(1 + 1, FrameFragments) BY <2>1 DEF Gapless
  <2> QED BY <1>0, <2>1, <2>2, PacketIsTaken
<1>6. stall' = IF Inserts(p) THEN 0 ELSE stall + 1
  BY <1>2, StallIsBounded DEF DeliverStable, StallBounded
<1>11. ASSUME AboutToInsert PROVE Inserts(p)
  BY <1>2, <1>3, <1>11 DEF AboutToInsert, Inserts, Expected, Pushed
<1>7. ASSUME NEW e \in Int, MarkedWithin(1, e), ~p.marker
      PROVE  MarkedWithin(1, e - 1)'
  BY <1>0, <1>1, <1>7, PacketIsTaken
<1>12. ASSUME NEW e \in Int, FrameFragments <= e PROVE MarkedWithin(1, e)'
  BY <1>0, <1>1, <1>5, <1>12 DEF MarkedWithin, RecoveryTypes
<1>8. CASE Inserts(p) /\ c' = 0
  <2>1. stall' = 0 BY <1>6, <1>8
  <2>2. PICK e \in Int : e = MaxInFlight + Round - stall' BY <1>2, <2>1
  <2>3. MarkedWithin(1, e)' BY <1>2, <1>12, <2>1, <2>2 DEF Round
  <2> QED BY <1>2, <1>8, <2>1, <2>2, <2>3 DEF FirstRound, MarkedWithin
<1>9. CASE ~Inserts(p) /\ p.marker /\ c' = 0 /\ mNextSequenceNum' = p.seq + 1
  <2>0. stall' = stall + 1 BY <1>6, <1>9
  <2>1. CASE FirstRound
    <3>1. stall' <= MaxInFlight + Round
      <4>1. CASE c >= PacketBufferSize
        <5>1. MaxInFlight + Round - stall >= 1
          BY <1>0, <1>2, <2>1, <4>1, MarkedIsSome DEF FirstRound
        <5> QED BY <1>2, <2>0, <5>1
      <4>2. CASE c < PacketBufferSize
        BY <1>2, <2>0, <2>1, <4>2 DEF FirstRound, Round
      <4> QED BY <1>2, <4>1, <4>2
    <3>2. CASE p.seq + 1 < SeqMod
      <4>1. mNextSequenceNum' = Upcoming(1)' BY <1>2, <1>4, <1>9, <3>2
      <4> QED BY <1>2, <2>0, <3>1, <4>1 DEF AboutToInsert, MaxStall
    <3>3. CASE p.seq + 1 = SeqMod
      <4>1. mNextSequenceNum' = SeqMod /\ Upcoming(1)' = c' BY <1>2, <1>4, <1>9, <3>3
      <4> QED BY <1>2, <1>5, <1>9, <2>0, <3>1, <4>1 DEF SecondRound, MarkedWithin, Round
    <3> QED BY <1>2, <3>2, <3>3
  <2>2. CASE SecondRound
    <3>1. c + 1 <= Round
      <4>1. CASE c >= PacketBufferSize
        <5>1. Round - c >= 1 BY <1>0, <1>2, <2>2, <4>1, MarkedIsSome DEF SecondRound
        <5> QED BY <1>2, <5>1
      <4>2. CASE c < PacketBufferSize BY <1>2, <4>2 DEF Round
      <4> QED BY <1>2, <4>1, <4>2
    <3>2. p.seq = c /\ stall <= MaxInFlight + Round + c BY <1>3, <2>2 DEF SecondRound
    <3>3. mNextSequenceNum' = Upcoming(1)' BY <1>2, <1>4, <1>9, <3>1, <3>2
    <3> QED BY <1>2, <2>0, <3>1, <3>2, <3>3 DEF AboutToInsert, MaxStall
  <2>3. CASE AboutToInsert BY <1>9, <2>3, <1>11
  <2> QED BY <2>1, <2>2, <2>3
<1>10. CASE /\ ~Inserts(p)
            /\ c >= PacketBufferSize => ~p.marker
            /\ c' = c + 1 /\ mNextSequenceNum' = mNextSequenceNum
  <2>0. stall' = stall + 1 BY <1>6, <1>10
  <2>1. CASE FirstRound
    <3>1. CASE c >= PacketBufferSize
      <4>1. PICK e \in Int : e = MaxInFlight + Round - stall BY <1>2
      <4>2. MarkedWithin(1, e - 1)' BY <1>7, <1>10, <2>1, <3>1, <4>1 DEF FirstRound
      <4>3. MaxInFlight + Round - stall' = e - 1 BY <1>2, <2>0, <4>1
      <4> QED BY <1>2, <1>10, <2>0, <2>1, <4>2, <4>3 DEF FirstRound, MarkedWithin
    <3>2. CASE c < PacketBufferSize
      <4>1. PICK e \in Int : e = MaxInFlight + Round - stall' BY <1>2, <2>0
      <4>2. stall' <= MaxInFlight + c' BY <1>2, <1>10, <2>0, <2>1 DEF FirstRound
      <4>3. c' <= PacketBufferSize BY <1>2, <1>10, <3>2
      <4>4. FrameFragments <= e
        BY <1>2, <1>10, <2>0, <4>1, <4>2, <4>3 DEF Round
      <4>5. MarkedWithin(1, e)' BY <1>12, <4>4
      <4> QED BY <1>2, <4>1, <4>2, <4>5 DEF FirstRound, MarkedWithin
    <3> QED BY <1>2, <3>1, <3>2
  <2>2. CASE SecondRound
    <3>1. c + 1 <= Round
      <4>1. CASE c >= PacketBufferSize
        <5>1. Round - c >= 1 BY <1>0, <1>2, <2>2, <4>1, MarkedIsSome DEF SecondRound
        <5> QED BY <1>2, <5>1
      <4>2. CASE c < PacketBufferSize BY <1>2, <4>2 DEF Round
      <4> QED BY <1>2, <4>1, <4>2
    <3>2. p.seq = c /\ Upcoming(1)' = c + 1 BY <1>2, <1>3, <1>4, <2>2, <3>1 DEF SecondRound
    <3>3. CASE c >= PacketBufferSize
      <4>1. PICK e \in Int : e = Round - c BY <1>2
      <4>2. MarkedWithin(1, e - 1)' BY <1>7, <1>10, <2>2, <3>3, <4>1 DEF SecondRound
      <4>3. Round - c' = e - 1 BY <1>2, <1>10, <4>1
      <4> QED BY <1>2, <1>10, <2>0, <2>2, <3>2, <4>2, <4>3 DEF SecondRound, MarkedWithin
    <3>4. CASE c < PacketBufferSize
      BY <1>2, <1>5, <1>10, <2>0, <2>2, <3>2, <3>4 DEF SecondRound, MarkedWithin, Round
    <3> QED BY <1>2, <3>3, <3>4
  <2>3. CASE AboutToInsert BY <1>10, <2>3, <1>11
  <2> QED BY <2>1, <2>2, <2>3
<1> QED BY <1>0, <1>1, <1>8, <1>9, <1>10, PacketIsProcessed

\* Where the receiver is in its wait does not change while the sender sends.
LEMMA WaitGoesOn ==
    ASSUME RecoveryTypes, UNCHANGED <<receiver, stall>>,
           Upcoming(1)' = Upcoming(1),
           \A e \in Int : MarkedWithin(1, e) => MarkedWithin(1, e)'
    PROVE  /\ FirstRound => FirstRound'
           /\ SecondRound => SecondRound'
           /\ AboutToInsert => AboutToInsert'
<1> USE ConstantsAreNumbers
<1>0. /\ stall' = stall /\ mNotInsertedCounter' = mNotInsertedCounter
      /\ mNextSequenceNum' = mNextSequenceNum
      /\ stall \in Nat /\ mNotInsertedCounter \in Nat /\ Round \in Nat
  BY DEF RecoveryTypes, receiver, Round
<1>1. ASSUME FirstRound PROVE FirstRound'
  <2>1. PICK e \in Int : e = MaxInFlight + Round - stall BY <1>0
  <2>2. mNotInsertedCounter >= PacketBufferSize => MarkedWithin(1, e)'
    BY <1>1, <2>1 DEF FirstRound
  <2> QED BY <1>0, <1>1, <2>1, <2>2 DEF FirstRound, MarkedWithin
<1>2. ASSUME SecondRound PROVE SecondRound'
  <2>1. PICK e \in Int : e = Round - mNotInsertedCounter BY <1>0
  <2>2. mNotInsertedCounter >= PacketBufferSize => MarkedWithin(1, e)'
    BY <1>2, <2>1 DEF SecondRound
  <2> QED BY <1>0, <1>2, <2>1, <2>2 DEF SecondRound, MarkedWithin
<1>3. ASSUME AboutToInsert PROVE AboutToInsert'
  BY <1>0, <1>3 DEF AboutToInsert
<1> QED BY <1>1, <1>2, <1>3

LEMMA WithoutOne ==
    ASSUME NEW s \in Seq(StreamPacket), NEW i \in 1 .. Len(s)
    PROVE  Without(s, i) \in Seq(StreamPacket) /\ Len(Without(s, i)) = Len(s) - 1
<1> DEFINE before == SubSeq(s, 1, i - 1)
           after == SubSeq(s, i + 1, Len(s))
<1>1. before \in Seq(StreamPacket) /\ Len(before) = i - 1 BY SubSeqProperties
<1>2. after \in Seq(StreamPacket) /\ Len(after) = Len(s) - i BY SubSeqProperties
<1>3. /\ before \o after \in Seq(StreamPacket)
      /\ Len(before \o after) = Len(before) + Len(after)
  BY <1>1, <1>2, ConcatProperties
<1>4. (i - 1) + (Len(s) - i) = Len(s) - 1 OBVIOUS
<1>5. Without(s, i) = before \o after BY DEF Without
<1> HIDE DEF before, after
<1> QED BY <1>1, <1>2, <1>3, <1>4, <1>5

\* As long as no more has been thrown away than came from the bad network.
LEMMA FirstRoundBegins ==
    ASSUME RecoveryTypes', stall' <= MaxInFlight, MarkedWithin(1, FrameFragments)'
    PROVE  FirstRound'
<1> USE ConstantsAreNumbers
<1>1. /\ stall' \in Nat /\ mNotInsertedCounter' \in Nat
      /\ fragmentsToSend' \in Nat /\ Len(channel') \in Nat
  BY DEF RecoveryTypes
<1>2. PICK t \in Nat : t = stall' BY <1>1
<1>3. t <= MaxInFlight BY <1>2
<1>4. PICK e \in Int : e = MaxInFlight + Round - t OBVIOUS
<1>5. FrameFragments <= e
  <2>1. FrameFragments <= Round BY DEF Round
  <2> QED BY <1>3, <1>4, <2>1
<1>6. MarkedWithin(1, e)' BY <1>1, <1>5 DEF MarkedWithin
<1>7. t <= MaxInFlight + mNotInsertedCounter'
  <2>1. PICK c \in Nat : c = mNotInsertedCounter' BY <1>1
  <2>2. t <= MaxInFlight + c BY <1>3
  <2> QED BY <2>1, <2>2
<1> QED BY <1>2, <1>4, <1>6, <1>7 DEF FirstRound, MarkedWithin

LEMMA RecoveryGoesOn == LongRounds /\ RecInv /\ [RecoveryNext]_recovery => RecInv'
<1> SUFFICES ASSUME LongRounds, RecInv, [RecoveryNext]_recovery PROVE RecInv' OBVIOUS
<1> USE ConstantsAreNumbers
<1>0. RecoveryTypes /\ StableInv /\ Len(channel) \in Nat BY DEF RecInv, RecoveryTypes
<1>n. Round \in Nat /\ MaxInFlight \in Nat /\ FrameFragments \in Nat /\ Round >= FrameFragments
      /\ channel \in Seq(StreamPacket)
  BY DEF Round, RecInv, RecoveryTypes
<1>1. CASE SendNextFrame
  <2>1. RecoveryTypes' /\ UNCHANGED <<channel, seqnr, receiver, stable, stall>>
    BY <1>0, <1>1 DEF SendNextFrame, RecoveryTypes, receiver
  <2>2. StableInv'
    <3> SUFFICES ASSUME stable' PROVE StableInv' BY DEF StableInv
    <3>1. PICK m \in 0 .. Len(channel) :
            /\ Gapless(m)
            /\ m > 0 => stall <= MaxInFlight - m
            /\ m = 0 => FirstRound \/ SecondRound \/ AboutToInsert
      BY <1>0, <2>1 DEF StableInv
    <3>2. Gapless(m)'
      BY <1>0, <1>1, <2>1, <3>1, FrameBegins DEF Gapless, RecoveryTypes
    <3>3. /\ FirstRound => FirstRound'
          /\ SecondRound => SecondRound'
          /\ AboutToInsert => AboutToInsert'
      BY <1>0, <1>1, <2>1, FrameBegins, WaitGoesOn
    <3> QED BY <2>1, <3>1, <3>2, <3>3 DEF StableInv
  <2> QED BY <2>1, <2>2 DEF RecInv
<1>2. CASE SendNextFragment
  <2>1. RecoveryTypes' /\ UNCHANGED <<receiver, stable, stall>>
        /\ Len(channel') = Len(channel) + 1
    BY <1>0, <1>2, FragmentIsSent DEF SendNextFragment
  <2>2. StableInv'
    <3> SUFFICES ASSUME stable' PROVE StableInv' BY DEF StableInv
    <3>1. PICK m \in 0 .. Len(channel) :
            /\ Gapless(m)
            /\ m > 0 => stall <= MaxInFlight - m
            /\ m = 0 => FirstRound \/ SecondRound \/ AboutToInsert
      BY <1>0, <2>1 DEF StableInv
    <3>2. Gapless(m)'
      <4>1. ASSUME NEW i \in m + 1 .. Len(channel')
            PROVE  Upcoming(i + 1)' = (channel'[i].seq + 1) % SeqMod
        <5>1. CASE i <= Len(channel)
          <6>1. Upcoming(i + 1) = (channel[i].seq + 1) % SeqMod
            BY <1>0, <3>1, <5>1 DEF Gapless
          <6>2. channel'[i] = channel[i] /\ Upcoming(i + 1)' = Upcoming(i + 1)
            BY <1>0, <1>2, <5>1, FragmentIsSent
          <6> QED BY <6>1, <6>2
        <5>2. CASE i = Len(channel) + 1
          <6>1. channel'[i].seq = seqnr /\ seqnr' = (seqnr + 1) % SeqMod
            BY <1>0, <1>2, <5>2, FragmentIsSent
          <6>2. Upcoming(i + 1)' = seqnr' BY <1>0, <2>1, <5>2 DEF Upcoming
          <6> QED BY <6>1, <6>2
        <5> QED BY <1>0, <2>1, <5>1, <5>2
      <4>2. ASSUME NEW i \in m + 1 .. Len(channel') + 1
            PROVE  MarkedWithin(i, FrameFragments)'
        <5>1. CASE i <= Len(channel) + 1
          <6>1. MarkedWithin(i, FrameFragments) BY <1>0, <3>1, <5>1 DEF Gapless
          <6> QED BY <1>0, <1>2, <5>1, <6>1, FragmentIsSent
        <5>2. CASE i = Len(channel) + 2 BY <1>0, <1>2, <5>2, FragmentIsSent
        <5> QED BY <1>0, <2>1, <5>1, <5>2
      <4> QED BY <4>1, <4>2 DEF Gapless
    <3>3. /\ FirstRound => FirstRound'
          /\ SecondRound => SecondRound'
          /\ AboutToInsert => AboutToInsert'
      BY <1>0, <1>2, <2>1, FragmentIsSent, WaitGoesOn
    <3> QED BY <1>0, <2>1, <3>1, <3>2, <3>3 DEF StableInv
  <2> QED BY <2>1, <2>2 DEF RecInv
<1>3. ASSUME NEW i \in 1 .. Len(channel)
      PROVE  Without(channel, i) \in Seq(StreamPacket)
             /\ Len(Without(channel, i)) = Len(channel) - 1
  BY <1>0, WithoutOne DEF RecoveryTypes
<1>4. ASSUME NEW i \in 1 .. Len(channel), LosePacket(i) PROVE RecInv'
  <2>1. ~stable' BY <1>4 DEF LosePacket
  <2>2. RecoveryTypes' BY <1>0, <1>3, <1>4 DEF LosePacket, RecoveryTypes, receiver
  <2> QED BY <2>1, <2>2 DEF RecInv, StableInv
<1>5. ASSUME NEW i \in 1 .. Len(channel), DeliverUnstable(i) PROVE RecInv'
  <2>1. ~stable' BY <1>5 DEF DeliverUnstable
  <2>2. channel[i] \in StreamPacket BY <1>0 DEF RecoveryTypes
  <2>3. channel' \in Seq(StreamPacket) /\ Len(channel') <= MaxInFlight
    BY <1>0, <1>3, <1>5 DEF DeliverUnstable, RecoveryTypes
  <2>4. RecoveryTypes'
    BY <1>0, <1>5, <2>2, <2>3, PacketIsProcessed DEF DeliverUnstable, RecoveryTypes
  <2> QED BY <2>1, <2>4 DEF RecInv, StableInv
<1>6. CASE Stabilise
  <2>1. /\ RecoveryTypes' /\ stall' = 0
        /\ UNCHANGED <<receiver, seqnr, fragmentsToSend, channel>>
    BY <1>0, <1>6 DEF Stabilise, RecoveryTypes, receiver
  <2>2. ASSUME NEW e \in Int, FrameFragments <= e
        PROVE  MarkedWithin(Len(channel) + 1, e)'
    BY <1>0, <2>1, <2>2 DEF MarkedWithin, RecoveryTypes
  <2>3. Gapless(Len(channel))'
    BY <1>0, <2>1, <2>2 DEF Gapless
  <2>4. Len(channel) = 0 => FirstRound'
    <3> SUFFICES ASSUME Len(channel) = 0 PROVE FirstRound' OBVIOUS
    <3>1. MarkedWithin(Len(channel) + 1, FrameFragments)' BY <2>2
    <3>2. MarkedWithin(1, FrameFragments)' BY <2>1, <3>1
    <3> QED BY <2>1, <3>2, FirstRoundBegins
  <2>5. StableInv' BY <1>0, <2>1, <2>3, <2>4 DEF StableInv, RecoveryTypes
  <2> QED BY <2>1, <2>5 DEF RecInv
<1>7. CASE DeliverStable
  <2>0. /\ channel # << >> /\ channel' = Tail(channel) /\ stable /\ stable'
        /\ ProcessRTPPacket(Head(channel)) /\ UNCHANGED <<seqnr, fragmentsToSend>>
    BY <1>0, <1>7 DEF DeliverStable
  <2>1. /\ stall <= MaxStall /\ stall \in Nat /\ stall' \in Nat /\ stall' <= stall + 1
    <3>1. stall <= MaxStall BY StallIsBounded DEF StallBounded
    <3>2. stall \in Nat /\ MaxStall \in Nat BY <1>0 DEF RecoveryTypes, MaxStall
    <3> QED BY <1>7, <3>1, <3>2 DEF DeliverStable
  <2>2. Head(channel) \in StreamPacket /\ Len(channel) > 0
        /\ channel' \in Seq(StreamPacket) /\ Len(channel') = Len(channel) - 1
    BY <1>0, <2>0, PacketIsTaken DEF RecoveryTypes
  <2>3. RecoveryTypes'
    BY <1>0, <2>0, <2>1, <2>2, PacketIsProcessed DEF RecoveryTypes
  <2>4. PICK m \in 0 .. Len(channel) :
          /\ Gapless(m)
          /\ m > 0 => stall <= MaxInFlight - m
          /\ m = 0 => FirstRound \/ SecondRound \/ AboutToInsert
    BY <1>0, <2>0 DEF StableInv
  <2>5. CASE m = 0
    <3>1. Gapless(0)' BY <1>0, <2>0, <2>2, <2>4, <2>5, GaplessMovesUp
    <3>2. (FirstRound \/ SecondRound \/ AboutToInsert)'
      BY <1>7, <2>0, <2>3, <2>4, <2>5, StreamIsTaken
    <3> QED BY <1>0, <2>2, <2>3, <3>1, <3>2 DEF RecInv, StableInv
  <2>6. CASE m > 0
    <3>1. Gapless(m - 1)'
      <4>1. PICK n \in 0 .. Len(channel) - 1 : n = m - 1 BY <1>0, <2>6
      <4>2. n = IF m = 0 THEN 0 ELSE m - 1 BY <2>6, <4>1
      <4>3. Gapless(n)' BY <1>0, <2>0, <2>4, <4>1, <4>2, GaplessMovesUp
      <4> QED BY <4>1, <4>3
    <3>2. stall' <= MaxInFlight - (m - 1) BY <1>0, <2>1, <2>4, <2>6
    <3>3. m - 1 = 0 => FirstRound'
      <4> SUFFICES ASSUME m = 1 PROVE FirstRound' OBVIOUS
      <4>1. MarkedWithin(1, FrameFragments)'
        <5>1. Gapless(0)' BY <3>1
        <5> QED BY <1>0, <2>2, <5>1 DEF Gapless
      <4>2. stall' <= MaxInFlight BY <2>1, <3>2
      <4> QED BY <2>3, <4>1, <4>2, FirstRoundBegins
    <3>4. m - 1 \in 0 .. Len(channel') BY <1>0, <2>2, <2>6
    <3> QED BY <2>3, <3>1, <3>2, <3>3, <3>4 DEF RecInv, StableInv
  <2> QED BY <1>0, <2>5, <2>6
<1>8. CASE UNCHANGED recovery
  <2>1. UNCHANGED <<receiver, seqnr, fragmentsToSend, channel, stable, stall>>
    BY <1>8 DEF recovery
  <2>2. RecoveryTypes' BY <1>0, <2>1 DEF RecoveryTypes, receiver
  <2>3. StableInv'
    BY <1>0, <2>1 DEF StableInv, Gapless, Upcoming, MarkedWithin, FirstRound,
       SecondRound, AboutToInsert, receiver
  <2> QED BY <2>2, <2>3 DEF RecInv
<1> QED
  BY <1>1, <1>2, <1>4, <1>5, <1>6, <1>7, <1>8 DEF RecoveryNext

\* On a network that is stable the receiver throws away no more than MaxStall
\* packets in a row, whatever state the bad network has left it in and wherever
\* in a round of numbers that was.
THEOREM StallsEnd == ASSUME LongRounds PROVE RecoverySpec => []RtpRecoveryInv
<1>1. RecInv => RtpRecoveryInv
  <2>1. RecInv => RecoveryTypeOK BY DEF RecInv, RecoveryTypes, RecoveryTypeOK
  <2> QED BY <2>1, StallIsBounded DEF RtpRecoveryInv
<1>2. RecInv /\ [RecoveryNext]_recovery => RecInv' BY RecoveryGoesOn
<1> QED BY <1>1, <1>2, RecoveryStarts, PTL DEF RecoverySpec
=============================================================================
