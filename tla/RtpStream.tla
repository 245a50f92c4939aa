----------------------------- MODULE RtpStream -----------------------------
(***************************************************************************)
(* One RTP stream, audio or video: SendMultiPacket of RTPSessionEx at one  *)
(* end, a UDP network between, the Depacketizer at the other end.          *)
(*                                                                         *)
(* The payload of a packet is its position in the stream, 0, 1, 2, ...:    *)
(* where a frame handed to the callback comes from can be read off it.     *)
(*                                                                         *)
(* The RTP library hands the packets of one poll over in the order of      *)
(* their numbers and withholds those of a source it has not validated yet; *)
(* an RTCP packet of the peer validates it at any time.  Every order of    *)
(* arrival is thus an order of ProcessRTPPacket calls that can occur.      *)
(***************************************************************************)
EXTENDS Depacketizer

CONSTANTS
    InitialSeq,     \* the library draws the first number at random
    MaxFragments,   \* bound: packets per frame
    MaxPackets,     \* bound: packets sent in all
    MaxLifetime,    \* bound: packets sent while one is in the network
    MaxLosses,      \* bound: packets lost in all
    MaxInVain       \* bound: packets processed in a row without inserting one

ASSUME StreamAssumption ==
    /\ InitialSeq \in SeqNums
    /\ MaxFragments \in Nat /\ MaxPackets \in Nat /\ MaxLifetime \in Nat
    /\ MaxLosses \in Nat /\ MaxInVain \in Nat

VARIABLES
    sent,           \* the marker flag of every packet sent, in order
    fragmentsLeft,  \* packets of the frame being sent still to send
    inFlight,       \* positions of the packets in the network
    losses,         \* packets the network has lost
    tame,           \* history: the network has been nearly in order so far
    first,          \* history: position of the first packet processed, or -1
    newest,         \* history: highest position in a frame delivered, or -1
    rewound         \* history: a skip has gone back behind an inserted packet

sender == <<sent, fragmentsLeft>>
history == <<first, newest, rewound>>
network == <<inFlight, losses, tame>>
vars == <<receiver, sender, network, history>>

Positions == 0 .. Len(sent) - 1
Marker(pos) == sent[pos + 1]
SeqOf(pos) == (InitialSeq + pos) % SeqMod

Packet(pos) == [seq |-> SeqOf(pos), marker |-> Marker(pos), payload |-> pos]

Init ==
    /\ ReceiverInit
    /\ sent = << >>
    /\ fragmentsLeft = 0
    /\ inFlight = {}
    /\ losses = 0
    /\ tame = TRUE
    /\ first = -1
    /\ newest = -1
    /\ rewound = FALSE

-----------------------------------------------------------------------------
\* SendMultiPacket is called with an encoded frame that takes n packets.
SendFrame(n) ==
    /\ fragmentsLeft = 0
    /\ fragmentsLeft' = n
    /\ UNCHANGED <<receiver, sent, network, history>>

\* One SendPacketEx: the library numbers the packet and gives it to sendto;
\* only the last packet of the frame is marked.
SendFragment ==
    /\ fragmentsLeft > 0
    /\ Len(sent) < MaxPackets
    /\ \A pos \in inFlight : Len(sent) - pos < MaxLifetime
    /\ sent' = Append(sent, fragmentsLeft = 1)
    /\ fragmentsLeft' = fragmentsLeft - 1
    /\ inFlight' = inFlight \cup {Len(sent)}
    /\ UNCHANGED <<receiver, losses, tame, history>>

\* The network loses a packet.
Lose(pos) ==
    /\ losses < MaxLosses
    /\ losses' = losses + 1
    /\ inFlight' = inFlight \ {pos}
    /\ tame' = FALSE
    /\ UNCHANGED <<receiver, sender, history>>

Ends(frames) == {frame[Len(frame)] : frame \in frames}

\* The poll thread processes a packet the network has brought.
Receive(pos) ==
    /\ mNotInsertedCounter < MaxInVain
    /\ ProcessRTPPacket(Packet(pos))
    /\ first' = IF first = -1 THEN pos ELSE first
    /\ newest' \in {newest} \cup Ends(delivered')
    /\ \A end \in {newest} \cup Ends(delivered') : end <= newest'
    /\ rewound' = (rewound \/ mNextSequenceNum' <= mLastInsertedSequenceNum')
    /\ UNCHANGED sender

\* A network without loss and duplication that lets a packet be overtaken
\* only by the PacketSequenceDiff - 2 packets that follow it, and the first
\* one by none, could bring the packet at pos now.
NearlyInOrder(pos) ==
    /\ \A other \in inFlight : pos - other <= PacketSequenceDiff - 2
    /\ first = -1 => pos = 0

\* The network may bring a packet once more.
Deliver(pos) ==
    /\ Receive(pos)
    /\ inFlight' \in {inFlight, inFlight \ {pos}}
    /\ tame' = (tame /\ NearlyInOrder(pos) /\ pos \notin inFlight')
    /\ UNCHANGED losses

Next ==
    \/ \E n \in 1 .. MaxFragments : SendFrame(n)
    \/ SendFragment
    \/ \E pos \in inFlight : Lose(pos) \/ Deliver(pos)

Spec == Init /\ [][Next]_vars

-----------------------------------------------------------------------------
TypeOK ==
    /\ sent \in Seq(BOOLEAN)
    /\ fragmentsLeft \in 0 .. MaxFragments
    /\ inFlight \subseteq Positions
    /\ losses \in 0 .. MaxLosses
    /\ tame \in BOOLEAN
    /\ mNextSequenceNum \in -1 .. SeqMod
    /\ DOMAIN mPackets \subseteq SeqNums
    /\ \A q \in DOMAIN mPackets :
          \E pos \in Positions : mPackets[q] = Packet(pos) /\ q = SeqOf(pos)
    /\ mNotInsertedCounter \in Nat
    /\ mLastInsertedSequenceNum \in SeqNums
    /\ mCurrentFrame \in Seq(Positions)
    /\ \A frame \in delivered : frame \in Seq(Positions) /\ frame # << >>
    /\ first \in Positions \cup {-1}
    /\ newest \in Positions \cup {-1}
    /\ rewound \in BOOLEAN

\* frame consists of packets that follow each other in the stream and ends
\* with the first marked one of them.
EndsAtMarker(frame) ==
    /\ \A i \in 1 .. Len(frame) : frame[i] = frame[1] + i - 1
    /\ \A i \in 1 .. Len(frame) : Marker(frame[i]) <=> i = Len(frame)

\* pos is the first packet of a frame.
StartsFrame(pos) == pos = 0 \/ Marker(pos - 1)

\* RtpSessionEx.h:81, "We skip displaying any frame that has one or more
\* packets missing": whatever the network loses, duplicates and reorders, a
\* frame handed to the decoder is a frame as SendMultiPacket was given it, no
\* packet missing, doubled or out of place.  The frame the receiver joined the
\* stream in may lack its beginning: see NoPartialFrame.
WholeFrames ==
    \A frame \in delivered :
        EndsAtMarker(frame) /\ (StartsFrame(frame[1]) \/ frame[1] = first)

\* Does not hold of the frame the receiver joined the stream in.
\* RtpSessionEx.h:81: "We skip displaying any frame that has one or more
\* packets missing".
NoPartialFrame ==
    \A frame \in delivered : EndsAtMarker(frame) /\ StartsFrame(frame[1])

\* A frame is delivered once and after those sent before it, unless the
\* counter of uninserted packets overflowed on a late packet and took the
\* receiver back behind what it had already delivered.
InOrder ==
    [][receiver' # receiver /\ ~rewound' =>
          \A frame \in delivered' : frame[1] > newest]_vars

\* As long as the network loses and repeats nothing and delays a packet by a
\* few others at most, the receiver gives nothing up: every packet before the
\* one it waits for has been processed, and that one has not; so no packet is
\* kept that could be delivered.
NothingSkipped ==
    tame /\ first # -1 =>
        \A pos \in Positions :
            /\ SeqOf(pos) < mNextSequenceNum => pos \notin inFlight
            /\ SeqOf(pos) = mNextSequenceNum => pos \in inFlight

\* Does not hold: the packet that has just come is compared, not the oldest
\* one kept.  RtpSessionEx.h:18: packets are given up on when the "minimal seq. number
\* from packet list" is PACKET_SEQUENCE_DIFF away from the last inserted one
\* (or when too many packets have come in vain).
SkipsByOldestKept ==
    [][\A pos \in inFlight :
          SkipFrame(Packet(pos)) =>
              \/ mNotInsertedCounter >= PacketBufferSize
              \/ \A q \in DOMAIN mPackets :
                    q - mLastInsertedSequenceNum >= PacketSequenceDiff]_vars

\* The receiver, the network and the stream fit together, and a tame network
\* makes the receiver skip nothing.
RtpStreamInv == TypeOK /\ NothingSkipped
=============================================================================
