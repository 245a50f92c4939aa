---------------------------- MODULE Depacketizer ----------------------------
(***************************************************************************)
(* The receiving half of RTPSessionEx (AV Capture/RtpSessionEx.cpp): the   *)
(* packets the poll thread takes from the RTP library are put back into    *)
(* sequence and joined into frames, and a frame is handed to the           *)
(* depacketizer callback when the packet carrying the marker is appended.  *)
(*                                                                         *)
(* A packet is a record [seq, marker, payload]; seq is what                *)
(* GetSequenceNumber returns (16 bits: SeqMod = 2^16), payload stands for  *)
(* the bytes.  mNextSequenceNum is an int: nothing in the code reduces it  *)
(* modulo 2^16.                                                            *)
(*                                                                         *)
(* The 20 frame buffers the code rotates through hold one frame at a time  *)
(* and both callbacks copy or decode it before they return, so that one    *)
(* sequence of payloads, mCurrentFrame, stands for them and for            *)
(* mByteInFrameSoFar.                                                      *)
(***************************************************************************)
EXTENDS Integers, Sequences, FiniteSets

CONSTANTS
    SeqMod,              \* sequence numbers are 0 .. SeqMod - 1
    PacketBufferSize,    \* PACKET_BUFFER_SIZE (25)
    PacketSequenceDiff   \* PACKET_SEQUENCE_DIFF (5)

ASSUME SeqModAssumption == SeqMod \in Nat \ {0}
ASSUME ThresholdAssumption ==
    PacketBufferSize \in Nat /\ PacketSequenceDiff \in Nat

VARIABLES
    mNextSequenceNum,          \* the number waited for; -1 before any packet
    mPackets,                  \* packets kept for later: number -> packet
    mNotInsertedCounter,       \* packets in a row that completed nothing
    mLastInsertedSequenceNum,  \* number of the last packet put into a frame
    mCurrentFrame,             \* the payloads of the frame being assembled
    delivered                  \* the frames the last packet completed

receiver == <<mNextSequenceNum, mPackets, mNotInsertedCounter,
              mLastInsertedSequenceNum, mCurrentFrame, delivered>>

SeqNums == 0 .. SeqMod - 1

ReceiverInit ==
    /\ mNextSequenceNum = -1
    /\ mPackets = << >>
    /\ mNotInsertedCounter = 0
    /\ mLastInsertedSequenceNum = 0
    /\ mCurrentFrame = << >>
    /\ delivered = {}

-----------------------------------------------------------------------------
\* mPackets after push_back.  The loop and the cleanup find the older of two
\* packets with one number first and remove the younger one with it: only the
\* older one matters.
Pushed(rtppack) ==
    [q \in DOMAIN mPackets \cup {rtppack.seq} |->
        IF q \in DOMAIN mPackets THEN mPackets[q] ELSE rtppack]

\* Mutant of Expected: a packet older than the one waited for restarts the
\* stream at its number.
ExpectedResync(rtppack) ==
    IF mNextSequenceNum = -1 \/ rtppack.seq < mNextSequenceNum
    THEN rtppack.seq
    ELSE mNextSequenceNum

\* The number the code waits for while it handles rtppack.
Expected(rtppack) ==
    IF mNextSequenceNum = -1 THEN rtppack.seq ELSE mNextSequenceNum

\* The packet waited for has come.
Inserts(rtppack) == Expected(rtppack) \in DOMAIN Pushed(rtppack)

\* The cleanup: packets below the number waited for are deleted.
Cleanup(packets, next) == [q \in {r \in DOMAIN packets : r >= next} |-> packets[q]]

\* Payloads of the packets numbered from .. to - 1.
Payloads(packets, from, to) ==
    [i \in 1 .. to - from |-> packets[from + i - 1].payload]

\* The marked numbers of from .. to - 1: each of them ends a frame.
Markers(packets, from, to) == {q \in from .. to - 1 : packets[q].marker}

\* What InsertPacketIntoFrame has appended since the last marker, once the
\* packets from .. to - 1 are inserted.
Assembled(packets, from, to) ==
    IF Markers(packets, from, to) = {}
    THEN mCurrentFrame \o Payloads(packets, from, to)
    ELSE LET last == CHOOSE m \in Markers(packets, from, to) :
                        \A k \in Markers(packets, from, to) : k <= m
         IN Payloads(packets, last + 1, to)

\* The loop of step 2, which inserts every packet it can: from the number
\* waited for up to the first one that is not there.  upto is that number.
InsertPackets(rtppack, upto) ==
    LET packets == Pushed(rtppack)
        next == Expected(rtppack)
    IN /\ next < upto
       /\ \A q \in next .. upto - 1 : q \in DOMAIN packets
       /\ upto \notin DOMAIN packets
       /\ delivered' = {Assembled(packets, next, m) \o <<packets[m].payload>> :
                           m \in Markers(packets, next, upto)}
       /\ mCurrentFrame' = Assembled(packets, next, upto)
       /\ mLastInsertedSequenceNum' = upto - 1
       /\ mNextSequenceNum' = upto
       /\ mNotInsertedCounter' = 0
       /\ mPackets' = Cleanup(packets, upto)

\* Mutant of GiveUp: one packet too early by the distance.
GiveUpEarly(rtppack) ==
    \/ mNotInsertedCounter + 1 > PacketBufferSize
    \/ rtppack.seq - mLastInsertedSequenceNum >= PacketSequenceDiff - 1

\* Mutant of GiveUp: the threshold of the counter is doubled.
GiveUpLate(rtppack) ==
    \/ mNotInsertedCounter + 1 > 2 * PacketBufferSize
    \/ rtppack.seq - mLastInsertedSequenceNum >= PacketSequenceDiff

\* Too many packets, or a too distant one, have come without the one waited for.
GiveUp(rtppack) ==
    \/ mNotInsertedCounter + 1 > PacketBufferSize
    \/ rtppack.seq - mLastInsertedSequenceNum >= PacketSequenceDiff

\* Mutant of SkipFrame: mByteInFrameSoFar is not reset, the beginning of the
\* abandoned frame stays.
SkipFrameKeepsBytes(rtppack) ==
    /\ ~Inserts(rtppack)
    /\ GiveUp(rtppack)
    /\ rtppack.marker
    /\ mNotInsertedCounter' = 0
    /\ mNextSequenceNum' = rtppack.seq + 1
    /\ mPackets' = Cleanup(Pushed(rtppack), rtppack.seq + 1)
    /\ delivered' = {}
    /\ UNCHANGED <<mCurrentFrame, mLastInsertedSequenceNum>>

\* Mutant of SkipFrame: it resumes behind the packet inserted last, not behind
\* the marked one.
SkipFrameStays(rtppack) ==
    /\ ~Inserts(rtppack)
    /\ GiveUp(rtppack)
    /\ rtppack.marker
    /\ mNotInsertedCounter' = 0
    /\ mCurrentFrame' = << >>
    /\ mNextSequenceNum' = mLastInsertedSequenceNum + 1
    /\ mPackets' = Cleanup(Pushed(rtppack), mLastInsertedSequenceNum + 1)
    /\ delivered' = {}
    /\ UNCHANGED mLastInsertedSequenceNum

\* Step 3, rtppack completed nothing: skipping to the packet after a marked one.
SkipFrame(rtppack) ==
    /\ ~Inserts(rtppack)
    /\ GiveUp(rtppack)
    /\ rtppack.marker
    /\ mNotInsertedCounter' = 0
    /\ mCurrentFrame' = << >>
    /\ mNextSequenceNum' = rtppack.seq + 1
    /\ mPackets' = Cleanup(Pushed(rtppack), rtppack.seq + 1)
    /\ delivered' = {}
    /\ UNCHANGED mLastInsertedSequenceNum

\* Step 3, going on waiting.
KeepPacket(rtppack) ==
    /\ ~Inserts(rtppack)
    /\ ~(GiveUp(rtppack) /\ rtppack.marker)
    /\ mNotInsertedCounter' = mNotInsertedCounter + 1
    /\ mPackets' = Cleanup(Pushed(rtppack), mNextSequenceNum)
    /\ delivered' = {}
    /\ UNCHANGED <<mNextSequenceNum, mLastInsertedSequenceNum, mCurrentFrame>>

\* RTPSessionEx::ProcessRTPPacket
ProcessRTPPacket(rtppack) ==
    \/ \E upto \in 0 .. SeqMod : InsertPackets(rtppack, upto)
    \/ SkipFrame(rtppack)
    \/ KeepPacket(rtppack)
=============================================================================
