---------------------------- MODULE RtpRecovery ----------------------------
(***************************************************************************)
(* A call that goes on: the numbers of the RTP stream wrap around again    *)
(* and again, and the network is bad (it loses, duplicates and reorders    *)
(* packets) until it becomes stable and delivers everything in order.      *)
(* The question is whether the Depacketizer finds back into the stream.    *)
(*                                                                         *)
(* The stream has no end, so that a packet's payload cannot be its         *)
(* position (as in RtpStream); every payload is the same here.             *)
(***************************************************************************)
EXTENDS Depacketizer

CONSTANTS
    FrameFragments,   \* bound: packets per frame
    MaxInFlight,    \* bound: packets in the network at a time
    MaxBadInVain       \* bound: packets the bad network delivers in a row
                    \* without the receiver inserting one

ASSUME RecoveryAssumption ==
    FrameFragments \in Nat /\ MaxInFlight \in Nat /\ MaxBadInVain \in Nat

VARIABLES
    seqnr,          \* the number of the next packet sent
    fragmentsToSend,  \* packets of the frame being sent still to send
    channel,        \* the packets in the network, oldest first
    stable,         \* the network has become reliable
    stall           \* history: packets processed in a row on the stable
                    \* network without one being inserted

recovery == <<receiver, seqnr, fragmentsToSend, channel, stable, stall>>

RecoveryInit ==
    /\ ReceiverInit
    /\ seqnr \in SeqNums
    /\ fragmentsToSend = 0
    /\ channel = << >>
    /\ stable = FALSE
    /\ stall = 0

SendNextFrame ==
    /\ fragmentsToSend = 0
    /\ fragmentsToSend' \in 1 .. FrameFragments
    /\ UNCHANGED <<receiver, seqnr, channel, stable, stall>>

\* One SendPacketEx; the library's number is a 16-bit integer and wraps.
SendNextFragment ==
    /\ fragmentsToSend > 0
    /\ Len(channel) < MaxInFlight
    /\ channel' = Append(channel, [seq |-> seqnr, payload |-> 0,
                                   marker |-> fragmentsToSend = 1])
    /\ seqnr' = (seqnr + 1) % SeqMod
    /\ fragmentsToSend' = fragmentsToSend - 1
    /\ UNCHANGED <<receiver, stable, stall>>

Without(s, i) == SubSeq(s, 1, i - 1) \o SubSeq(s, i + 1, Len(s))

LosePacket(i) ==
    /\ ~stable
    /\ channel' = Without(channel, i)
    /\ UNCHANGED <<receiver, seqnr, fragmentsToSend, stable, stall>>

\* The bad network delivers any packet, and may keep it to deliver it again.
DeliverUnstable(i) ==
    /\ ~stable
    /\ mNotInsertedCounter < MaxBadInVain
    /\ ProcessRTPPacket(channel[i])
    /\ channel' \in {channel, Without(channel, i)}
    /\ UNCHANGED <<seqnr, fragmentsToSend, stable, stall>>

Stabilise ==
    /\ ~stable
    /\ stable' = TRUE
    /\ UNCHANGED <<receiver, seqnr, fragmentsToSend, channel, stall>>

\* On the stable network the receiver never throws away more than this many
\* packets in a row: it gives up after PacketBufferSize of them at the next
\* marker, twice if the marked packet it gives up at has the highest number
\* (the number after it never comes), and the first packets it gets may be
\* leftovers of the bad network.
MaxStall == 2 * (PacketBufferSize + FrameFragments) + MaxInFlight

\* The history variable stops counting once it has exceeded MaxStall.
DeliverStable ==
    /\ stable
    /\ channel # << >>
    /\ ProcessRTPPacket(Head(channel))
    /\ stall' = IF Inserts(Head(channel)) THEN 0
              ELSE IF stall > MaxStall THEN stall ELSE stall + 1
    /\ channel' = Tail(channel)
    /\ UNCHANGED <<seqnr, fragmentsToSend, stable>>

RecoveryNext ==
    \/ SendNextFrame
    \/ SendNextFragment
    \/ \E i \in 1 .. Len(channel) : LosePacket(i) \/ DeliverUnstable(i)
    \/ Stabilise
    \/ DeliverStable

\* The camera goes on producing frames and the send queue sends them
\* (SendNextFrame, SendNextFragment); the poll thread goes on polling
\* (DeliverStable).
\* Nothing is fair about the bad network.
RecoveryFairness ==
    /\ WF_recovery(SendNextFrame) /\ WF_recovery(SendNextFragment)
    /\ WF_recovery(DeliverStable)

RecoverySpec == RecoveryInit /\ [][RecoveryNext]_recovery /\ RecoveryFairness

-----------------------------------------------------------------------------
RecoveryTypeOK ==
    /\ seqnr \in SeqNums
    /\ fragmentsToSend \in 0 .. FrameFragments
    /\ Len(channel) <= MaxInFlight
    /\ mNextSequenceNum \in -1 .. SeqMod
    /\ DOMAIN mPackets \subseteq SeqNums
    /\ mLastInsertedSequenceNum \in SeqNums
    /\ stable \in BOOLEAN

\* Whatever the bad network has done to the receiver, and although the number
\* it waits for never wraps, frames are delivered again and again once the
\* network is stable.
Recovers == <>[]stable => []<>(delivered # {})

\* Once the network is stable, no more than MaxStall packets in a row are
\* processed without one being put into a frame.
StallBounded == stall <= MaxStall

\* The receiver's state is what its types say, and it is stuck for no longer
\* than that.
RtpRecoveryInv == RecoveryTypeOK /\ StallBounded
=============================================================================
