---------------------------- MODULE VideoCapture ----------------------------
(***************************************************************************)
(* The way of the camera's frames to the network in VideoInputOutput: the  *)
(* serial capture queue crops and encodes a frame, waits until the serial  *)
(* send queue has run empty and puts a block there that sends the frame.   *)
(*                                                                         *)
(* A frame is its number, 1, 2, 3, ...  The block gets a pointer to the    *)
(* data of the encoded frame, which lies in a buffer of the encoder's that *)
(* the next call of vpx_codec_encode writes to: outputBuffer.  A frame     *)
(* that takes n packets is sent packet by packet, with a sleep after each, *)
(* up to the first that cannot be sent.                                    *)
(***************************************************************************)
EXTENDS Naturals, Sequences

CONSTANTS
    MaxPackets,   \* bound: packets per frame
    MaxFrames     \* bound: frames the camera hands over

ASSUME VideoSizesAssumption == MaxPackets \in Nat \ {0} /\ MaxFrames \in Nat

VARIABLES
    frames,        \* frames the camera has handed over
    encoded,       \* the frame the capture queue is to dispatch, its packets
    outputBuffer,  \* the frame whose data the encoder's buffer holds
    frameQueue,    \* the frames to send, the packets of them still to send
    wire,          \* calls of SendPacketEx: the frame they are for, and that
                   \* of the data sent, 0 when nothing could be sent
    packetsSent    \* counts the blocks that have ended

videovars == <<frames, encoded, outputBuffer, frameQueue, wire, packetsSent>>

NoFrame == [frame |-> 0, packets |-> 0]

VideoInit ==
    /\ frames = 0
    /\ encoded = NoFrame
    /\ outputBuffer = 0
    /\ frameQueue = << >>
    /\ wire = << >>
    /\ packetsSent = 0

-----------------------------------------------------------------------------
\* captureOutput, didCaptureFrame, didProcessFrame up to encodeYUV: the camera
\* hands a frame over when the capture queue is free and discards it otherwise.
EncodeFrame(n) ==
    /\ encoded = NoFrame
    /\ frames < MaxFrames
    /\ frames' = frames + 1
    /\ outputBuffer' = frames'
    /\ encoded' = [frame |-> frames', packets |-> n]
    /\ UNCHANGED <<frameQueue, wire, packetsSent>>

\* vpx_codec_encode fails: there is no buffer and the frame is left out.
EncodeFails ==
    /\ encoded = NoFrame
    /\ frames < MaxFrames
    /\ frames' = frames + 1
    /\ UNCHANGED <<encoded, outputBuffer, frameQueue, wire, packetsSent>>

\* Mutant of DispatchFrame: it does not wait for the send queue.
DispatchFrameAtOnce ==
    /\ encoded # NoFrame
    /\ frameQueue' = Append(frameQueue, encoded)
    /\ encoded' = NoFrame
    /\ UNCHANGED <<frames, outputBuffer, wire, packetsSent>>

\* The rest of didProcessFrame.  dispatch_sync returns when the send queue has
\* run empty, and nobody else puts anything there.
DispatchFrame ==
    /\ encoded # NoFrame
    /\ frameQueue = << >>
    /\ frameQueue' = Append(frameQueue, encoded)
    /\ encoded' = NoFrame
    /\ UNCHANGED <<frames, outputBuffer, wire, packetsSent>>

Packet == [frame |-> Head(frameQueue).frame, data |-> outputBuffer]
NotSent == [frame |-> Head(frameQueue).frame, data |-> 0]

\* A packet of SendMultiPacket, not the last one.
SendPacket ==
    /\ frameQueue # << >> /\ Head(frameQueue).packets > 1
    /\ wire' = Append(wire, Packet)
    /\ frameQueue' = [frameQueue EXCEPT ![1].packets = @ - 1]
    /\ UNCHANGED <<frames, encoded, outputBuffer, packetsSent>>

\* Mutant of SendLastPacket: the block never ends.
SendLastPacketStuck ==
    /\ frameQueue # << >> /\ Head(frameQueue).packets = 1
    /\ wire' = Append(wire, Packet)
    /\ frameQueue' = [frameQueue EXCEPT ![1].packets = 0]
    /\ packetsSent' = packetsSent + 1
    /\ UNCHANGED <<frames, encoded, outputBuffer>>

\* The last packet; the block ends.
SendLastPacket ==
    /\ frameQueue # << >> /\ Head(frameQueue).packets = 1
    /\ wire' = Append(wire, Packet)
    /\ frameQueue' = Tail(frameQueue)
    /\ packetsSent' = packetsSent + 1
    /\ UNCHANGED <<frames, encoded, outputBuffer>>

\* A packet cannot be sent: SendMultiPacket returns, and leaves out the rest of
\* the frame.
SendFails ==
    /\ frameQueue # << >> /\ Head(frameQueue).packets > 0
    /\ wire' = Append(wire, NotSent)
    /\ frameQueue' = Tail(frameQueue)
    /\ packetsSent' = packetsSent + 1
    /\ UNCHANGED <<frames, encoded, outputBuffer>>

SendFrame == SendPacket \/ SendLastPacket \/ SendFails

VideoNext ==
    \/ \E n \in 1 .. MaxPackets : EncodeFrame(n)
    \/ EncodeFails
    \/ DispatchFrame
    \/ SendFrame

\* The queues run their blocks; the camera may hand over frames or not.
VideoFairness == WF_videovars(DispatchFrame) /\ WF_videovars(SendFrame)

VideoSpec == VideoInit /\ [][VideoNext]_videovars /\ VideoFairness

-----------------------------------------------------------------------------
VideoTypeOK ==
    /\ frames \in 0 .. MaxFrames
    /\ encoded \in [frame : 1 .. frames, packets : 1 .. MaxPackets] \cup {NoFrame}
    /\ outputBuffer \in 0 .. frames
    /\ frameQueue \in Seq([frame : 1 .. frames, packets : 1 .. MaxPackets])
    /\ wire \in Seq([frame : 1 .. frames, data : 0 .. frames])
    /\ packetsSent \in 0 .. frames

\* The picture never falls further behind than the frame being sent and the
\* one encoded: a slow network makes the camera discard frames and does not
\* fill a queue (CameraInput.mm:119).  And a packet whose data was overwritten
\* while its frame was sent holds data of the frame encoded next, no later one.
StaysClose ==
    /\ Len(frameQueue) <= 1
    /\ \A i \in 1 .. Len(wire) :
          \A between \in wire[i].frame + 1 .. wire[i].data - 1 :
              \A j \in 1 .. Len(wire) : wire[j].frame # between

\* Every frame encoded leaves the queues again, sent to its last packet or up to
\* the first that could not be sent, and makes room for the next.
EveryFrameSent ==
    \A frame \in 1 .. MaxFrames :
        encoded.frame = frame ~>
            /\ \E i \in 1 .. Len(wire) : wire[i].frame = frame
            /\ \A i \in 1 .. Len(frameQueue) : frameQueue[i].frame # frame

\* Does not hold: the encoder runs before the wait, into the same buffer.
\* VideoInputOutput.mm:288, "Wait for any packet sending to finish": the frame
\* being sent is not touched, what goes out as a frame is that frame.
SentAsEncoded == \A i \in 1 .. Len(wire) : wire[i].data \in {wire[i].frame, 0}
=============================================================================
