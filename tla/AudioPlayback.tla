---------------------------- MODULE AudioPlayback ----------------------------
(***************************************************************************)
(* The way of received audio to the loudspeaker in AudioInputOutput,       *)
(* iLBCAudioDecoder and AudioDevice: the poll thread of the RTP session    *)
(* decodes a packet and pushes the samples, the thread of the audio unit   *)
(* pops as many as it wants to play.  They share a FIFOBuffer.  It shares  *)
(* nothing with the half that records: `half` says which of the two is     *)
(* looked at.                                                              *)
(*                                                                         *)
(* Samples are numbered as they are decoded; Noise is memory nothing was   *)
(* written to.  A frame of iLBC is FrameBytes long.                        *)
(***************************************************************************)
EXTENDS AudioCapture

CONSTANTS
    FrameBytes,      \* NO_OF_BYTES_20MS (38)
    PacketBytes,     \* sizes of packets
    PlaybackSizes,   \* samples the audio unit may want in a call
    MaxReceived,     \* bound: packets
    MaxSilence       \* bound: samples of silence played

ASSUME PlaybackAssumption ==
    /\ FrameBytes \in Nat \ {0}
    /\ PacketBytes \subseteq 0 .. FrameBytes * (MaxFramesPerPacket + 1) - 1
    /\ PlaybackSizes \subseteq Nat \ {0}
    /\ MaxReceived \in Nat /\ MaxSilence \in Nat

VARIABLES
    half,            \* "record" or "play"
    playbackBuffer,  \* [memory, position, count]
    mDecodeBuffer,   \* the decoder's only output buffer
    decoded,         \* samples in it that wait to be pushed
    receivedPackets, \* packets so far
    received,        \* samples decoded so far
    played           \* what the loudspeaker was given

playback == <<playbackBuffer, mDecodeBuffer, decoded, receivedPackets, received, played>>

\* A sample of silence, told apart by the samples pushed before it was played.
Silence == -1 - (received - decoded)
IsSilence(sample) == sample < 0
Pushed(silence) == -1 - silence

-----------------------------------------------------------------------------
PlaybackInit ==
    /\ playbackBuffer = [memory |-> Noises(Step), position |-> 0, count |-> 0]
    /\ mDecodeBuffer = Noises(FrameSamples * MaxFramesPerPacket)
    /\ decoded = 0 /\ receivedPackets = 0 /\ received = 0
    /\ played = << >>

\* processEncodedData, before it takes the lock.  decode returns no buffer for
\* a packet that is empty or not of whole frames; the frames a packet holds fit
\* into mDecodeBuffer, as both ends have the same MaxFramesPerPacket.  Nobody
\* encodes frames of 30 ms, which it would also take.
Decode(size) ==
    LET n == FrameSamples * (size \div FrameBytes)
    IN /\ decoded = 0
       /\ receivedPackets < MaxReceived
       /\ receivedPackets' = receivedPackets + 1
       /\ IF size % FrameBytes # 0 \/ size < FrameBytes
          THEN UNCHANGED <<mDecodeBuffer, decoded, received>>
          ELSE /\ mDecodeBuffer' = Over([i \in 1 .. n |-> received + i], mDecodeBuffer)
               /\ decoded' = n
               /\ received' = received + n
       /\ UNCHANGED <<playbackBuffer, played>>

\* processEncodedData, under playbackLock.
PushDecoded ==
    /\ decoded > 0
    /\ playbackBuffer' = Push(playbackBuffer, SubSeq(mDecodeBuffer, 1, decoded))
    /\ decoded' = 0
    /\ UNCHANGED <<mDecodeBuffer, receivedPackets, received, played>>

\* playbackCallback with getPlaybackData: what the buffer has, under
\* playbackLock, and silence for the rest.
Play(n) ==
    LET taken == SubSeq(Begin(playbackBuffer), 1, n)
        missing == n - playbackBuffer.count
    IN /\ Len(SelectSeq(played, IsSilence)) + missing <= MaxSilence
       /\ played' = IF missing <= 0 THEN played \o taken
                    ELSE played \o Begin(playbackBuffer) \o [i \in 1 .. missing |-> Silence]
       /\ playbackBuffer' = Pop(playbackBuffer, n)
       /\ UNCHANGED <<mDecodeBuffer, decoded, receivedPackets, received>>

PlaybackNext ==
    \/ \E size \in PacketBytes : Decode(size)
    \/ PushDecoded
    \/ \E n \in PlaybackSizes : Play(n)

-----------------------------------------------------------------------------
\* The two halves side by side.
avars == <<vars, half, playback>>

AInit == half \in {"record", "play"} /\ Init /\ PlaybackInit

ANext ==
    /\ UNCHANGED half
    /\ \/ half = "record" /\ Next /\ UNCHANGED playback
       \/ half = "play" /\ PlaybackNext /\ UNCHANGED vars

ASpec == AInit /\ [][ANext]_avars /\ Fairness

-----------------------------------------------------------------------------
PlaybackTypeOK ==
    /\ half \in {"record", "play"}
    /\ playbackBuffer \in [memory : Seq(0 .. received), position : Nat, count : Nat]
    /\ playbackBuffer.position + playbackBuffer.count <= Len(playbackBuffer.memory)
    /\ mDecodeBuffer \in [1 .. FrameSamples * MaxFramesPerPacket -> 0 .. received]
    /\ decoded \in 0 .. FrameSamples * MaxFramesPerPacket
    /\ receivedPackets \in 0 .. MaxReceived /\ received \in Nat
    /\ played \in Seq(Int)

\* The last sample that had been played when the first i items had.
PlayedUpTo(i) ==
    IF i = 0 THEN 0 ELSE IF IsSilence(played[i]) THEN Pushed(played[i]) ELSE played[i]

\* Wherever the samples are in the buffer's memory, and whether it grew or was
\* rewound meanwhile: what was played, what is in the buffer and what waits to
\* be pushed is what was received, once and in order.
PlayedInOrder ==
    LET last == PlayedUpTo(Len(played))
    IN /\ \A i \in 1 .. Len(played) :
             ~IsSilence(played[i]) => played[i] = PlayedUpTo(i - 1) + 1
       /\ \A i \in 1 .. playbackBuffer.count : Begin(playbackBuffer)[i] = last + i
       /\ \A i \in 1 .. decoded : mDecodeBuffer[i] = received - decoded + i
       /\ last + playbackBuffer.count + decoded = received

\* Silence is played only when everything pushed by then has been played.
SilentWhenEmpty ==
    \A i \in 1 .. Len(played) :
        IsSilence(played[i]) => Pushed(played[i]) = PlayedUpTo(i - 1)

\* Does not hold: what comes is played within the time of a few packets.  Nothing
\* is ever discarded, so that samples that came in a burst, after silence was
\* played instead of them, delay all that follow.
PlayedInTime == playbackBuffer.count <= FrameSamples * MaxFramesPerPacket

\* All that was received is played, in order, and silence only for want of it.
PlaybackInv == PlaybackTypeOK /\ PlayedInOrder /\ SilentWhenEmpty
=============================================================================
