---------------------------- MODULE AudioCapture ----------------------------
(***************************************************************************)
(* The way of the microphone's samples to the network in AudioInputOutput  *)
(* and AudioDevice: the thread of the audio unit (recordCallback) writes   *)
(* into recordBuffer under recordLock, a block on the serial encodeQueue   *)
(* encodes what has come, a block on the serial sendQueue sends it.        *)
(*                                                                         *)
(* A sample is its number in the microphone's stream, 1, 2, 3, ...; Noise  *)
(* is memory nothing was recorded into since it was allocated.             *)
(* recordBuffer is a FIFOBuffer: its memory, with whatever was left there, *)
(* its position and its count.  iLBC codes a frame of FrameSamples samples *)
(* by itself: an encoded frame is the samples of it.                       *)
(* The notifier that records the call (didReceiveAudioBuffer) only reads.  *)
(***************************************************************************)
EXTENDS Integers, Sequences

CONSTANTS
    FrameSamples,        \* mNumSamplesPerFrame (160: 20 ms)
    MaxFramesPerPacket,  \* MaxFramesPerPacket (7)
    Step,                \* a FIFOBuffer grows in steps of as many samples (4 kB)
    CaptureSizes,        \* samples the audio unit may ask room for in a call
    MaxCaptures,         \* bound: calls of the audio unit
    MaxErrors            \* bound: failures of AudioUnitRender

ASSUME SizesAssumption ==
    /\ FrameSamples \in Nat \ {0} /\ MaxFramesPerPacket \in Nat \ {0}
    /\ Step \in Nat \ {0}
    /\ CaptureSizes \subseteq Nat \ {0}
    /\ MaxCaptures \in Nat /\ MaxErrors \in Nat

VARIABLES
    recordBuffer,   \* the samples recorded and not encoded yet: [memory,
                    \* position, count]
    recordLock,     \* the thread that holds it: none, device or encoder
    device,         \* the recordCallback in progress: where it is, and the room
                    \* it has in recordBuffer's memory, from behind `position`
    captured,       \* samples the microphone has produced
    captures,       \* recordCallbacks so far
    errors,         \* AudioUnitRender failures so far
    encodeQueue,    \* blocks waiting on it
    encoder,        \* its running block: where it is, samples it has encoded
    mEncodeBuffer,  \* the encoder's only output buffer
    sendQueue,      \* sizes of the blocks waiting on it; all of them are to
                    \* send from the start of mEncodeBuffer
    sent            \* what went to the network, packet after packet

microphone == <<device, captured, captures, errors>>
vars == <<recordBuffer, recordLock, microphone, encodeQueue, encoder,
          mEncodeBuffer, sendQueue, sent>>

Noise == 0
Noises(n) == [i \in 1 .. n |-> Noise]
Idle == [at |-> "idle", position |-> 0, length |-> 0, unused |-> 0]
NoBlock == [at |-> "idle", samples |-> 0]

-----------------------------------------------------------------------------
(* FIFOBuffer                                                               *)

RoundUp(n) == Step * ((n + Step - 1) \div Step)

Begin(b) == SubSeq(b.memory, b.position + 1, b.position + b.count)

\* What a buffer's memory is from the first place on, once `samples` are copied
\* there.
Over(samples, memory) ==
    [i \in DOMAIN memory |-> IF i \in DOMAIN samples THEN samples[i] ELSE memory[i]]

\* rewind: the samples move to the front of the memory.
Rewind(b) ==
    IF b.position = 0 THEN b
    ELSE [b EXCEPT !.memory = Over(Begin(b), @), !.position = 0]

\* Mutant of EnsureCapacity: samples stay where they are while there is room.
EnsureCapacityInPlace(b, n) ==
    IF n > Len(b.memory)
    THEN [b EXCEPT !.memory = Over(Begin(b), Noises(RoundUp(n))), !.position = 0]
    ELSE b

\* ensureCapacity: new memory takes the samples only, old memory is rewound.
EnsureCapacity(b, n) ==
    IF n > Len(b.memory)
    THEN [b EXCEPT !.memory = Over(Begin(b), Noises(RoundUp(n))), !.position = 0]
    ELSE Rewind(b)

\* push(numSamples): room for as many more; what it holds is what the memory held.
PushRoom(b, n) == [EnsureCapacity(b, b.count + n) EXCEPT !.count = @ + n]

\* push: the samples are written after count samples from the start of memory
\* (end()), which is behind those in the buffer as it has been rewound.
Push(b, samples) ==
    LET room == EnsureCapacity(b, b.count + Len(samples))
    IN [room EXCEPT
          !.memory = [i \in DOMAIN @ |-> IF i - b.count \in DOMAIN samples
                                         THEN samples[i - b.count] ELSE @[i]],
          !.count = @ + Len(samples)]

\* pop: when all is taken the position stays where it was.
Pop(b, n) ==
    IF n >= b.count THEN [b EXCEPT !.count = 0]
    ELSE [b EXCEPT !.count = @ - n, !.position = @ + n]

-----------------------------------------------------------------------------
Init ==
    /\ recordBuffer = [memory |-> Noises(Step), position |-> 0, count |-> 0]
    /\ recordLock = "none"
    /\ device = Idle
    /\ captured = 0 /\ captures = 0 /\ errors = 0
    /\ encodeQueue = 0
    /\ encoder = NoBlock
    /\ mEncodeBuffer = Noises(FrameSamples * MaxFramesPerPacket)
    /\ sendQueue = << >>
    /\ sent = << >>

-----------------------------------------------------------------------------
(* The thread of the audio unit: recordCallback.                            *)

\* getRecordBuffer: the room is pushed before anything is written to it, so that
\* it holds what was there before: samples already encoded, or noise.  The lock
\* stays taken until finishRecordingBuffer.
GetRecordBuffer(length) ==
    /\ device.at = "idle"
    /\ captures < MaxCaptures
    /\ recordLock = "none"
    /\ recordLock' = "device"
    /\ captures' = captures + 1
    /\ recordBuffer' = PushRoom(recordBuffer, length)
    /\ device' = [at |-> "render", position |-> recordBuffer'.position + recordBuffer.count,
                  length |-> length, unused |-> 0]
    /\ UNCHANGED <<captured, errors, encodeQueue, encoder, mEncodeBuffer,
                   sendQueue, sent>>

\* AudioUnitRender fills the room it was given.
Render ==
    /\ device.at = "render"
    /\ recordBuffer' = [recordBuffer EXCEPT !.memory =
          [i \in DOMAIN @ |-> IF i - device.position \in 1 .. device.length
                              THEN captured + i - device.position
                              ELSE @[i]]]
    /\ captured' = captured + device.length
    /\ device' = [device EXCEPT !.at = "finish"]
    /\ UNCHANGED <<recordLock, captures, errors, encodeQueue, encoder,
                   mEncodeBuffer, sendQueue, sent>>

\* AudioUnitRender fails, and all of the room is reported unused.
RenderFails ==
    /\ device.at = "render"
    /\ errors < MaxErrors
    /\ errors' = errors + 1
    /\ captured' = captured + device.length
    /\ device' = [device EXCEPT !.at = "finish", !.unused = device.length]
    /\ UNCHANGED <<recordBuffer, recordLock, captures, encodeQueue, encoder,
                   mEncodeBuffer, sendQueue, sent>>

\* finishRecordingBuffer: as many samples as are unused are popped, from the
\* beginning of the buffer.
FinishRecordingBuffer ==
    /\ device.at = "finish"
    /\ recordBuffer' = Pop(recordBuffer, device.unused)
    /\ recordLock' = "none"
    /\ encodeQueue' = encodeQueue + 1
    /\ device' = Idle
    /\ UNCHANGED <<captured, captures, errors, encoder, mEncodeBuffer,
                   sendQueue, sent>>

-----------------------------------------------------------------------------
(* The block on the encode queue.                                           *)

\* Mutant of WaitForSending: it does not.
WaitForSendingNot ==
    /\ encoder.at = "idle"
    /\ encodeQueue > 0
    /\ encodeQueue' = encodeQueue - 1
    /\ encoder' = [NoBlock EXCEPT !.at = "waited"]
    /\ UNCHANGED <<recordBuffer, recordLock, microphone, mEncodeBuffer,
                   sendQueue, sent>>

\* The next block starts with dispatch_sync(sendQueue): as only this queue's
\* blocks put anything there, it returns when the send queue has run empty.
WaitForSending ==
    /\ encoder.at = "idle"
    /\ encodeQueue > 0
    /\ sendQueue = << >>
    /\ encodeQueue' = encodeQueue - 1
    /\ encoder' = [NoBlock EXCEPT !.at = "waited"]
    /\ UNCHANGED <<recordBuffer, recordLock, microphone, mEncodeBuffer,
                   sendQueue, sent>>

WholeFrames == recordBuffer.count \div FrameSamples
Fewer(a, b) == IF a < b THEN a ELSE b

\* Mutant of NothingToEncode: the block returns with the lock taken.
NothingToEncodeKeepsLock ==
    /\ encoder.at = "waited"
    /\ recordLock = "none"
    /\ WholeFrames < 1
    /\ encoder' = NoBlock
    /\ recordLock' = "encoder"
    /\ UNCHANGED <<recordBuffer, microphone, encodeQueue, mEncodeBuffer,
                   sendQueue, sent>>

\* encode() returns no buffer: less than a frame has come.
NothingToEncode ==
    /\ encoder.at = "waited"
    /\ recordLock = "none"
    /\ WholeFrames < 1
    /\ encoder' = NoBlock
    /\ UNCHANGED <<recordBuffer, recordLock, microphone, encodeQueue,
                   mEncodeBuffer, sendQueue, sent>>

\* encode() fills mEncodeBuffer with the frames that go into a packet; those
\* beyond MaxFramesPerPacket are discarded with them.  A sample that does not
\* complete a frame stays.
Encode ==
    LET samples == FrameSamples * Fewer(WholeFrames, MaxFramesPerPacket)
    IN /\ encoder.at = "waited"
       /\ recordLock = "none"
       /\ WholeFrames >= 1
       /\ recordLock' = "encoder"
       /\ encoder' = [at |-> "encoded", samples |-> samples]
       /\ mEncodeBuffer' = [i \in DOMAIN mEncodeBuffer |->
             IF i <= samples THEN Begin(recordBuffer)[i] ELSE mEncodeBuffer[i]]
       /\ recordBuffer' = Pop(recordBuffer, FrameSamples * WholeFrames)
       /\ UNCHANGED <<microphone, encodeQueue, sendQueue, sent>>

\* The send block is dispatched, then the lock released.
DispatchSend ==
    /\ encoder.at = "encoded"
    /\ sendQueue' = Append(sendQueue, encoder.samples)
    /\ recordLock' = "none"
    /\ encoder' = NoBlock
    /\ UNCHANGED <<recordBuffer, microphone, encodeQueue, mEncodeBuffer, sent>>

-----------------------------------------------------------------------------
\* The block on the send queue: SendMultiPacket.  Seven iLBC frames fit into
\* one packet.
Send ==
    /\ sendQueue # << >>
    /\ sent' = sent \o SubSeq(mEncodeBuffer, 1, Head(sendQueue))
    /\ sendQueue' = Tail(sendQueue)
    /\ UNCHANGED <<recordBuffer, recordLock, microphone, encodeQueue, encoder,
                   mEncodeBuffer>>

DeviceNext ==
    \/ \E length \in CaptureSizes : GetRecordBuffer(length)
    \/ Render
    \/ RenderFails
    \/ FinishRecordingBuffer

EncoderNext == WaitForSending \/ NothingToEncode \/ Encode \/ DispatchSend

Next == DeviceNext \/ EncoderNext \/ Send

\* A callback the audio unit has begun returns, and the queues run their blocks;
\* that the audio unit calls again is not assumed.
Fairness ==
    /\ WF_vars(Render \/ RenderFails \/ FinishRecordingBuffer)
    /\ WF_vars(EncoderNext) /\ WF_vars(Send)

Spec == Init /\ [][Next]_vars /\ Fairness

-----------------------------------------------------------------------------
SampleOrNoise == 0 .. captured

TypeOK ==
    /\ recordBuffer \in [memory : Seq(SampleOrNoise), position : Nat, count : Nat]
    /\ recordBuffer.position + recordBuffer.count <= Len(recordBuffer.memory)
    /\ recordLock \in {"none", "device", "encoder"}
    /\ device \in [at : {"idle", "render", "finish"}, position : Nat,
                   length : CaptureSizes \cup {0}, unused : CaptureSizes \cup {0}]
    /\ device.at # "idle" =>
          /\ recordBuffer.position = 0
          /\ device.position + device.length = recordBuffer.count
    /\ captured \in Nat /\ captures \in Nat /\ errors \in Nat
    /\ encodeQueue \in 0 .. captures
    /\ encoder \in [at : {"idle", "waited", "encoded"},
                    samples : 0 .. FrameSamples * MaxFramesPerPacket]
    /\ mEncodeBuffer \in [1 .. FrameSamples * MaxFramesPerPacket -> SampleOrNoise]
    /\ sendQueue \in Seq(1 .. FrameSamples * MaxFramesPerPacket)
    /\ sent \in Seq(SampleOrNoise)

\* As long as AudioUnitRender succeeds, what goes to the network is what the
\* microphone recorded, in order, no sample twice and each frame made of
\* samples that follow each other: no packet is overwritten by the next one
\* before it is sent, and no sample is recorded into a place the encoder has
\* meanwhile moved.
SentInOrder ==
    errors = 0 =>
        /\ \A i \in 1 .. Len(sent) - 1 : sent[i] < sent[i + 1]
        /\ \A i \in 1 .. Len(sent) - 1 :
              i % FrameSamples # 0 => sent[i + 1] = sent[i] + 1
        /\ Len(sent) > 0 => sent[1] # Noise

\* When the microphone stops, whatever the threads were doing, all that it
\* recorded is sent or discarded but for the beginning of a frame, and the
\* lock is free.
Drains ==
    <>[](/\ recordBuffer.count < FrameSamples
         /\ sendQueue = << >>
         /\ recordLock = "none")

\* Does not hold: the room of a failed rendering is at the end of the buffer,
\* pop takes it from the beginning: recorded samples are lost instead, and what
\* the room's memory held before, samples that went out already or noise, is
\* sent.  AudioDevice.h:26-29: "in case of error, it specified what size of the
\* buffer from the end wasn't used so you can discard that data": a sample is
\* sent once, and what could not be recorded is not.
UnusedIsDiscarded ==
    /\ \A i \in 1 .. Len(sent) : sent[i] # Noise
    /\ \A i, j \in 1 .. Len(sent) : i < j => sent[i] < sent[j]

\* The threads' states, buffers and positions fit together, and as long as the
\* audio unit renders without error what is sent is what was recorded, in order
\* and once.
AudioCaptureInv == TypeOK /\ SentInOrder
=============================================================================
