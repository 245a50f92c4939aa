# TLA+ verification of RemoteControlGalileo

RemoteControlGalileo is an iOS app for video calls between two devices. One of
the devices may sit in a Galileo, a motorised dock that the other user turns
remotely by dragging over the picture. This directory holds TLA+ modules that
model the parts of the app, and of the RTP library it brings along, whose
correctness depends on the order of events, TLC configurations that check them
on small instances, and proofs that TLAPS checks for every value of the
constants. `PROJECT.json` lists the components, the runs, the source lines every
definition translates, a mutation of the code's model that breaks each property,
the hazards of the code and the theorems.

## 1. Inventory

The app is below `src/RemoteControlGalileo/`, the library jrtp in `src/jrtp/`.

| Component | State it keeps | Operations | Talks to | Correct if |
|---|---|---|---|---|
| `RTPSessionEx` (`AV Capture/RtpSessionEx.cpp`) | packets that cannot be used yet, expected number, counter, frame being put together | `SendMultiPacket`, `ProcessRTPPacket` | poll thread of jrtp, callbacks into audio and video | frames handed over are whole and in order, nothing is given up without need, a stalled receiver resynchronises |
| `RingBuffer` (`AV Capture/Kernel/RingBufferImpl.h`) | slots, read and write index | `push`, `pop`, `clear` | one writer and one reader thread, no lock | the copies never meet in a slot; it is a FIFO queue |
| `GKSessionManager`, lobby, root view controller (`Initialisation/`) | session state, current peer, peer list, view stack, net controller | user taps, GameKit delegate callbacks, app activation | GameKit | manager, GameKit and screen agree about the call; attempts end |
| `AudioInputOutput`, recording half, `AudioDevice`, `iLBCAudioEncoder`, `FIFOBuffer` | record buffer, lock, encoder's output buffer | audio unit's callback, encode block, send block | audio unit's thread, two serial queues | what is recorded is sent once, in order, whole |
| Playback (`AudioInputOutput`, `iLBCAudioDecoder`, `FIFOBuffer`) | playback buffer: memory, position, count | decoding, pushing, growing, rewinding, render callback | poll thread, audio unit | what is received is played once, in order |
| `VideoInputOutput`, sending half, `Vp8VideoEncoder` | encoder's output buffer, queues | capture, encode, send | capture queue, send queue | packets belong to their frame, the pipeline stays short |
| Latency probe (`VideoInputOutput`) | identifier and time of the last ping | `sendPing`, `onPing`, `onPong` | main thread, poll thread, RTCP APP packets | a time measured belongs to its ping |
| `UserInputHandler`, `MoveRecogniser`, `DockConnectorController` | gesture, moving average, timer, "zeros sent" flag; dock velocities | drag, timer, control packet; calls begin and end, the dock is found and lost | UIKit, GameKit, Galileo library | the dock stops when the user does, unless it has missed a command |
| Orientation and start of a call (`VideoViewController`, `UserInputHandler`, `GKNetController`, `RemoteControlGalileo`) | local and remote orientation, rotation shown, resend timer, address | rotations, packets, address exchange | GameKit | the picture ends up upright, both streams start |
| `MediaOutput` with the recording commands of `VideoViewController` | state, asset writer, inputs, format | set-up, start, stop, completion, reset, buffers | main thread, global queue, AVFoundation, audio thread | the devices agree whether a recording runs unless taps cross, a stop is not lost |
| jrtp: source table (`rtpsources.cpp`, `rtpinternalsourcedata.cpp`, `rtpsourcedata.cpp`, `rtpcollisionlist.cpp`) | sources with addresses, flags and packet lists; counters; our own entry | RTP packets, RTCP items, timeouts, collisions | session | one host per source, counters that fit, our own entry survives, packets in the order of their numbers |
| jrtp: RTCP reports (`rtcppacketbuilder.cpp`, `rtcpcompoundpacket*.cpp`) | which sources and items are covered, rounds | building reports, BYE and APP packets; parsing | source table, session | packets fit and parse, what is due has its turn |
| jrtp: RTCP scheduler (`rtcpscheduler.cpp`) | time of the last and of the next packet, members, BYE back-off | member events, reconsideration, `IsTime` | poll thread | neither too often nor too rarely |
| jrtp: session and poll thread (`rtpsession.cpp`, `rtppollthread.cpp`) | table, builder, BYE queue under four locks; sizes; parts created | `Create`, `SendPacket`, `SendRTCPAPPPacket`, `Poll`, `BYEDestroy`, `SetMaximumPacketSize` | app's queues, main thread, poll thread | builder and table mean one SSRC; nobody waits for ever; a failed set-up leaves nothing |
| jrtp: RTP packets (`rtppacketbuilder.cpp`, `rtppacket.cpp`) | CSRCs, defaults, timestamps, numbers | build, parse | session | what is built is parsed as what it was |
| jrtp: UDP transmitters (`rtpudpv4transmitter.cpp`, `rtpudpv6transmitter.cpp`, `rtpkeyhashtable.h`, `rtphashtable.h`) | sockets, packets polled, destinations, groups, accept and ignore lists, abort pipe | `Poll`, `WaitForIncomingData`, `AbortWait`, `SendRTPData`, list and group methods, `Destroy` | kernel, waiting thread, others | lists implement sets, groups joined on both sockets, the byte that ends a wait is read |
| jrtp: external transmitter (`rtpexternaltransmitter.cpp`) | packets injected, pipe | injecting, polling, waiting, destroying | application's thread | no packet waits unnoticed |
| `GKNetController`, other packets; `CameraInput`; decoders and OpenGL; kernel utilities; `AppDelegate` | – | – | system | no control flow to speak of |
| jrtp: fake transmitter (`extratransmitters/rtpfaketransmitter.cpp`) | packet handed in, packets polled, destinations, lists | `SetCurrentData`, `Poll`, list methods, `SendRTPData` | application | what is handed in and accepted is polled once |
| jrtp: tables and accessors; jthread, iLBC, libvpx | – | – | – | no control of their own, or third-party |

Interaction: a call is set up through GameKit (`GKSessionManager`), whose
connection then carries the control, recording, zoom, orientation, address and
ping packets (`GKNetController`). Audio and video go over two RTP sessions of
their own, each with a poll thread, a source table, an RTCP builder and
scheduler and an IPv4 transmitter. Threads meet in the record buffer (audio unit
and encode queue), in the encoders' output buffers (encode and send queues), in
the playback buffer (poll thread and audio unit), in `MediaOutput` (main, global
queue, AVFoundation, audio unit, camera) and in the RTP session (poll thread,
sending queue, main thread). Everything of the session manager runs on the main
thread, but calls back into itself in the middle of a handler.

What is hard: loss, duplication and reordering of packets and the wrap-around
of 16-bit numbers; two threads on an unguarded ring; re-entrant handlers in
every order GameKit may call them; an output buffer that outlives the lock; a
stop that is told once; state that is set in a block that runs later elsewhere;
an SSRC that changes while other threads build packets with it; a wait that is
aborted, times out and is destroyed at once; reports that do not fit into one
packet; counters kept by hand at every place an entry changes. The hazards in
`PROJECT.json` are the complete list, with lines.

## 2. Modules

### The app

| Module | Models | State and actions |
|---|---|---|
| `SampleQueue` | what `RingBuffer` promises | a bounded queue; `Push` and `Pop` are atomic |
| `RingBuffer` | `RingBuffer` | a call is three or more steps: read both indices, copy slot by slot, publish the index. The reader's and writer's calls interleave. Indices count modulo 2 · `BufferSize`, as the masks of the code make unsigned integers do |
| `Depacketizer` | `ProcessRTPPacket`, `InsertPacketIntoFrame` | the fields of `RTPSessionEx`; one processed packet is one step, as only the poll thread runs it. `InsertPackets`, `SkipFrame`, `KeepPacket` are the three ways a call can end |
| `RtpStream` | one stream: `SendMultiPacket`, a network, `Depacketizer` | payloads are positions in the stream, so that a frame shows where it comes from |
| `RtpRecovery` | an endless stream over a network that is bad, then stable | payloads are all equal, numbers wrap again and again |
| `CallSession` | the call on one device | a handler with everything it calls back is one step; GameKit is the environment (`link`) |
| `AudioCapture` | microphone to network; `FIFOBuffer` | the three threads' steps, the lock and the two queues; a sample is its number. The FIFO buffer is memory, position and count, with its growth and rewinding, so that room pushed holds what was there before |
| `AudioPlayback` | network to loudspeaker | the decoder, the same FIFO buffer, the render callback |
| `VideoCapture` | camera to network | encode, wait and dispatch, packet by packet |
| `LatencyProbe` | pings and pongs | `sendPing` in two steps, `onPong` in three, a network that loses, doubles and delays, a clock |
| `MotionControl` | finger to dock | gesture, moving average, timer, call, channel, dock found and lost |
| `Orientation` | the way up of the picture, start of a call | both devices' positions, timers and packets, the exchange of addresses, the rotation |
| `Recording` | tap to file and back | taps of both users, commands, responses, main thread, stop blocks, completion handlers, reset in two steps, audio thread between check and use |

### The RTP library

| Module | Models | State and actions |
|---|---|---|
| `RtpSourceTable` | `RTPSources` and what it keeps of a source | operators from a table to a table, one per method: packets, SDES, BYE, reports, own SSRC, timeouts |
| `RtpSources` | the table at work | one raw packet at a time, item by item, with the session's reaction to a collision; sending, timeouts |
| `SourceQueue` | a source's packets | probation, extended numbers, the sorted list, the poll thread's emptying it |
| `RtcpCompound` | `RTCPCompoundPacketBuilder`, the parser | operators: what fits, the bytes reserved, the layout, what is accepted |
| `RtcpReports` | `RTCPPacketBuilder` | a packet per step, report blocks and items left to later packets by flags |
| `RtcpScheduler` | `RTCPScheduler` | ticks; the timer, reconsideration, reverse reconsideration, BYE queue and back-off |
| `RtpSession` | `RTPSession`'s threads | poll thread, sending thread, main thread and the locks they take in order; an error ends the poll thread where it is and leaves the rest to go on |
| `SessionSetup` | `Create`, `Destroy`, `SetMaximumPacketSize` | the parts held, a step for each part made, the four copies of the size |
| `RtpPackets` | `RTPPacketBuilder`, `RTPPacket` | CSRCs, defaults, time and number; a packet is cells of four bytes |
| `LocalHost` | local addresses, host name, CNAME, for each of the four transmitters | interfaces and DNS change between the calls |
| `Selection` | lists walked through | what is picked of a list, used by `UdpTransmitter` and `RtcpReports` |
| `SourceFilter` | what an accept or ignore list promises | a mode and a set of addresses; that a call changes the address it names and no other is `AddedOrExcepted` of `UdpTransmitter` |
| `KeyHashTable`, `HashTable` | `RTPKeyHashTable`, `RTPHashTable` | operators on linked elements at addresses: chains and one list of all |
| `UdpTransmitter` | `RTPUDPv4Transmitter` | a method is one step under mainmutex, but for the wait (select, then the lock) and Destroy |
| `UdpTransmitter6` | `RTPUDPv6Transmitter` | its methods are those of IPv4 written out again: each is defined to be the one there |
| `ExternalTransmitter` | `RTPExternalTransmitter` | the same waiting, with packets injected by another thread |
| `FakeTransmitter` | `RTPFakeTransmitter` | one packet handed in by the application, copied by `Poll`; its lists are those of IPv4 written out again |

### Compositions

`RtpStream` and `RtpRecovery` put `Depacketizer` between a sender and a network;
`RtpSources` and `RtpSession` run the same `RtpSourceTable`, the one a packet at
a time, the other among threads, and `OneAtATime` compares them. The other
compositions put parts of one class side by side that share no state: the
second part gets variables and a next-state relation of its own, and a variable
that never changes says which part is looked at. So `AudioPlayback` extends
`AudioCapture` (`half`), `LatencyProbe` extends `VideoCapture` (`part`),
`Orientation` extends `MotionControl` (`watched`), `SourceQueue` extends
`RtpSources` and `RtcpScheduler` extends `RtcpReports` (`seen.part`), and
`SessionParts` holds `RtpSession`, `SessionSetup`, `RtpPackets` and `LocalHost`
(`part`). In `Transmitter` the protocol given to `Create` decides, for good,
which of the four transmitters the common variables belong to. That loses no
interleaving, because there is nothing one part could see of the other; where
parts do share state they are one module.

`MC*` modules instantiate a module for TLC. The theorems are in eight modules:

| Module | About |
|---|---|
| `RingBufferProofs` | `RingBuffer` |
| `RtpStreamProofs` | `Depacketizer` in `RtpStream` and in `RtpRecovery` |
| `AppProofs` | `AudioCapture` and `AudioPlayback`, `VideoCapture` and `LatencyProbe`, `Recording`, `MotionControl` and `Orientation`, and `CallSession` |
| `RtpSourcesProofs` | `RtpSourceTable`, `RtpSources` |
| `SourceQueueProofs` | `SourceQueue`, on top of `RtpSourcesProofs` |
| `SessionPartsProofs` | `SessionParts` with `RtpSession`, `SessionSetup`, `RtpPackets` and `LocalHost` |
| `RtcpProofs` | `RtcpCompound`, `RtcpReports`, `RtcpScheduler`; `Selection` |
| `TransmissionProofs` | `KeyHashTable`, `HashTable` and the four transmitters in `Transmitter`, with the lemmas of `RtcpProofs` on `Selection` |

The theorem about `ExternalTransmitter` names the assumption on its constants
itself, as an `ASSUME` of an instantiated module is not known to the prover.

`RingBuffer` is constructed in `AudioInputOutput` but nothing is put into it at
this commit: it is a component of the code base that the app does not use yet.
The IPv6, external and fake transmitters are in the library and not used by
the app.

### What the models take from code outside the repository

- What the depacketizer takes from jrtp: numbers count up by one modulo 2^16
  from a random start; packets reach `ProcessRTPPacket` in any order, more than
  once or not at all. Within one poll the library sorts (`SourceQueue`); over
  several polls any order of calls can occur.
- GameKit: its data channel is reliable and ordered. The connections of a
  session that is released end; a session without a delegate calls nobody. An
  attempt to connect, also one this device has accepted, succeeds or fails
  within the timeout (10 s, `connect:`); a failing `acceptConnectionFromPeer`
  is reported as `connectionWithPeerFailed`.
- AVFoundation: `finishWriting` on a writer that does not write raises an
  exception, on nil nothing happens; a completion handler is called once.
- Grand Central Dispatch: a serial queue runs its blocks one by one in order,
  `dispatch_sync` returns when the queue has run everything before it.
- The kernel: a socket keeps what arrives in order; `select` may return for data,
  for a byte in the pipe or for its timeout; joining a group may fail on either
  socket; a pipe of limited room blocks its writer.
- jthread: a mutex is held by one thread at a time; `Kill` ends a thread where
  it is, with the locks it holds.

## 3. Runs

| Run | Properties | Shows | Bounds, and why they are enough |
|---|---|---|---|
| `ring_buffer` | `Inv`, `NoDataRace`, `ImplementsQueue` | no slot is read and written at once; the buffer implements `SampleQueue` | capacity 4, samples 0 and 1, transfers up to 3: the indices pass the wrap at every offset and a transfer can straddle the end of the array |
| `rtp_stream` | `RtpStreamInv`, `WholeFrames`, `InOrder` | frames are runs of consecutive packets up to a marker, in order, none twice; nothing is given up while the network is nearly in order | 6 packets, frames of 1–2, a buffer of 2, a difference of 4, 2 losses, a packet stays 3 packets long in the network: all three ways out of `ProcessRTPPacket` and both reasons to skip occur, and a difference that is less than the buffer could absorb |
| `rtp_recovery` | `RtpRecoveryInv`, `Recovers` | after any past the receiver resynchronises, within a bounded number of packets | numbers modulo 5, buffer 1, difference 3, 2 packets in the network; any number of wraps |
| `call_session` | `NoOrphanConnection`, `CallIsOnScreen`, `CallIsLinked`, `AttemptResolves` | manager, GameKit and screen agree; attempts end | 3 peers: one in a call, one calling, one called. Deadlock is checked |
| `audio_capture` | `AudioCaptureInv`, `PlaybackInv`, `Drains` | as long as rendering succeeds samples go out once, in order, frames without holes; all threads come to rest, also when it fails; what is received is played once, in order, silence only for want of it | recording: frames of 2 samples, 2 frames a packet, buffers of 1 and 3 samples, 6 callbacks, 2 failing, so that rests of a frame stay over, a packet is overfull, a callback runs at every point of an encoding. Playback: packets of 0, 2, 3 and 4 bytes, 5 of them, 3 samples of silence. Both buffers' memory grows in steps of 4 samples, so that it grows and is rewound with samples in it |
| `motion_control` | `OrientationInv`, `Stops`, `PictureGetsRight` | a dock that has missed no command stops when the user does; the picture is the right way up when no news is on its way, and gets so | drags along both axes and rest, deceleration 2, 2 packets under way; the docked device held in landscape, flat and portrait, the dock pulled off and calls ended at any moment and begun again; 5 positions for the picture, of which one is told to nobody. Deadlock is checked |
| `recording` | `DevicesAgree`, `StopsInTheEnd` | the devices agree unless taps cross, stops are not lost even then | 6 taps of the two users in any order, so that taps cross; three recordings can overlap in their stop blocks, handlers and resets |
| `video_capture` | `StaysClose`, `EveryFrameSent`, `LatencyInv` | at most one frame is encoded ahead of the one being sent; every frame is sent to its last packet or to the first that cannot be sent; the latency is that of the ping answered | 5 frames of up to 3 packets, more than the pipeline ever holds; 3 pings in 5 ticks: a pong can come two pings late and twice |
| `rtp_sources` | `SourcesInv`, `OneHostPerSource`, `OwnSurvives`, `NoTakeover` | a packet from another host leaves a source's entry alone, our own entry survives, the counters fit; the order of numbers is that of sending, unless numbers begin again while packets are kept on probation or one of an old round comes late | 3 SSRCs, 2 hosts one of which is ours, 1 name, own packets accepted, probation 2; an SSRC must be free for a collision. Queue: numbers modulo 8, 2 ahead and 1 late (2 · 3 < 8, as on the wire 16 bits are far more than packets are late), 6 arrivals, 3 packets kept on probation: it begins anywhere, so that probation and wrap meet |
| `rtcp_reports` | `RtcpReportsInv`, `RoundsGetOn`, `SchedulerInv` | packets fit and parse and get on; the timing of RTCP | 3 sources, packets of 84 bytes that cannot hold all reports and items, headers that count to 1 instead of 31, so that a second header is needed at once. Scheduler: intervals from 4 ticks, a random factor below and above one, 4 members, 2 BYEs, back-off from 3 members on, a poll 1 tick late. Deadlock is checked |
| `rtp_session` | `RtpSessionInv`, `SendGoesOn`, `SilentAfterBYE`, `OneAtATime`, `SetupInv`, `PacketsInv`, `HostInv` | the threads agree about our SSRC, do not wait for one another in a circle and wait for no lock in vain; set-up, packets, host name | 3 SSRCs, so that ours can collide twice, 1 other address; 5 sizes, of which one is too small and one too big; 2 CSRCs in a packet, 3 packets built; 3 addresses, 4 lists of interfaces, 5 DNS tables, four transmitters. Deadlock is checked |
| `udp_transmitter` | `TransmitterInv`, `FilterAsAsked`, `PolledIfAccepted` | for each of the four transmitters: tables linked, data to whom it should, groups on both sockets, the lists implement `SourceFilter` and each call on them has its own effect, a wait that ends finds its byte, and what a poll takes from a socket is kept if it is accepted, but for one packet when memory runs out | 2 hosts, 2 ports, a group, 3 destinations, 3 elements allocated at a time, all keys in one bucket (chains as long as can be), 3 objects, a pipe of one byte. Deadlock is checked |

`CHECK_DEADLOCK FALSE` stands only where a bound ends the run: no packets,
callbacks, frames, taps or arrivals are left (`audio_capture`, `video_capture`,
`rtp_stream`, `recording`, `rtp_sources`). Symmetry is used in the four runs of
the library, which check no liveness, over SSRCs, sources, hosts, ports and
destinations that no definition orders or names. For each property of a
run `PROJECT.json` names a mutated definition of the code's model with which TLC
finds it violated.

Where a property is a conjunction (`...Inv`), its parts are named in the module,
each with its own comment; the deepest of them are `NothingSkipped`,
`SentInOrder`, `PlayedInOrder`, `ZerosAreEnough`, `NumbersFit`, `CountsAgree`,
`BuiltIsParsed`, `ReportedWhenCalm`, `SizesAgree`, `NothingLeft`,
`MembershipAgrees` and `NothingWaitsUnnoticed`.

`tame`, `first`, `newest`, `rewound` (`RtpStream`), `stall` (`RtpRecovery`),
`calls` (`CallSession`), `played` (`AudioPlayback`), `begun` (`LatencyProbe`),
`asked` (`UdpTransmitter`, `RtpPackets`), `sent` (`RtpPackets`), `told`
(`LocalHost`) and the fields of `seen` other than `part` (`SourceQueue`,
`RtcpScheduler`) are history variables: nothing the code does depends on them, but that `begun` tells the first ping from the others.
Bounds are constants marked "bound" where they are declared. `MaxInVain` and `MaxBadInVain` limit
how many packets in a row a network brings in vain; it is above the threshold at
which the code's counter makes it skip, so that branch is reached.

### Fairness

- `RtpRecovery`: the sender's queue goes on sending and, once the network is
  stable, it delivers and the poll thread polls. Nothing is assumed before.
- `CallSession`: an attempt ends, because GameKit has been given a timeout.
  No user acts, no peer appears, for fairness' sake.
- `AudioCapture`: a callback begun returns, both queues run their blocks; the
  audio unit need not call again.
- `VideoCapture`: the capture queue's block and the send queue go on; the camera
  need not deliver.
- `MotionControl`: the run loop fires the timer, GameKit delivers. The user
  may do anything.
- `Orientation`: the connection is made and the controllers are told of it, both
  devices' timers fire, GameKit delivers. Nobody has to turn a device.
- `Recording`: both run loops, the global queue and AVFoundation go on; nobody
  has to tap.
- The modules of the library assume none: what they state is safety, and of
  each step what it may never do.

All of it is weak fairness of steps that stay enabled until taken.

### Disagreements between code and documentation

The modules state what comments, names and headers promise and the code does
not keep, next to what does hold; each such statement is marked "Does not hold"
in its module. Adding it to the configuration of the run (as an invariant, or as
a property where it is an action) makes TLC show how it comes about.

In the app:

| Statement | Module | Promised | The code |
|---|---|---|---|
| `WholeFrames` when numbers wrap | `RtpStream` | `RtpSessionEx.h:81` "We skip displaying any frame that has one or more packets missing" | `RtpSessionEx.cpp:150`: the expected number is an int and grows past 65535, where the packets' numbers begin again. With `SeqMod` 8, `PacketBufferSize` 3, `PacketSequenceDiff` 4, `InitialSeq` 4, `MaxFragments` 2, `MaxPackets` 14, `MaxLifetime` 2, `MaxLosses` 1, `MaxInVain` 4 packets of two frames are put into one |
| `NoPartialFrame` | `RtpStream` | the same line | `RtpSessionEx.cpp:131` takes the first packet that arrives for the beginning of a frame |
| `SkipsByOldestKept` | `RtpStream` | `RtpSessionEx.h:18-20` the difference is that of the "minimal seq. number from packet list" | `RtpSessionEx.cpp:172` compares the packet just received |
| `PeerNotLeftHanging` | `CallSession` | `GKSessionManager.m:140` "Don't leave a peer hangin'" | line 135 restarts the session first, so that nothing is left to cancel |
| `DeniedOnlyInCall` | `CallSession` | `GKSessionManager.m:175` "If we aren't already connected to someone" | line 178 denies also while an attempt is under way |
| `InactiveIsUnavailable` | `CallSession` | `GKSessionManager.m:151` "Application is exiting or becoming inactive, end the session." | lines 152–158 leave it available |
| `DeclineEndsNoCall` | `CallSession` | `GKSessionManager.m:90` "if the user declines the invitation alertView" | `GKLobbyViewController.m:211`: the OK of a failure alert ends a later call |
| `FailureSparesCall` | `CallSession` | `GKSessionManager.m:187` "Unable to connect to a session with the peer" | line 191 forgets the standing call whoever has failed |
| `UnusedIsDiscarded` | `AudioCapture` | `AudioDevice.h:28-29` "what size of the buffer from the end wasn't used so you can discard that data" | `AudioInputOutput.mm:162` pops from the front: recorded samples are lost, and what the unused room held before, samples sent already or noise, is sent |
| `PlayedInTime` | `AudioPlayback` | a call is live | `AudioInputOutput.mm:203` appends whatever comes and discards nothing: a burst delays all that follows |
| `LatencyIsPositive` | `LatencyProbe` | a latency is a time | `VideoInputOutput.mm:207`: `sendPing` (line 162) may set the time anew between the comparison and the difference |
| `RotationIsAFunction` | `Orientation` | the picture depends on how the devices are held | `VideoViewController.mm:444` "We dont want any jumping here": in positions across each other it depends on how they were held before |
| `ZerosAreEnoughOnce` | `MotionControl` | `UserInputHandler.m:349` "zeros are enough to be sent once" | sent in no call (`GKSessionManager.m:125`) or to a dock that is off (`DockConnectorController.m:53`) they are dropped, in portrait the tilt is ignored (line 82); the dock turns on |
| `DockIsAwaited` | `MotionControl` | `DockConnectorController.m:38-41` waits for the dock again when it was pulled off | line 22 registers `galileoDidDisconnect`, a method there is not |
| `AgreeWhenCrossed` | `Recording` | `VideoViewController.mm:330`, `:346`: both flags say what is recorded | taps of both users may cross, and each device ends with what the other had |
| `StopsWhenShown` | `Recording` | `VideoViewController.mm:331` "Remote record STOPPED" | one flag is for both recordings: the answer to a tap of one's own clears it while one's own recording goes on |
| `FinalizingEnds` | `Recording` | `MediaOutput.mm:99` "Happy end!" | of two stop blocks the second finds no writer (line 97): no handler is called and the state stays Finalizing, in which line 52 refuses every set-up |
| `ErrorNeverRuns` | `Recording` | `MediaOutput.h:13` "can't load/play" | `MediaOutput.mm:66` overwrites the error |
| `AudioFormatAsserted` | `Recording` | `MediaOutput.mm:265` `assert(mAudioFormatDescription)` | line 146 releases it on another thread between check and use |
| `SentAsEncoded` | `VideoCapture` | `VideoInputOutput.mm:288` "Wait for any packet sending to finish" | line 269 has already encoded into the buffer being sent |

In the library:

| Statement | Module | Promised | The code |
|---|---|---|---|
| `ActiveCountExact` | `RtpSources` | the count of active members | a source known but not validated and then named as a contributing source is validated without being counted; its BYE counts all the same, so that the number falls below what is there |
| `LateNumbersFit` | `SourceQueue` | extended numbers follow the order of sending | `rtpsourcedata.cpp:149-177`: a packet of the old round that comes after the wrap counts for the new one |
| `ProbationFits` | `SourceQueue` | the same | `rtpsourcedata.cpp:55-66`: of 65535, 0, 1, none lost or late, on a probation of two, 1 is extended to 1 and the list is handed out as 0, 1, 65535 |
| `NoSourceTwice` | `RtcpReports` | a packet reports once on a source | `rtcppacketbuilder.cpp:236-252`: the second call of `FillInReportBlocks` starts again with the flags cleared |
| `LossIsDefined` | `RtcpReports` | `rtcppacketbuilder.cpp:376-382`: the fraction lost is that of the packets expected in an interval | the second call of `FillInReportBlocks` (lines 236-252) may repeat a source whose interval line 434 has just started anew, and divides 0 by 0 |
| `PutOffIsReported` | `RtcpReports` | `rtcppacketbuilder.cpp:349-350` a block if packets were received since the last report | line 306 sets that time with every packet, room or not: a source left out that falls silent is never reported on |
| `QueuedIsScheduled` | `RtcpScheduler` | a BYE in the queue has its own schedule | `rtpsession.cpp:1486-1494`: one that could not be sent is gone, the next is not scheduled and the poll thread ends; what is left waits for `BYEDestroy`, and there for a report's interval |
| `ReportedAlways` with `MaxSilence` 12 | `RtcpScheduler` | an RTCP packet in every interval | `rtcpscheduler.cpp:318`: each member who leaves sets back the time of the last packet, too |
| `DestroyReturns` | `RtpSession` | `Destroy` and `BYEDestroy` return | `rtppollthread.cpp:83`: the wait is aborted once; if the thread is just before it, it is killed in a long wait after five seconds, holding the lock that `Destroy` then takes |
| `APPsKeepSilent` | `RtpSession` | `rtpsession.cpp:1404` "bye packet is built and scheduled, now change our SSRC": the old one is used no more | `rtpsession.cpp:709-747`: `SendRTCPAPPPacket` reads the SSRC under the lock and sends with it later, when its BYE may be gone |
| `BYEOnlyIfUsed` | `RtpSession` | `rtpsession.cpp:1381` "Only send BYE packet if we've actually sent data using this SSRC" | `sentpackets` is also set by a call that began before the SSRC changed |
| `NothingRefused` | `SessionSetup` | a packet that was built can be sent | `rtpsession.cpp:1149`: sizes change one after the other, a report built before is refused and ends the poll thread |
| `DefaultsCanBeUsed` | `RtpPackets` | defaults that are accepted can be used | `SetDefaultPayloadType` takes 72 and 73, which `BuildPacket` refuses |
| `AddSelects` | `UdpTransmitter` | `rtptransmitter.h:189,198` adds an address to the list | `rtpudpv4transmitter.cpp:1376-1395`: when all ports of a host were added and one deleted, adding this one again succeeds without effect |
| `PolledIsStored` | `UdpTransmitter` | `rtptransmitter.h:143` a poll "Checks for incoming data and stores it." | `rtpudpv4transmitter.cpp:1323-1340`: a packet has been read from the socket when there is no memory to store it, and is lost |
| `HandedOverIfAccepted` | `UdpTransmitter` | the list decides who is heard | packets polled before it changed are still handed over |
| `Retrieved` | `FakeTransmitter` | `rtpfaketransmitter.cpp:5` packets handed in "can be retreived from jrtp through the normal polling mecanisms" | a packet not polled yet is overwritten by the next, and line 444 forgets one for which there was no memory |
| `AlwaysUnlocked` | `ExternalTransmitter` | mainmutex is given back | a write to a pipe nobody reads blocks with the lock held; a failed allocation returns with it |
| `DottedIfAnyAlias` | `LocalHost` | a qualified name is preferred | aliases are skipped after one that is known |
| `OwnPacketsKnown` | `LocalHost` | own packets are recognised | the list of addresses is made once, in `Create` |
| `LoginIsEnough` | `LocalHost` | the login name is used if there is one | a name that `getlogin` finds is written to the buffer, but the buffer still counts as empty |

## 4. Proofs

Each theorem holds for all values of the constants that meet the assumption
named; the run of the same property shows it on a small instance. Properties in
`code` are those of section 3.

| Theorem | States | Assumes |
|---|---|---|
| `RingBufferProofs!Invariance`, `!NoRace` | `Spec => []Inv`, `[]NoDataRace` | `BufferSize` positive (`BufferSizeAssumption`) |
| `RingBufferProofs!Refinement` | `Spec => ImplementsQueue` | the same |
| `RtpStreamProofs!FramesAreWhole` | `Spec => []WholeFrames` | `Fits`: the numbers do not wrap |
| `RtpStreamProofs!FramesInOrder` | `Spec => InOrder` | `Fits` |
| `RtpStreamProofs!NothingGivenUp` | `Spec => []RtpStreamInv` | `Fits`; `Patient`: the buffer holds as many packets as the difference lets be late |
| `RtpStreamProofs!StallsEnd` | `RecoverySpec => []RtpRecoveryInv` | `LongRounds`: a round of numbers (65536) is longer than the buffer and a frame's packets together |
| `AppProofs!Capture` | `ASpec => []AudioCaptureInv`: of what is sent it speaks while no rendering has failed | sizes are positive (`SizesAssumption`) |
| `AppProofs!ComesToRest` | `ASpec`: each step but a callback brings `StepsLeft` down; where it is 0, nothing is left but the beginning of a frame and the lock is free | the same |
| `AppProofs!Playback` | `ASpec => []PlaybackInv` | `PlaybackAssumption`: also, a packet is less than a frame longer than the most frames a packet has |
| `AppProofs!FrameTypes`, `!Close` | `VideoSpec => []VideoTypeOK`, `[]StaysClose` | the bounds are numbers (`VideoSizesAssumption`, `ProbeAssumption`) |
| `AppProofs!Latency` | `LSpec => []LatencyInv` | the same |
| `AppProofs!CloseBesideProbe` | `LSpec => []StaysClose` | the same |
| `AppProofs!FramesLeaveSent` | `VideoSpec`: an encoded frame leaves the queues only when a packet of it was sent or could not be, and each step but the camera's empties them | the same |
| `AppProofs!RecordingTypes`, `!BothAgree` | `RecordingSpec => []RecordingTypeOK`, `[]DevicesAgree` | the bound is a number |
| `AppProofs!Quiesces` | `RecordingSpec`: each step but a tap of either user and a buffer of the microphone brings `Work` down | the same |
| `AppProofs!ZerosStop` | `ControlSpec => []MotionControlInv` | drags are velocities, deceleration is positive (`DragsAssumption`, `DecelAssumption`), `MaxInFlight` is a number |
| `AppProofs!Fades` | `ControlSpec`: only a finger that moves makes the dock faster, each firing of the timer makes it slower | the same |
| `AppProofs!PictureAndDock` | `OSpec => []OrientationInv` | the same; positions are what UIKit names (`PositionsAssumption`) |
| `AppProofs!CallTypes`, `!NeverOrphaned`, `!AlwaysLinked`, `!AlwaysOnScreen` | `CallSpec => []CallTypeOK`, `[]NoOrphanConnection`, `[]CallIsLinked`, `[]CallIsOnScreen` | `NoPeer` is no peer (`PeerAssumption`) |
| `AppProofs!AnswersAreHeard` | `CallSpec`: while Connecting, an answer is owed and there is a delegate to hear it; any answer ends it | the same |
| `RtpSourcesProofs!Types`, `!OneHost`, `!OwnAlwaysThere`, `!Counts` | `Spec => []TypeOK`, `[]OneHostPerSource`, `[]OwnSurvives`, `[]CountsAgree` | `SourcesAssumption`: addresses are records, markers are none of them, finitely many SSRCs |
| `RtpSourcesProofs!NeverTakenOver` | `Spec => NoTakeover` | the same |
| `SourceQueueProofs!Sources` | `QSpec => []SourcesInv` | also `QueueAssumption`: a packet is ahead or late by less than half a round of numbers |
| `SourceQueueProofs!HostsBeside`, `!NotTakenBeside` | `QSpec => [](OneHostPerSource /\ OwnSurvives)`, `QSpec => NoTakeover` | `SourcesAssumption` |
| `SessionPartsProofs!SetUp` | `PSpec => []SetupInv` | `SetupAssumption`: sizes are numbers, the least is below the greatest |
| `SessionPartsProofs!Session` | `PSpec => []RtpSessionInv` | `SourcesAssumption`, `SessionAssumption`: what arrives is RTP packets, reports, names and BYEs |
| `SessionPartsProofs!Silence`, `!WholeSteps` | `PSpec => SilentAfterBYE`, `OneAtATime` | the same |
| `SessionPartsProofs!Building` | `PSpec => []PacketsInv` | `PacketsAssumption`: moduli, sizes and the number of CSRCs are positive |
| `SessionPartsProofs!Naming` | `PSpec => []HostInv` | `HostAssumption`: the loopback is an address, interfaces and DNS tables are lists of addresses and of names, the mark for no name is none |
| `RtcpProofs!ReportsCorrect`, `!RoundsOfReports` | `SSpec => []RtcpReportsInv`, `SSpec => RoundsGetOn` | `SizeAssumption`: sizes are numbers and a header counts at least one block; `BuilderAssumption`: finitely many sources, lengths are numbers, intervals are positive and divide the period they are counted in |
| `RtcpProofs!Scheduler` | `SSpec => []SchedulerInv` | `SchedulerAssumption`: intervals, factors and members are positive numbers, there are a least and a greatest factor; `MaxSilenceAssumption`: silence is counted as far as some interval |
| `TransmissionProofs!TransmitterCorrect` | `TSpec => []TransmitterInv` | `HashAssumption`: memory is a finite set of addresses, the null pointer none of them, and every key has a bucket; `TransmitterAssumption`: keys are hosts, groups and destinations, port 0 is no port, no more objects are allocated than there are addresses, a pipe holds at least a byte |
| `TransmissionProofs!FilterImplemented` | `TSpec => FilterAsAsked` | the same |
| `TransmissionProofs!PollPassesAccepted` | `TSpec => PolledIfAccepted` | the same |
| `TransmissionProofs!NoLostWakeUp` | `Ext!Spec => []Ext!ExternalTransmitterInv` | a pipe holds at least a byte |

The theorems about `ASpec`, `LSpec`, `OSpec`, `QSpec`, `PSpec`, `SSpec` and `TSpec` are about
the compositions the runs check. The others are about the specification of one
part; in the run's composition that part takes the same actions and is changed
by no other.

*Ring buffer.* `Inv` is inductive: a push in progress fits into the space that
was free when it began (the reader can only free more), a pop into what was used,
and what either has copied so far is still so. `NoDataRace` alone is not: that
two copies are disjoint now says nothing of the next call. From `PushFits` and
`PopFits` the slots of the two copies are distinct because their offsets from the
read index are, and less than the capacity apart. The refinement maps the queue
to `Contents`, the slots between the indices; only the steps that publish an
index change it, by the lemmas on index arithmetic.

*RTP stream.* `IInv` says that what the receiver keeps are packets of the stream
under their numbers, that the frame being put together is a gapless run of
unmarked packets which ends before the expected number and starts where a frame
does (or at the first packet received), and that the frames delivered are whole.
`OrderInv` adds that the frame being put together begins after the newest one
delivered, unless the receiver has gone back. That the numbers do not wrap is
needed: the first row of the table above is a counterexample without it.
For `NothingSkipped`, `TameInv` says what a tame network makes of the receiver:
the packet it waits for is in the network, each packet kept is one that has
overtaken it, and so they are at most the difference ahead and no more than the
counter may count. `Patient` is needed: where the buffer is smaller, the counter
gives up a packet that the difference would have waited for.
For `StallBounded`, `StableInv` follows the receiver through its wait on the
stable network. First come m packets with gaps that the bad network has left,
each of which may be thrown away; from then on one of every `FrameFragments`
packets is marked (`MarkedWithin`), and the receiver is in one of three places:
in its first wait for the counter (`FirstRound`), in the second one that follows
if the marked packet it skipped to had the highest number (`SecondRound`: the
number behind it, 65536, never comes), or in front of the number it waits for
(`AboutToInsert`). `LongRounds` keeps the second wait from ending at the highest
number once more.

*Audio.* Recording: `Threads` says who holds the lock and that the encoder waits
for the sending queue, so that what is ready never changes under it. `Whole`,
without a failed rendering, says that the samples sent, those the encoder has
ready and those in the buffer follow each other, that the last are those captured
last without a gap, wherever in its memory, and that what was sent ends with a
frame. Playback: `PInv` counts the samples played (`Reached`) and says that the
buffer goes on there and what waits in the decoder after it; the lemmas are
about `FIFOBuffer`: rewinding and growing keep what is between position and end.

*Video and latency.* `TypeInv` says that every block that has ended, is under way
or waits to be dispatched has a frame of its own. `CloseInv` adds that the send
queue holds at most one block, that no packet is of a later frame than that block
or than the frame encoded last, and that neither the block nor any packet is of
a frame between a packet's own and the one its data is of. `ProbeInv` says that
pings have begun one after the other, the last at `pingSendTime`; a pong that
answers the last ping is measured against its own time even when it comes twice,
because the time it is compared with can only be of a later ping.

*Recording.* `DevicesAgree` speaks of the moment when no packet is on its way. In
between, as long as taps have not crossed, `AnswersInv` says that the users take
turns and that the last packet under way to a device, or what that one shows if
there is none, is the flag of the other whenever that one is not about to answer.

*Dock.* `ZerosLast`: once zeros are sent they are the last packet on the way, or
have arrived and stopped the dock, unless it has missed something since it last
did what it was told (`obeys`). A dock that has not is at rest, too, while it is
waited for and while there is no call.

*Orientation.* `RightWhenTold` speaks of moments without news on its way.
In between, `PictureInv` says that the last orientation among the packets under
way, or the one heard if there is none, is how the peer is held (`LastTold`), and
that the picture is turned where the two orientations this device knows of ask
for it and not where they forbid it (`TurnedRight`). The rotation is toggled from
what is shown now, so the second part is not obvious: it holds through every
toggle because no pair of orientations does both.

*Call.* The three invariants are inductive together with the types: each handler
either restarts the session, after which there are no links, or changes links
under a guard that says whether a game screen stands.

*Source table.* `TableInv` gives each entry its type and its hosts. The lemmas
are about the operators: a method that obtains an entry for a sender extends the
table (`Extends`), one that changes an entry keeps the others (`KeepsOthers`), an
address is only set where there was none and only to one of the same host. Our
own entry is the one no timeout and no BYE removes. `NoTakeover` is an action
property: a sender elsewhere than the entry's addresses collides with it in every
method (`ElsewhereCollides`), and whatever else a packet stores is stored under
another SSRC (`ItemSpares`, `CSRCSpares`, `RTPSpares`). `Counted` relates each
counter to the set it counts; a method is shown to add to the counter what it
adds to the set, entry by entry, and a timeout to take away the cardinality of
what it removes.

*A source's packets.* `QueueInv` relates the 16-bit numbers in the list to the
packets' places in the stream: after probation they differ by a constant, on
probation all are of one round. A packet ahead or late by less than half a round
extends to its place. Two things break this: a packet of an old round that comes
after the new one has begun (`orderly` is false then), which is the disagreement
`LateNumbersFit`, and a round that ends among the packets kept on probation
(`split`), which is `ProbationFits`: those are listed under the numbers they came
with, and only number 0 is extended to a second round. Wraps after probation, and
the one at which number 0 ends it, are within the theorem.

*Session.* Which thread holds which lock and what is in work follows from where
the threads are (`WhereInv`). `OwnInv` says that the builder's SSRC is that of
our entry but between the two assignments of a change, when it is in no entry, or
after one that failed, when there is no entry of ours; `ByeInv` that no BYE was
sent for it and that one that waits is scheduled, or unscheduled for good after
an error. `SilentAfterBYE` follows for RTP packets, reports and pongs, all sent with
the SSRC of the moment; an APP packet of the main thread may bear an earlier one. That a thread's step on the table is a step
of `RtpSources` uses the lemmas of `RtpSourcesProofs`. `WhereInv` also rules
out a circle of threads that wait for one another: the thread that sends holds
the builder only where it waits for nobody, and the poll thread, the only one
that holds the sources across steps, does not wait for them then
(`NobodyInACircle`). `SendGoesOn` is the same hazard as TLC sees it, by
`ENABLED`.

*Set-up.* What is held and which of the four sizes are equal is a function of the
step `Create` has come to (`HeldInv`, `SizesInv`); each failure's clean-up leads
back to what nothing held demands. Reports refused are those built before the
size was lowered.

*Packets.* The list of CSRCs has no member twice and is the set asked for. What
is parsed from a packet's cells is what it was built from by counting: where each
field begins follows from the number of CSRCs and whether there is an extension.
`SentInv` relates the numbers and times of consecutive packets modulo the width.

*Scheduler.* `CalmWithinInterval`: the time spent calm and what is left of the
interval are together no longer than the longest interval, through
reconsideration, which draws anew from the same start. `SilenceCounted`: the
scheduler takes the time since the last packet for no more than it was, so that
a packet is never too early. Both rest on arithmetic of shares and products,
stated as lemmas.

*Reports.* What a packet holds is counted by recursive functions (`SizeUpTo`,
`PickedUpTo`). The induction theorems of the library take an operator as
parameter, which the provers cannot supply; that such a function exists, that
its equations determine it (`StepByStep`, `SizeUnique`, `PickedUnique`), and what it adds
up to for a list continued (`SizeConcat`, `SizePrefix`), is shown by the smallest
counterexample instead, as the order of the numbers is well-founded. From there
`BegunParses` counts: a compound is written chunk by chunk (`Held` members are in
the first k chunks), every chunk is a packet whose length is a number of words,
the bytes written are those that were counted while building, and the parser,
which goes from length to length, accepts them. `FillIs` is the builder's loop over
the sources: what it adds is a run of the list, within the size, and each source
it adds was counted and is counted no more. `BuilderInv` is inductive: the list
has no source twice, a source heard since the last packet is counted (or was
sent before the first), and a packet that is complete fits. `RoundsGetOn`
follows step by step from the same lemmas: a packet with reports either covers a
source not yet done or goes on to the next round of items, one that continues
the items adds an item not yet said (`SayKeeps`), and a source's count is cleared
only where a block with it is put into the packet (`FirstFill`, `SecondFill`).
That those left out come first: the blocks are put in for sources due and not
done (`FillWaits`), and the second run of the builder over the list, which clears
the flags, is reached only where the first has come to its end (`FillsAll`: room
for more blocks than there are sources, and not full), so that it left out none
that was due (`AllPicked`).

*Host name.* The names found are collected address by address and alias by
alias, none twice (`HostnamesAre`), and the list holds the name of every address that has
one, so that a name with a dot is found if there is one. What has been told is
`localhostname`, which, once set, stays until `Destroy`.

*Hash tables.* That a table is linked is not inductive as `Linked` states it: it
follows links from an element to the next and says nothing of where they lead in
the end. `Sound` says instead that there is a sequence for the list of all
elements and one for each chain (`Threaded`: every element once, each linked to
the one before and the one behind), that the list holds every element allocated
and a chain those whose key has its hash. Linking an element in puts it at the
front of its chain and at the end of the list, unlinking it takes it out of both
(`PrependToThread` and its neighbours), and so `AddElement`, `DeleteElement` and
`SetElement` change the set of entries (`Entries`) by the pair they should
(`AddElementIs`, `DeleteElementIs`, `SetElementIs`).

*Transmitters.* `TablesInv` is `Sound` for the three tables, the agreement of the
destinations with those asked for and of the groups with both sockets' in the
kernel. `WaitsInv` is what `AbortReadable` needs: the thread between `select` and
the lock was woken by a byte that is still there, as `Destroy` keeps the pipe
while it waits, and nobody waits in a transmitter destroyed but then. For
`FilterAsAsked` each method on the list is shown to change the set of addresses
that the flags and exceptions stand for (`Selected`) by one address or by all
ports of one host, or to clear it (`FilterStep`). For `PolledIfAccepted`, what is
picked from two lists one behind the other is what is picked from each
(`PickedConcat`), by induction over their length, as in *Reports*, and a poll is
split into what it reads and what it looks at of either socket (`PollReads`,
`PollIs`). The methods
for IPv6 and of the fake transmitter unfold to those of IPv4 (`SixMethods`,
`FakeMethods`), so that the same lemmas serve three transmitters.

*External transmitter.* `NothingWaitsUnnoticed` (a thread in `select` while
packets are in the list has a byte in the pipe) is inductive with `Between`: the
list of a destroyed transmitter is empty, and nobody waits in one except while
`Destroy` waits for him, so that `Create` cannot meet an old wait.

Only model-checked:

- Liveness (`Recovers`, `AttemptResolves`, `Drains`, `Stops`, `PictureGetsRight`,
  `StopsInTheEnd`, `EveryFrameSent`) and `SendGoesOn`, which speaks of `ENABLED`:
  out of the prover's reach.

Of each liveness property the part that needs no fairness is proved. For four it
is a number that every step brings down but those of the world outside; what
remains for TLC is that some step is taken as long as the number is not zero.

- `Drains`: `ComesToRest`. `StepsLeft` counts what a callback still leads to: its
  room is filled and given back, a block waits, encodes and dispatches, a packet
  is sent. `FrameAwaited` says that a whole frame in the record buffer has
  a callback or a block on the way to it.
- `StopsInTheEnd`: `Quiesces`, where `Work` is what the commands and answers under
  way in both directions, the execution of a command and the stops not yet
  finished can still lead to, whether or not taps have crossed. An answer causes no command, so two devices cannot answer each other
  for ever.
- `EveryFrameSent`: `FramesLeaveSent`, where `ToSend` is the steps until both queues
  are empty. A frame leaves them only with a call to send a packet of it, the
  last one or one that failed: none is dropped between encoder and network.
- `Stops`: `Fades`, where `Speed` is the sum of the two velocities about to be sent;
  when it is 0 `ZerosStop` says what the dock does.
- `AttemptResolves`: `AnswersAreHeard`; by `Listening`, the session has its delegate
  whenever the app is active or an attempt is made.
- `Recovers`: `StallsEnd` bounds the packets thrown away in a row.
- `PictureGetsRight`: `PictureAndDock`; what remains is that the news arrives.

## 5. Not modelled

In the app:

- Payload bytes and their lengths, and so the frame buffer's capacity in
  `InsertPacketIntoFrame` (`RtpSessionEx.cpp:228`); the contents of pictures and
  sound, codecs, shaders; the configuration of AVFoundation, Core Audio and
  OpenGL; the lobby's table; pinch and zoom; `RingBuffer::resize`, which nobody
  calls; 30 ms frames of iLBC, which the encoder never makes.
- The statistics on the screen: frames and bytes a second and the share of
  packets lost (`VideoInputOutput.mm:126-141`) are counters that nothing reads.
- The first moments of a session: `CreateInstance` starts the poll thread before
  the callbacks are set. `LatencyProbe` has the callbacks missing for pongs; that
  the C++ objects are published to another thread without a lock is undefined
  behaviour with no outcome a test of ours could name.
- A second call: the RTP sessions of the first are never deleted and their
  sockets stay bound, so that `CreateInstance` ends in an assertion
  (`VideoInputOutput.mm:222`); timers retain their targets, so that controllers
  of the first call go on. Nothing is left there to have a property.

In the library:

- Of the fake transmitter a callback that calls it again while it sends, its
  groups, which cannot be joined, and its wait, which is an error; jthread,
  iLBC, libvpx.
- Jitter, loss and round-trip figures, the walk through the sources
  (`GotoNextSource`), note timeouts, private SDES items, unknown RTCP packets:
  values passed on that no control depends on.
- Changes of the RTCP bandwidth and of the average packet size; the scheduler's
  time is rounded to ticks. Setters that only pass a value on.
- Socket options, and why the creation of sockets fails; in which of the
  platforms' ways the addresses of the interfaces are found. That leaving a
  group fails: the code does not look at it. What `FIONREAD` returns is taken to
  be the length of the next datagram.
- In code that is modelled: `Destroy`'s second unlock of a mutex already released; memory that
  `SetReceiveMode` does not free; `Inject`'s failed allocation, which frees
  the host name; `GetTransmissionInfo` without a check of `created`; reads past
  the end of truncated packets in `ParseRawPacket`; `SetMaximumPacketSize` of a
  packet builder that was not initialised.

## 6. Plan

Done: the app's components in order of importance (ring buffer, RTP stream and
recovery, call, audio, dock, recording, video), then the latency probe, the
orientation with the start of a call, playback, and of the library the source
table, the reports and their scheduler, the session and the transmitters; the
theorems of section 4.

Left, in this order:

1. An end of a call that deletes the RTP sessions, once the code has one, and
   the second call after it.
2. The figures of reports (loss, jitter) under wrap-around, on `SourceQueue`.
