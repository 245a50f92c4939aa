--------------------------- MODULE MotionControl ---------------------------
(***************************************************************************)
(* Moving the remote Galileo: UserInputHandler turns a drag on the screen  *)
(* into pan and tilt velocities and sends them to the peer from a timer,   *)
(* the peer's DockConnectorController sets them on its dock.               *)
(*                                                                         *)
(* The packets travel in a GameKit channel that neither loses nor reorders *)
(* them while the call lasts; without a call they are dropped.  A dock     *)
(* keeps turning at the velocity it was last given, and may be pulled off. *)
(* Every call has a handler and a dock controller of its own.              *)
(*                                                                         *)
(* The drag's velocity, scaled and clamped to -100 .. 100, is one of Drags *)
(* and in that range; the byte it travels in holds it unchanged.           *)
(***************************************************************************)
EXTENDS Integers, Sequences

CONSTANTS
    Drags,         \* velocities [pan, tilt] the finger may have
    Decel,         \* LINEAR_DECEL_CONSTANT (20)
    Orientations,  \* orientations the device on the dock is held in
    MaxInFlight    \* bound: packets in the channel

WindowSize == 2    \* MOVING_AVERAGE_WINDOW_SIZE

ASSUME DragsAssumption == Drags \subseteq [pan : -100 .. 100, tilt : -100 .. 100]
ASSUME DecelAssumption == Decel \in Nat \ {0}
ASSUME MaxInFlightAssumption == MaxInFlight \in Nat
ASSUME OrientationsAssumption ==
    Orientations \subseteq {"LandscapeLeft", "LandscapeRight", "Portrait",
                            "PortraitUpsideDown", "FaceUp"}

VARIABLES
    gesture,           \* the MoveRecogniser's gesture: idle, began or changed
    velocities,        \* panVelocities and tiltVelocities
    average,           \* panAverage and tiltAverage
    timerOn,           \* sendTimer exists
    lastSentAreZeros,  \* the user's device has told the dock to stop
    inCall,            \* GKSessionManager has a currentConfPeerID
    channel,           \* control packets on their way
    orientation,       \* the orientation of the device on the dock
    connected,         \* its dock: waited for, found ("yes") or lost
    dock,              \* the dock's target velocities
    obeys              \* history: the dock has missed nothing since it last
                       \* did what it was told

user == <<gesture, velocities, average, timerOn, lastSentAreZeros>>
way == <<inCall, channel, obeys>>
remote == <<orientation, connected, dock>>
controlvars == <<user, way, remote>>

Stopped == [pan |-> 0, tilt |-> 0]

ControlInit ==
    /\ gesture = "idle"
    /\ velocities = << >>
    /\ average = Stopped
    /\ timerOn = FALSE
    /\ lastSentAreZeros = TRUE
    /\ inCall = TRUE /\ channel = << >> /\ obeys = TRUE
    /\ orientation \in Orientations
    /\ connected = "waiting"
    /\ dock = Stopped

-----------------------------------------------------------------------------
(* handleTouchMove, called in each state of the gesture.                    *)

GestureBegins ==
    /\ inCall /\ gesture = "idle"
    /\ gesture' = "began"
    /\ timerOn' = TRUE
    /\ average' = Stopped
    /\ UNCHANGED <<velocities, lastSentAreZeros, way, remote>>

\* Integer division as C does it, towards zero.
Quotient(a, b) == IF a >= 0 THEN a \div b ELSE -((-a) \div b)

\* calculateMovingAverage, of a window of one or two velocities.
MovingAverage(window) ==
    LET oldest == window[1]
        newest == window[Len(window)]
    IN IF Len(window) = 1 THEN newest
       ELSE [pan |-> Quotient(oldest.pan + newest.pan, 2),
             tilt |-> Quotient(oldest.tilt + newest.tilt, 2)]

Newest(window) ==
    IF Len(window) > WindowSize THEN Tail(window) ELSE window

\* The finger moves, or touchTimeOut reports that it rests.
GestureMoves(drag) ==
    /\ gesture # "idle"
    /\ gesture' = "changed"
    /\ velocities' = Newest(Append(velocities, drag))
    /\ average' = MovingAverage(velocities')
    /\ UNCHANGED <<timerOn, lastSentAreZeros, way, remote>>

\* finishGesture sets the state to Ended and at once to Failed: UIKit may or
\* may not call the handler in between.
GestureEnds ==
    /\ gesture # "idle"
    /\ gesture' = "idle"
    /\ velocities' \in {velocities, << >>}
    /\ UNCHANGED <<average, timerOn, lastSentAreZeros, way, remote>>

-----------------------------------------------------------------------------
(* sendTimerFire.                                                           *)

\* Mutant of Slower: it overshoots zero.
SlowerOvershoots(v) == IF v = 0 THEN 0 ELSE IF v > 0 THEN v - Decel ELSE v + Decel

Slower(v) == IF v > Decel THEN v - Decel ELSE IF v < -Decel THEN v + Decel ELSE 0

\* sendPacket: without a peer, a packet is dropped and nobody is told.
SendControlPacket(packet) ==
    IF inCall THEN channel' = Append(channel, packet) /\ UNCHANGED obeys
              ELSE obeys' = FALSE /\ UNCHANGED channel

\* Mutant of SendGalileoControl: a command with one zero is taken for zeros.
SendGalileoControlEither ==
    IF lastSentAreZeros /\ average = Stopped
    THEN UNCHANGED <<channel, obeys, lastSentAreZeros>>
    ELSE /\ SendControlPacket(average)
         /\ lastSentAreZeros' = (average.pan = 0 \/ average.tilt = 0)

\* sendGalileoControlWithPan: "zeros are enough to be sent once".
SendGalileoControl ==
    IF lastSentAreZeros /\ average = Stopped
    THEN UNCHANGED <<channel, obeys, lastSentAreZeros>>
    ELSE /\ SendControlPacket(average)
         /\ lastSentAreZeros' = (average = Stopped)

\* The velocity just sent is lowered for the next time.
SendTimerFire ==
    /\ timerOn
    /\ Len(channel) < MaxInFlight
    /\ SendGalileoControl
    /\ average' = [pan |-> Slower(average.pan), tilt |-> Slower(average.tilt)]
    /\ UNCHANGED <<gesture, velocities, timerOn, inCall, remote>>

-----------------------------------------------------------------------------
(* The device on the dock.                                                  *)

PanModifier == IF orientation = "LandscapeLeft" THEN 1 ELSE -1
IsLandscape == orientation \notin {"Portrait", "PortraitUpsideDown"}

\* parseControlPacket and galileoControlCommandRecievedWithPan.
ControlCommandReceived ==
    /\ channel # << >>
    /\ channel' = Tail(channel)
    /\ IF connected = "yes"
       THEN /\ dock' = [pan  |-> Head(channel).pan * PanModifier,
                        tilt |-> IF IsLandscape THEN Head(channel).tilt ELSE dock.tilt]
            /\ obeys' = (dock'.tilt = Head(channel).tilt)
       ELSE /\ obeys' = (obeys /\ connected = "waiting")
            /\ UNCHANGED dock
    /\ UNCHANGED <<user, inCall, orientation, connected>>

\* The GalileoControl library has found the dock.
DockConnects ==
    /\ connected = "waiting"
    /\ connected' = "yes"
    /\ UNCHANGED <<user, way, orientation, dock>>

\* The dock is pulled off.  The notification is for galileoDidDisconnect, the
\* method is called GalileoDidDisconnectNotification: waitForConnection is not
\* called again, and the exception ends the application if nobody catches it.
DockDisconnects ==
    /\ connected = "yes"
    /\ connected' = "lost"
    /\ UNCHANGED <<user, way, orientation, dock>>

DeviceRotates(o) ==
    /\ o # orientation
    /\ orientation' = o
    /\ UNCHANGED <<user, way, connected, dock>>

-----------------------------------------------------------------------------
(* The call.                                                                *)

\* The connection breaks, or either user hangs up: what is on its way is lost.
\* The send timer keeps the handler alive.
CallEnds ==
    /\ inCall
    /\ inCall' = FALSE
    /\ channel' = << >>
    /\ obeys' = (obeys /\ lastSentAreZeros /\ channel = << >>)
    /\ UNCHANGED <<user, remote>>

\* peerSelected on both devices: a new RemoteControlGalileo with a handler and a
\* DockConnectorController, which waits for the dock.
CallBegins ==
    /\ ~inCall
    /\ inCall' = TRUE
    /\ gesture' = "idle" /\ velocities' = << >> /\ average' = Stopped
    /\ timerOn' = FALSE /\ lastSentAreZeros' = TRUE
    /\ connected' = (IF connected = "lost" THEN "waiting" ELSE connected)
    /\ UNCHANGED <<channel, obeys, orientation, dock>>

ControlNext ==
    \/ GestureBegins
    \/ \E drag \in Drags : GestureMoves(drag)
    \/ GestureEnds
    \/ SendTimerFire
    \/ ControlCommandReceived
    \/ DockConnects \/ DockDisconnects
    \/ \E o \in Orientations : DeviceRotates(o)
    \/ CallEnds \/ CallBegins

\* The run loop fires the timer and GameKit delivers what is sent; nothing is
\* assumed of the users.
ControlFairness == WF_controlvars(SendTimerFire) /\ WF_controlvars(ControlCommandReceived)

ControlSpec == ControlInit /\ [][ControlNext]_controlvars /\ ControlFairness

-----------------------------------------------------------------------------
Velocities == [pan : -100 .. 100, tilt : -100 .. 100]

ControlTypeOK ==
    /\ gesture \in {"idle", "began", "changed"}
    /\ velocities \in Seq(Drags) /\ Len(velocities) <= WindowSize
    /\ average \in Velocities
    /\ timerOn \in BOOLEAN /\ lastSentAreZeros \in BOOLEAN
    /\ channel \in Seq(Velocities) /\ Len(channel) <= MaxInFlight
    /\ orientation \in Orientations
    /\ connected \in {"waiting", "yes", "lost"}
    /\ inCall \in BOOLEAN /\ obeys \in BOOLEAN
    /\ dock \in Velocities

\* When the user's device has stopped sending, because it has told the dock to
\* stop, and that has arrived, the dock stands still -- unless it has missed a
\* command: it was pulled off, the call was gone, or the device was in portrait.
ZerosAreEnough ==
    lastSentAreZeros /\ channel = << >> /\ obeys => dock = Stopped

\* A dock does not keep turning when nobody touches the screen any more, unless
\* it has missed a command, and not before it has obeyed the next.
Stops == <>[](gesture = "idle") => <>[](dock = Stopped \/ ~obeys)

\* Types and bounds hold, and a zero is enough.
MotionControlInv == ControlTypeOK /\ ZerosAreEnough

\* Does not hold: UserInputHandler.m:349, "zeros are enough to be sent once".
\* They are lost when the call ends or the dock is pulled off in a drag, and
\* half ignored in portrait; nothing sends them again, nor does the next call.
ZerosAreEnoughOnce ==
    lastSentAreZeros /\ channel = << >> => dock = Stopped

\* Does not hold: GalileoDidDisconnectNotification waits for the dock again
\* (DockConnectorController.m:38-41).
DockIsAwaited == connected # "lost"
=============================================================================
