---------------------------- MODULE Orientation ----------------------------
(***************************************************************************)
(* The start of a call (RemoteControlGalileo's networkControllerIsReady)   *)
(* and the way up of the remote picture: UserInputHandler tells the video  *)
(* view and the peer how the device is held, when that changes and every   *)
(* five seconds, and VideoViewController turns the picture by what it      *)
(* knows of both.                                                          *)
(*                                                                         *)
(* This device shows, the peer is heard: what this one tells the peer goes *)
(* through the same code the other way and changes nothing here.  Packets  *)
(* are neither lost nor reordered once a device is connected.  The picture *)
(* shares nothing with the control of the dock: `watched` says which of    *)
(* the two is looked at.                                                   *)
(***************************************************************************)
EXTENDS MotionControl

CONSTANTS Positions   \* how a device can be held, but Unknown

ASSUME PositionsAssumption ==
    Positions \subseteq {"LandscapeLeft", "LandscapeRight", "Portrait",
                         "PortraitUpsideDown", "FaceUp", "FaceDown"}

VARIABLES
    watched,                  \* "control" or "picture"
    ready, peerReady,         \* the connection is alive on this side, the other
    held, peerHeld,           \* UIDevice's orientation: how they are held
    currentLocalOrientation,
    currentRemoteOrientation,
    isRotated180,             \* and videoView's transform: half a turn or none
    labels,                   \* the orientation the labels are laid out for
    packets,                  \* from the peer: orientations and its address
    streams                   \* "video" and "audio", those that are started

here    == <<currentLocalOrientation, isRotated180>>
shows   == <<here, currentRemoteOrientation>>
picture == <<ready, peerReady, held, peerHeld, shows, labels, packets, streams>>

\* FORCE_REAR_CAMERA is NO: left and right are not swapped.
Unsent == {"FaceUp", "FaceDown", "Unknown"}
Landscape == {"LandscapeLeft", "LandscapeRight"}

\* The orientations of which the picture would be upside down,
Disparity(mine, theirs) ==
    \/ mine \in Landscape /\ theirs = mine
    \/ {mine, theirs} = {"Portrait", "PortraitUpsideDown"}

\* and those of which it is not.
Agreement(mine, theirs) ==
    \/ {mine, theirs} = Landscape
    \/ mine \in {"Portrait", "PortraitUpsideDown"} /\ theirs = mine

PictureInit ==
    /\ ready = FALSE /\ peerReady = FALSE
    /\ held = "Unknown" /\ peerHeld = "Unknown"
    /\ currentLocalOrientation = "Unknown" /\ currentRemoteOrientation = "Unknown"
    /\ isRotated180 = FALSE
    /\ labels = "Unknown"
    /\ packets = << >>
    /\ streams = {}

-----------------------------------------------------------------------------
\* Mutant of Rotated: what is turned stays turned until the devices agree in
\* landscape.
RotatedUntilLandscape(mine, theirs) ==
    IF isRotated180 THEN {mine, theirs} # Landscape
    ELSE \/ Disparity(mine, theirs)
         \/ theirs = "PortraitUpsideDown" /\ mine \in Landscape

\* localOrRemoteOrientationDidChange.  isLocked is never set: nobody calls
\* lockOrientationResponse.
Rotated(mine, theirs) ==
    IF isRotated180 THEN ~Agreement(mine, theirs)
    ELSE \/ Disparity(mine, theirs)
         \/ theirs = "PortraitUpsideDown" /\ mine \in Landscape

LocalOrientationDidChange(o) ==
    /\ currentLocalOrientation' = o
    /\ isRotated180' = Rotated(o, currentRemoteOrientation)

\* What UserInputHandler makes of it, from a notification or the timer.
Noticed(o) == IF o \in Unsent THEN UNCHANGED here ELSE LocalOrientationDidChange(o)

\* The device is turned; both UserInputHandler and VideoViewController hear it.
DeviceTurns(o) ==
    /\ o # held
    /\ held' = o
    /\ Noticed(o)
    /\ labels' = IF o \in Unsent THEN labels ELSE o
    /\ UNCHANGED <<ready, peerReady, peerHeld, currentRemoteOrientation, packets, streams>>

SendOrientationTimer ==
    /\ Noticed(held)
    /\ UNCHANGED <<ready, peerReady, held, peerHeld, currentRemoteOrientation, labels,
                   packets, streams>>

\* networkControllerIsReady takes any orientation.
NetworkControllerIsReady ==
    /\ ~ready
    /\ ready' = TRUE
    /\ LocalOrientationDidChange(held)
    /\ UNCHANGED <<peerReady, held, peerHeld, currentRemoteOrientation, labels, packets, streams>>

-----------------------------------------------------------------------------
(* The same on the peer's side, as far as it sends.                         *)

\* sendOrientationUpdate, lost while there is no connection.
Told(o) ==
    packets' = IF peerReady /\ o \notin Unsent THEN Append(packets, o) ELSE packets

PeerTurns(o) ==
    /\ o # peerHeld
    /\ Len(packets) < MaxInFlight
    /\ peerHeld' = o
    /\ Told(o)
    /\ UNCHANGED <<ready, peerReady, held, shows, labels, streams>>

PeerOrientationTimer ==
    /\ Len(packets) < MaxInFlight
    /\ Told(peerHeld)
    /\ UNCHANGED <<ready, peerReady, held, peerHeld, shows, labels, streams>>

PeerIsReady ==
    /\ ~peerReady
    /\ peerReady' = TRUE
    /\ packets' = packets \o <<peerHeld, "address">>
    /\ UNCHANGED <<ready, held, peerHeld, shows, labels, streams>>

-----------------------------------------------------------------------------
\* remoteOrientationDidChange.
OrientationReceived ==
    /\ packets # << >> /\ Head(packets) # "address"
    /\ packets' = Tail(packets)
    /\ currentRemoteOrientation' = Head(packets)
    /\ isRotated180' = Rotated(currentLocalOrientation, Head(packets))
    /\ UNCHANGED <<ready, peerReady, held, peerHeld, currentLocalOrientation, labels, streams>>

\* ipAddressRecieved of video and audio, which do nothing when they are running.
AddressReceived ==
    /\ packets # << >> /\ Head(packets) = "address"
    /\ packets' = Tail(packets)
    /\ streams' = {"video", "audio"}
    /\ UNCHANGED <<ready, peerReady, held, peerHeld, shows, labels>>

PictureNext ==
    \/ \E o \in Positions : DeviceTurns(o) \/ PeerTurns(o)
    \/ SendOrientationTimer \/ PeerOrientationTimer
    \/ NetworkControllerIsReady \/ PeerIsReady
    \/ OrientationReceived \/ AddressReceived

\* The connection is made, the timers fire and GameKit delivers.
PictureFairness ==
    /\ WF_picture(watched = "picture" /\ NetworkControllerIsReady)
    /\ WF_picture(watched = "picture" /\ PeerIsReady)
    /\ WF_picture(watched = "picture" /\ SendOrientationTimer)
    /\ WF_picture(watched = "picture" /\ PeerOrientationTimer)
    /\ WF_picture(watched = "picture" /\ OrientationReceived)
    /\ WF_picture(watched = "picture" /\ AddressReceived)

-----------------------------------------------------------------------------
\* The control of the dock and the picture, side by side.
ovars == <<controlvars, watched, picture>>

OInit == watched \in {"control", "picture"} /\ ControlInit /\ PictureInit

ONext ==
    /\ UNCHANGED watched
    /\ \/ watched = "control" /\ ControlNext /\ UNCHANGED picture
       \/ watched = "picture" /\ PictureNext /\ UNCHANGED controlvars

OSpec == OInit /\ [][ONext]_ovars /\ ControlFairness /\ PictureFairness

-----------------------------------------------------------------------------
PictureTypeOK ==
    /\ watched \in {"control", "picture"}
    /\ ready \in BOOLEAN /\ peerReady \in BOOLEAN /\ isRotated180 \in BOOLEAN
    /\ {held, peerHeld, currentLocalOrientation, currentRemoteOrientation, labels}
         \subseteq Positions \cup {"Unknown"}
    /\ packets \in Seq(Positions \cup {"Unknown", "address"})
    /\ streams \subseteq {"video", "audio"}

\* Both devices are held so that a picture has a way up: the picture is turned
\* when they disagree and not when they agree, and the labels stand upright.
PictureIsRight ==
    held \notin Unsent /\ peerHeld \notin Unsent =>
        /\ Disparity(held, peerHeld) => isRotated180
        /\ Agreement(held, peerHeld) => ~isRotated180
        /\ labels = held

\* However the devices were turned before and while the call came up, and what
\* was sent before anybody could receive it: when they are held still the
\* picture gets right and stays so, and both streams are started.
PictureGetsRight ==
    <>[][FALSE]_<<held, peerHeld>>
        => <>[](/\ PictureIsRight
                /\ watched = "picture" => streams = {"video", "audio"})

\* Once the peer is connected, and whenever nothing is on its way that says how
\* it is held, the picture is right: no order of turns, timers and packets, not
\* even of those from before the connection, leaves behind a picture upside down.
RightWhenTold ==
    peerReady /\ (\A i \in 1 .. Len(packets) : packets[i] = "address") => PictureIsRight

\* The dock and the picture, side by side.
OrientationInv == MotionControlInv /\ PictureTypeOK /\ RightWhenTold

\* Does not hold: how the picture is turned depends on how the devices are held,
\* and not on how they were ("We dont want any jumping here, so lets just return
\* back only when needed", VideoViewController.mm:444).
RotationIsAFunction ==
    currentLocalOrientation = "LandscapeLeft" /\ currentRemoteOrientation = "Portrait"
        => ~isRotated180
=============================================================================
