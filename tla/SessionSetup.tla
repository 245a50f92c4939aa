---------------------------- MODULE SessionSetup ----------------------------
(* How RTPSession of the jrtp library is put together and taken apart, and   *)
(* how its packet size is changed (rtpsession.cpp with the Create and Init   *)
(* of its parts). Create makes one part after the other; the step that fails *)
(* releases what was made before, each in its own words. The packet size is  *)
(* kept in four places, which the poll thread and a sending thread use while *)
(* the main thread changes them one after the other.                         *)
EXTENDS Naturals, FiniteSets

CONSTANTS Sizes, MinSize, MaxSize   \* RTP_MINPACKETSIZE, RTPUDPV4TRANS_MAXPACKSIZE

VARIABLES
  held,               \* what the session's parts hold
  created,
  deletetransmitter,  \* the transmitter is the session's own
  step,               \* of the main thread: what Create or
                      \* SetMaximumPacketSize does next, "idle" if neither
  asked,              \* the size they were called with
  maxpacksize,        \* the session's
  transsize,          \* of the transmitters: its own and the user's
  buildersize,        \* of the RTP packet builder
  rtcpsize,           \* of the RTCP packet builder
  poll,               \* the poll thread: "no", "wait", "send", "error" (ended)
  report,             \* size of the report it has built
  refused,            \* history: a packet was refused as too big
  lowered             \* history: a size smaller than before was asked for

sizes   == <<maxpacksize, transsize, buildersize, rtcpsize>>
history == <<refused, lowered>>
vars == <<held, created, deletetransmitter, step, asked, sizes, poll, report, history>>

Transmitters == {"own", "user"}
trans == IF deletetransmitter THEN "own" ELSE "user"

Parts ==
  {"transmitter", "rtpsock", "rtcpsock", "pipe",      \* the transmitter's
   "packetbuilder", "ownssrc", "rtcpbuilder", "pollthread"}

(* A user's transmitter has been created with a size it allows. *)
Init ==
  /\ held = {} /\ created = FALSE /\ deletetransmitter = FALSE
  /\ step = "idle" /\ asked = MinSize
  /\ maxpacksize = MinSize /\ buildersize = MinSize /\ rtcpsize = MinSize
  /\ transsize = [t \in Transmitters |-> MinSize]
  /\ poll = "no" /\ report = MinSize
  /\ refused = FALSE /\ lowered = FALSE
-----------------------------------------------------------------------------
(* Create. *)
Go(next, made) == step' = next /\ held' = held \union made
Fail(released) == step' = "idle" /\ held' = held \ released

OnlyParts == UNCHANGED <<created, deletetransmitter, asked, sizes, poll, report, history>>

(* Deleting the transmitter destroys it, which closes what it has open. *)
OwnTransmitter ==
  IF deletetransmitter THEN {"transmitter", "rtpsock", "rtcpsock", "pipe"} ELSE {}

CreateOwnTransmitter(size) ==
  /\ ~created /\ step = "idle"
  /\ asked' = size /\ maxpacksize' = size
  /\ IF size < MinSize THEN step' = "idle" /\ UNCHANGED held
                       ELSE Go("rtpsock", {"transmitter"})
  /\ UNCHANGED <<created, deletetransmitter, transsize, buildersize, rtcpsize,
                 poll, report, history>>

UseUsersTransmitter(size) ==
  /\ ~created /\ step = "idle"
  /\ asked' = size /\ maxpacksize' = size
  /\ IF size < MinSize \/ size > MaxSize
     THEN step' = "idle" /\ UNCHANGED <<transsize, deletetransmitter>>
     ELSE /\ step' = "packetbuilder"
          /\ transsize' = [transsize EXCEPT !["user"] = size]
          /\ deletetransmitter' = FALSE
  /\ UNCHANGED <<held, created, buildersize, rtcpsize, poll, report, history>>

RTPSocket ==
  /\ step = "rtpsock"
  /\ Go("rtcpsock", {"rtpsock"}) \/ Fail({"transmitter"})
  /\ OnlyParts

RTCPSocket ==
  /\ step = "rtcpsock"
  /\ Go("bind", {"rtcpsock"}) \/ Fail({"rtpsock", "transmitter"})
  /\ OnlyParts

(* Four options and two binds, each with its own way out. *)
OptionsAndBind ==
  /\ step = "bind"
  /\ Go("pipe", {}) \/ Fail({"rtpsock", "rtcpsock", "transmitter"})
  /\ OnlyParts

CreateAbortDescriptors ==
  /\ step = "pipe"
  /\ Go("size", {"pipe"}) \/ Fail({"rtpsock", "rtcpsock", "transmitter"})
  /\ OnlyParts

(* Mutant: the pipe is forgotten. *)
CheckSizeKeepsPipe ==
  /\ step = "size"
  /\ IF asked > MaxSize
     THEN /\ Fail({"rtpsock", "rtcpsock", "transmitter"})
          /\ UNCHANGED <<transsize, deletetransmitter>>
     ELSE /\ Go("packetbuilder", {})
          /\ transsize' = [transsize EXCEPT !["own"] = asked]
          /\ deletetransmitter' = TRUE
  /\ UNCHANGED <<created, asked, maxpacksize, buildersize, rtcpsize, poll, report, history>>

CheckSize ==
  /\ step = "size"
  /\ IF asked > MaxSize
     THEN /\ Fail({"rtpsock", "rtcpsock", "pipe", "transmitter"})
          /\ UNCHANGED <<transsize, deletetransmitter>>
     ELSE /\ Go("packetbuilder", {})
          /\ transsize' = [transsize EXCEPT !["own"] = asked]
          /\ deletetransmitter' = TRUE
  /\ UNCHANGED <<created, asked, maxpacksize, buildersize, rtcpsize, poll, report, history>>

(* Init fails when it is called twice, which it never may be. *)
InitPacketBuilder ==
  /\ step = "packetbuilder"
  /\ \/ /\ "packetbuilder" \notin held
        /\ Go("ownssrc", {"packetbuilder"}) /\ buildersize' = asked
     \/ Fail(OwnTransmitter) /\ UNCHANGED buildersize
  /\ UNCHANGED <<created, deletetransmitter, asked, maxpacksize, transsize, rtcpsize,
                 poll, report, history>>

CreateOwnSSRC ==
  /\ step = "ownssrc"
  /\ \/ "ownssrc" \notin held /\ Go("mode", {"ownssrc"})
     \/ Fail({"packetbuilder"} \union OwnTransmitter)
  /\ OnlyParts

(* The receive mode, then the CNAME, then Init of the RTCP packet builder *)
ReceiveModeAndCNAME ==
  /\ step = "mode"
  /\ Go("rtcpbuilder", {}) \/ Fail({"packetbuilder", "ownssrc"} \union OwnTransmitter)
  /\ OnlyParts

InitRTCPBuilder ==
  /\ step = "rtcpbuilder"
  /\ \/ /\ "rtcpbuilder" \notin held
        /\ Go("scheduler", {"rtcpbuilder"}) /\ rtcpsize' = asked
     \/ Fail({"packetbuilder", "ownssrc"} \union OwnTransmitter) /\ UNCHANGED rtcpsize
  /\ UNCHANGED <<created, deletetransmitter, asked, maxpacksize, transsize, buildersize,
                 poll, report, history>>

(* Three parameters that may be out of range, then the mutexes *)
Scheduler ==
  /\ step = "scheduler"
  /\ \/ Go("pollthread", {})
     \/ Fail({"packetbuilder", "ownssrc", "rtcpbuilder"} \union OwnTransmitter)
  /\ OnlyParts

StartPollThread ==
  /\ step = "pollthread"
  /\ \/ Go("created", {"pollthread"}) /\ poll' = "wait"
     \/ /\ Fail({"packetbuilder", "ownssrc", "rtcpbuilder"} \union OwnTransmitter)
        /\ UNCHANGED poll
  /\ UNCHANGED <<created, deletetransmitter, asked, sizes, report, history>>

(* The poll thread is already running. *)
Created ==
  /\ step = "created"
  /\ created' = TRUE /\ step' = "idle"
  /\ UNCHANGED <<held, deletetransmitter, asked, sizes, poll, report, history>>

(* Destroy, or BYEDestroy. *)
Destroy ==
  /\ created /\ step = "idle"
  /\ held' = held \ ({"pollthread", "packetbuilder", "rtcpbuilder", "ownssrc"}
                       \union OwnTransmitter)
  /\ created' = FALSE /\ poll' = "no"
  /\ refused' = FALSE /\ lowered' = FALSE
  /\ UNCHANGED <<deletetransmitter, step, asked, sizes, report>>
-----------------------------------------------------------------------------
(* SetMaximumPacketSize: first the transmitter, *)
SetMaximumPacketSize(size) ==
  /\ created /\ step = "idle" /\ size >= MinSize
  /\ asked' = size
  /\ IF size > MaxSize THEN UNCHANGED <<step, transsize>>
     ELSE step' = "resize" /\ transsize' = [transsize EXCEPT ![trans] = size]
  /\ lowered' = (lowered \/ (size <= MaxSize /\ size < maxpacksize))
  /\ UNCHANGED <<held, created, deletetransmitter, maxpacksize, buildersize, rtcpsize,
                 poll, report, refused>>

(* then, with the builder lock, the two builders,                            *)
ResizeBuilders ==
  /\ step = "resize"
  /\ step' = "idle"
  /\ buildersize' = asked /\ rtcpsize' = asked
  /\ maxpacksize' = asked
  /\ UNCHANGED <<held, created, deletetransmitter, asked, transsize, poll, report, history>>

(* or, when there is no memory for the packet builder's new buffer, nothing  *)
(* but the transmitter back.                                                 *)
ResizeFails ==
  /\ step = "resize"
  /\ step' = "restore"
  /\ UNCHANGED <<held, created, deletetransmitter, asked, sizes, poll, report, history>>

RestoreTransmitter ==
  /\ step = "restore"
  /\ step' = "idle"
  /\ transsize' = [transsize EXCEPT ![trans] = maxpacksize]
  /\ UNCHANGED <<held, created, deletetransmitter, asked, maxpacksize, buildersize,
                 rtcpsize, poll, report, history>>
-----------------------------------------------------------------------------
(* The other threads. The poll thread builds a report, with the builder      *)
(* lock, and sends it without; when the transmitter refuses it, it ends.     *)
BuildReport ==
  /\ poll = "wait"
  /\ report' \in {s \in Sizes : s <= rtcpsize}
  /\ poll' = "send"
  /\ UNCHANGED <<held, created, deletetransmitter, step, asked, sizes, history>>

SendReport ==
  /\ poll = "send"
  /\ poll' = IF report > transsize[trans] THEN "error" ELSE "wait"
  /\ refused' = (refused \/ report > transsize[trans])
  /\ UNCHANGED <<held, created, deletetransmitter, step, asked, sizes, report, lowered>>

(* SendPacket builds and sends with the builder lock held. *)
SendPacket(size) ==
  /\ created /\ size <= buildersize
  /\ refused' = (refused \/ size > transsize[trans])
  /\ UNCHANGED <<held, created, deletetransmitter, step, asked, sizes, poll, report, lowered>>

Next ==
  \/ \E size \in Sizes : \/ CreateOwnTransmitter(size) \/ UseUsersTransmitter(size)
                         \/ SetMaximumPacketSize(size) \/ SendPacket(size)
  \/ RTPSocket \/ RTCPSocket \/ OptionsAndBind \/ CreateAbortDescriptors \/ CheckSize
  \/ InitPacketBuilder \/ CreateOwnSSRC \/ ReceiveModeAndCNAME \/ InitRTCPBuilder
  \/ Scheduler \/ StartPollThread \/ Created \/ Destroy
  \/ ResizeBuilders \/ ResizeFails \/ RestoreTransmitter
  \/ BuildReport \/ SendReport

Spec == Init /\ [][Next]_vars
-----------------------------------------------------------------------------
TypeOK ==
  /\ held \subseteq Parts /\ created \in BOOLEAN /\ deletetransmitter \in BOOLEAN
  /\ step \in {"idle", "resize", "restore", "rtpsock", "rtcpsock", "bind", "pipe", "size",
               "packetbuilder", "ownssrc", "mode", "rtcpbuilder", "scheduler",
               "pollthread", "created"}
  /\ {asked, maxpacksize, buildersize, rtcpsize, report} \subseteq Sizes
  /\ transsize \in [Transmitters -> Sizes]
  /\ poll \in {"no", "wait", "send", "error"}
  /\ refused \in BOOLEAN /\ lowered \in BOOLEAN

(* Whichever step of Create fails, and after Destroy, nothing is left open   *)
(* or initialised, so that the session can be created again.                 *)
NothingLeft == ~created /\ step = "idle" => held = {}

(* A session that was created has all its parts; a transmitter only if it    *)
(* is not the user's.                                                        *)
HasItsParts ==
  created => held = IF deletetransmitter THEN Parts
                    ELSE Parts \ {"transmitter", "rtpsock", "rtcpsock", "pipe"}

(* When no call is under way the four sizes agree, also after a change that  *)
(* failed half way.                                                          *)
SizesAgree ==
  created /\ step = "idle" =>
    transsize[trans] = maxpacksize /\ buildersize = maxpacksize /\ rtcpsize = maxpacksize

(* No packet is refused as too big, if the size is never lowered.            *)
RefusedOnlyIfLowered == refused => lowered

(* Does not hold: no packet that was built is refused. One built before the  *)
(* size was lowered, or while the transmitter has the new and the builders   *)
(* have the old size, is, and a report's refusal ends the poll thread.       *)
NothingRefused == ~refused

(* What holds of a session's parts and sizes. *)
SessionSetupInv ==
  TypeOK /\ NothingLeft /\ HasItsParts /\ SizesAgree /\ RefusedOnlyIfLowered
=============================================================================
