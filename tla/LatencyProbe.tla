---------------------------- MODULE LatencyProbe ----------------------------
(***************************************************************************)
(* The latency VideoInputOutput shows: every second the main thread sends  *)
(* a ping, and the poll thread of the RTP session handles the peer's pongs *)
(* once the session has its callback.  RTCP packets are lost, duplicated   *)
(* and reordered: one in `network` may be delivered never or often.        *)
(* It shares no state with the frames sent: `part` says which of the two   *)
(* is looked at.                                                           *)
(***************************************************************************)
EXTENDS VideoCapture

CONSTANTS
    MaxTime,      \* bound: ticks of the clock
    MaxPings      \* bound: pings

ASSUME ProbeAssumption == MaxTime \in Nat /\ MaxPings \in Nat

VARIABLES
    part,               \* "frames" or "probe"
    start,              \* how far ipAddressRecieved has come
    now,                \* the time
    pingSendTime,
    pingPacketUID,
    timed,              \* the main thread is in sendPing, behind its first line
    network,            \* pings and pongs that may be delivered
    pong,               \* what the poll thread knows of the pong it handles
    shown,              \* the last latency shown
    begun               \* the time sendPing was called, for each ping

ping  == <<pingSendTime, pingPacketUID, timed, begun>>
probe == <<start, now, ping, network, pong, shown>>

Nothing == [uid |-> 0, at |-> 0, latency |-> 0, last |-> 0]

ProbeInit ==
    /\ start = "no"
    /\ now = 0
    /\ pingSendTime = 0 /\ pingPacketUID = 0 /\ timed = FALSE /\ begun = << >>
    /\ network = {}
    /\ pong = [step |-> "none", uid |-> 0, now |-> 0]
    /\ shown = Nothing

Clock ==
    /\ now < MaxTime
    /\ now' = now + 1
    /\ UNCHANGED <<start, ping, network, pong, shown>>

-----------------------------------------------------------------------------
(* ipAddressRecieved, on the main thread.                                   *)

\* CreateInstance: the poll thread runs from here on.
CreateInstance ==
    /\ start = "no"
    /\ start' = "created"
    /\ UNCHANGED <<now, ping, network, pong, shown>>

\* Both callbacks; packets that came before were dropped.
SetCallbacks ==
    /\ start = "created"
    /\ start' = "callbacks"
    /\ UNCHANGED <<now, ping, network, pong, shown>>

\* The camera starts, and the timer for reports and pings.
StartCapture ==
    /\ start = "callbacks"
    /\ start' = "running"
    /\ UNCHANGED <<now, ping, network, pong, shown>>

-----------------------------------------------------------------------------
(* sendPing, called by onRTCPSendTimer on the main thread.                  *)

\* Mutant of NotePingTime: the time of the first ping is kept.
NotePingTimeOnce ==
    /\ start = "running"
    /\ ~timed /\ pingPacketUID < MaxPings
    /\ pingSendTime' = IF begun = << >> THEN now ELSE pingSendTime
    /\ timed' = TRUE
    /\ begun' = Append(begun, now)
    /\ UNCHANGED <<start, now, pingPacketUID, network, pong, shown>>

NotePingTime ==
    /\ start = "running"
    /\ ~timed /\ pingPacketUID < MaxPings
    /\ pingSendTime' = now
    /\ timed' = TRUE
    /\ begun' = Append(begun, now)
    /\ UNCHANGED <<start, now, pingPacketUID, network, pong, shown>>

SendPing ==
    /\ timed
    /\ timed' = FALSE
    /\ pingPacketUID' = pingPacketUID + 1
    /\ network' = network \cup {[name |-> "ping", uid |-> pingPacketUID']}
    /\ UNCHANGED <<start, now, pingSendTime, begun, pong, shown>>

\* onPing on the peer's side: the same data goes back.
OnPing(uid) ==
    /\ [name |-> "ping", uid |-> uid] \in network
    /\ network' = network \cup {[name |-> "pong", uid |-> uid]}
    /\ UNCHANGED <<start, now, ping, pong, shown>>

HasCallback == start \in {"callbacks", "running"}

\* onPong compares the numbers; an outdated pong is left.
OnPong(uid) ==
    /\ HasCallback
    /\ pong.step = "none"
    /\ [name |-> "pong", uid |-> uid] \in network
    /\ pong' = IF uid = pingPacketUID THEN [step |-> "compared", uid |-> uid, now |-> 0] ELSE pong
    /\ UNCHANGED <<start, now, ping, network, shown>>

\* It takes the time,
TakeTime ==
    /\ pong.step = "compared"
    /\ pong' = [pong EXCEPT !.step = "taken", !.now = now]
    /\ UNCHANGED <<start, now, ping, network, shown>>

\* and then reads when the ping was sent, and shows the difference (its half,
\* in the code: the time of one way).
ShowLatency ==
    /\ pong.step = "taken"
    /\ shown' = [uid |-> pong.uid, at |-> pong.now, latency |-> pong.now - pingSendTime,
                 last |-> Len(begun)]
    /\ pong' = [step |-> "none", uid |-> 0, now |-> 0]
    /\ UNCHANGED <<start, now, ping, network>>

ProbeNext ==
    \/ Clock \/ CreateInstance \/ SetCallbacks \/ StartCapture
    \/ NotePingTime \/ SendPing
    \/ \E uid \in 1 .. MaxPings : OnPing(uid) \/ OnPong(uid)
    \/ TakeTime \/ ShowLatency

-----------------------------------------------------------------------------
\* The frames sent and the probe, side by side.
lvars == <<videovars, part, probe>>

LInit == part \in {"frames", "probe"} /\ VideoInit /\ ProbeInit

LNext ==
    /\ UNCHANGED part
    /\ \/ part = "frames" /\ VideoNext /\ UNCHANGED probe
       \/ part = "probe" /\ ProbeNext /\ UNCHANGED videovars

LSpec == LInit /\ [][LNext]_lvars /\ VideoFairness

-----------------------------------------------------------------------------
ProbeTypeOK ==
    /\ part \in {"frames", "probe"}
    /\ start \in {"no", "created", "callbacks", "running"}
    /\ now \in 0 .. MaxTime /\ pingSendTime \in 0 .. now
    /\ pingPacketUID \in 0 .. MaxPings /\ timed \in BOOLEAN
    /\ Len(begun) = pingPacketUID + (IF timed THEN 1 ELSE 0)
    /\ network \subseteq [name : {"ping", "pong"}, uid : 1 .. pingPacketUID]
    /\ pong.step \in {"none", "compared", "taken"} /\ pong.now \in 0 .. now
    /\ shown.at \in 0 .. now /\ shown.last \in shown.uid .. Len(begun)

\* A pong is measured against the ping it answers.  Only if another sendPing
\* began between the comparison and the reading of pingSendTime is it measured
\* against that one: what is shown is then less than the way took.
LatencyMeasured ==
    shown # Nothing =>
        /\ shown.last = shown.uid => shown.latency = shown.at - begun[shown.uid]
        /\ shown.latency <= shown.at - begun[shown.uid]

\* Does not hold: what is shown is a time that passed.
LatencyIsPositive == shown.latency >= 0

\* The latency shown is the one of the ping answered.
LatencyInv == ProbeTypeOK /\ LatencyMeasured
=============================================================================
