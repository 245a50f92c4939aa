----------------------------- MODULE RtpSession -----------------------------
(* RTPSession of the jrtp library with its three kinds of threads: the poll  *)
(* thread (rtppollthread.cpp, ProcessPolledData), a thread that sends RTP    *)
(* (SendPacket) and one that sends RTCP APP packets and, in the end,         *)
(* destroys the session (SendRTCPAPPPacket, BYEDestroy). What they share:    *)
(* the source table under the sources lock, the packet builder under the     *)
(* builder lock, sentpackets under its own, only held for an assignment.     *)
(*                                                                           *)
(* A lock that is taken, used at once and released is one step. The packets  *)
(* and the timeouts are those of RtpSources, restricted by RtpInputs and     *)
(* RtcpItems.                                                                *)
EXTENDS RtpSourceTable, SequencesExt

CONSTANTS RtpInputs,   \* RTP packets that arrive: [ssrc, csrc, next]
          RtcpItems    \* items of RTCP packets that arrive: [kind, ssrc, name]

ASSUME SessionAssumption ==
  /\ RtpInputs \subseteq [ssrc : SSRCs, csrc : SSRCs \union {NoSSRC}, next : BOOLEAN]
  /\ RtcpItems \subseteq [kind : {"report", "bye"}, ssrc : SSRCs, name : {NoName}]
                 \union [kind : {"cname"}, ssrc : SSRCs, name : Names]

VARIABLES table, collisions, incoming,     \* as in RtpSources
          ssrc,          \* packetbuilder: our SSRC
          sentpackets,
          byepackets,    \* BYE packets to send, each for its SSRC
          byescheduled,  \* rtcpsched
          sources,       \* who holds the lock of the sources
          builder,       \* who holds the lock of the packet builder
          poll, queue, main,   \* where the threads are
          stop,          \* the poll thread is asked to stop
          abort,         \* AbortWait has woken the wait in progress
          appssrc,       \* SendRTCPAPPPacket: the SSRC it has read
          wire,          \* history: what was last sent with each SSRC
          lostbye        \* history: a BYE could not be sent

shared == <<table, collisions, incoming, ssrc, sentpackets, byepackets,
            byescheduled, sources, builder>>
history == <<wire, lostbye>>
vars == <<shared, poll, queue, main, stop, abort, appssrc, history>>

Nobody == "nobody"
NoPacket == [rtp |-> FALSE, from |-> Unset, own |-> FALSE]

Init ==
  /\ \E x \in SSRCs : /\ table = CreateOwnSSRC(EmptyTable, x)
                      /\ ssrc = x
  /\ collisions = {} /\ incoming = NoPacket
  /\ sentpackets = FALSE /\ byepackets = << >> /\ byescheduled = FALSE
  /\ sources = Nobody /\ builder = Nobody
  /\ poll = "loop" /\ queue = "idle" /\ main = "idle"
  /\ stop = FALSE /\ abort = FALSE /\ appssrc = NoSSRC /\ lostbye = FALSE
  /\ wire = [x \in SSRCs |-> "nothing"]

(* "late" is an APP packet sent after the BYE. *)
Sent(kind, x) ==
  /\ wire' = [wire EXCEPT ![x] = kind]
  /\ UNCHANGED lostbye

(* Mutant: the table is not looked at, only our SSRC is different. *)
FreshAny(t) ==
  {x \in SSRCs \ ({ssrc, appssrc} \union ToSet(byepackets)) : wire[x] = "nothing"}

(* The numbers a new SSRC is drawn from: it is taken to differ from those    *)
(* already used by us. Bound: a collision only happens while one is left.    *)
Fresh(t) ==
  {x \in SSRCs \ (Entries(t) \union {appssrc} \union ToSet(byepackets)) :
     wire[x] = "nothing"}
NumbersLeft == incoming'.own => Fresh(table') # {}
-----------------------------------------------------------------------------
(* The poll thread. It first asks the scheduler how long it may wait, with   *)
(* the sources locked.                                                       *)
GetTransmissionDelay ==
  /\ poll = "loop" /\ sources = Nobody
  /\ poll' = "wait"
  /\ UNCHANGED <<shared, queue, main, stop, abort, appssrc, history>>

(* WaitForIncomingData: from `select` on the thread can be woken by AbortWait. *)
WaitForIncomingData ==
  /\ poll = "wait" /\ poll' = "select"
  /\ UNCHANGED <<shared, queue, main, stop, abort, appssrc, history>>

(* Data, the RTCP delay or AbortWait ends the wait. *)
WaitEnds ==
  /\ poll = "select" /\ poll' = "process" /\ abort' = FALSE
  /\ UNCHANGED <<shared, queue, main, stop, appssrc, history>>

ProcessPolledData ==
  /\ poll = "process" /\ sources = Nobody
  /\ sources' = "poll" /\ poll' = "packets"
  /\ UNCHANGED <<table, collisions, incoming, ssrc, sentpackets, byepackets, byescheduled,
                 builder, queue, main, stop, abort, appssrc, history>>

ReceiveRTP ==
  /\ poll = "packets"
  /\ \E from \in Addresses, p \in RtpInputs :
       /\ ~Dropped(from)
       /\ LET r == ProcessRTPPacket(table, p, SenderAddress(from))
          IN table' = r.t /\ incoming' = [rtp |-> TRUE, from |-> from, own |-> r.own]
  /\ NumbersLeft
  /\ poll' = "analysed"
  /\ UNCHANGED <<collisions, ssrc, sentpackets, byepackets, byescheduled, sources, builder,
                 queue, main, stop, abort, appssrc, history>>

ReceiveRTCP ==
  /\ poll = "packets"
  /\ \E from \in Addresses :
       /\ ~Dropped(from)
       /\ incoming' = [rtp |-> FALSE, from |-> from, own |-> FALSE]
  /\ poll' = "items"
  /\ UNCHANGED <<table, collisions, ssrc, sentpackets, byepackets, byescheduled, sources,
                 builder, queue, main, stop, abort, appssrc, history>>

NextItem ==
  /\ poll = "items"
  /\ \E item \in RtcpItems :
       LET r == ProcessItem(table, item, SenderAddress(incoming.from))
       IN table' = r.t /\ incoming' = [incoming EXCEPT !.own = @ \/ r.own]
  /\ NumbersLeft
  /\ UNCHANGED <<collisions, ssrc, sentpackets, byepackets, byescheduled, sources, builder,
                 poll, queue, main, stop, abort, appssrc, history>>

(* An APP packet: the app's callback answers a ping with a pong, from inside *)
(* the processing and so with the sources locked.                            *)
OnAPPPacket ==
  /\ poll = "items" /\ builder = Nobody
  /\ Sent("data", ssrc) /\ sentpackets' = TRUE
  /\ UNCHANGED <<table, collisions, incoming, ssrc, byepackets, byescheduled, sources,
                 builder, poll, queue, main, stop, abort, appssrc>>

LastItem ==
  /\ poll = "items" /\ poll' = "analysed"
  /\ UNCHANGED <<shared, queue, main, stop, abort, appssrc, history>>

(* The packet was processed. On the first collision with an address a BYE is *)
(* built for our SSRC, if it was used, and a new SSRC is taken.              *)
NoNewCollision ==
  /\ poll = "analysed" /\ (incoming.own => incoming.from \in collisions)
  /\ poll' = "packets" /\ incoming' = NoPacket
  /\ UNCHANGED <<table, collisions, ssrc, sentpackets, byepackets, byescheduled, sources,
                 builder, queue, main, stop, abort, appssrc, history>>

NewCollision ==
  /\ poll = "analysed" /\ incoming.own /\ incoming.from \notin collisions
  /\ collisions' = collisions \union {incoming.from}
  /\ poll' = IF sentpackets THEN "bye" ELSE "newssrc"
  /\ UNCHANGED <<table, incoming, ssrc, sentpackets, byepackets, byescheduled, sources,
                 builder, queue, main, stop, abort, appssrc, history>>

(* Mutant: the BYE goes out as soon as it is built, before the SSRC changes. *)
BuildBYEPacketAndSend ==
  /\ poll = "bye" /\ builder = Nobody
  /\ Sent("bye", ssrc)
  /\ poll' = "newssrc"
  /\ UNCHANGED <<table, collisions, incoming, ssrc, sentpackets, byepackets, byescheduled,
                 sources, builder, queue, main, stop, abort, appssrc>>

(* Only the first BYE is scheduled, the next when that was sent. *)
BuildBYEPacket ==
  /\ poll = "bye" /\ builder = Nobody
  /\ byepackets' = Append(byepackets, ssrc)
  /\ byescheduled' = (byescheduled \/ byepackets = << >>)
  /\ poll' = "newssrc"
  /\ UNCHANGED <<table, collisions, incoming, ssrc, sentpackets, sources, builder,
                 queue, main, stop, abort, appssrc, history>>

(* A random number that is in no entry of the table. *)
CreateNewSSRC ==
  /\ poll = "newssrc" /\ builder = Nobody
  /\ \E x \in Fresh(table) : ssrc' = x
  /\ poll' = "switch"
  /\ UNCHANGED <<table, collisions, incoming, sentpackets, byepackets, byescheduled, sources,
                 builder, queue, main, stop, abort, appssrc, history>>

SwitchSSRC ==
  /\ poll = "switch"
  /\ sentpackets' = FALSE
  /\ table' = CreateOwnSSRC(DeleteOwnSSRC(table), ssrc)
  /\ incoming' = NoPacket /\ poll' = "packets"
  /\ UNCHANGED <<collisions, ssrc, byepackets, byescheduled, sources, builder,
                 queue, main, stop, abort, appssrc, history>>

(* No more packets: MultipleTimeouts, and the collision list's. *)
Timeouts ==
  /\ poll = "packets"
  /\ \E silent \in SUBSET (Entries(table) \ {table.own}),
        quiet \in SUBSET {x \in Entries(table) : table.src[x].sender},
        left \in SUBSET {x \in Entries(table) : table.src[x].bye},
        old \in SUBSET collisions :
       /\ table' = MultipleTimeouts(table, silent, quiet, left)
       /\ collisions' = collisions \ old
  /\ poll' = "rtcp"
  /\ UNCHANGED <<incoming, ssrc, sentpackets, byepackets, byescheduled, sources, builder,
                 queue, main, stop, abort, appssrc, history>>

NotTime ==
  /\ poll = "rtcp"
  /\ sources' = Nobody /\ poll' = "step"
  /\ UNCHANGED <<table, collisions, incoming, ssrc, sentpackets, byepackets, byescheduled,
                 builder, queue, main, stop, abort, appssrc, history>>

(* IsTime() said yes, which ends what was scheduled: a BYE if there is one,  *)
SendBYE ==
  /\ poll = "rtcp" /\ byepackets # << >>
  /\ byepackets' = Tail(byepackets)
  /\ byescheduled' = (Len(byepackets) > 1)
  /\ Sent("bye", Head(byepackets)) /\ sentpackets' = TRUE
  /\ sources' = Nobody /\ poll' = "step"
  /\ UNCHANGED <<table, collisions, incoming, ssrc, builder,
                 queue, main, stop, abort, appssrc>>

(* or else a report. *)
SendReport ==
  /\ poll = "rtcp" /\ byepackets = << >> /\ builder = Nobody
  /\ byescheduled' = FALSE
  /\ Sent("data", ssrc) /\ sentpackets' = TRUE
  /\ sources' = Nobody /\ poll' = "step"
  /\ UNCHANGED <<table, collisions, incoming, ssrc, byepackets, builder,
                 queue, main, stop, abort, appssrc>>

(* OnPollThreadStep takes the packets out, between BeginDataAccess and       *)
(* EndDataAccess; then the thread looks whether it is to stop.               *)
OnPollThreadStep ==
  /\ poll = "step" /\ sources = Nobody
  /\ poll' = "again"
  /\ UNCHANGED <<shared, queue, main, stop, abort, appssrc, history>>

StopOrLoop ==
  /\ poll = "again" /\ poll' = IF stop THEN "stopped" ELSE "loop"
  /\ UNCHANGED <<shared, queue, main, stop, abort, appssrc, history>>

(* An error ends the thread, wherever it is, and the session goes on without *)
(* it: the lock of the sources and the packet worked on are given back, and  *)
(* all else is left as it is.                                                *)
Ends ==
  /\ poll' = "stopped"
  /\ sources' = Nobody /\ incoming' = NoPacket
  /\ UNCHANGED <<ssrc, builder, queue, main, stop, appssrc, wire>>

(* `select` failed, or the Poll that follows. *)
WaitFails ==
  /\ poll = "select" /\ Ends /\ abort' = FALSE
  /\ UNCHANGED <<table, collisions, sentpackets, byepackets, byescheduled, lostbye>>

(* No memory for a packet, an entry, the address or the BYE. *)
ProcessingFails ==
  /\ \/ poll \in {"packets", "items"}
     \/ poll = "analysed" /\ incoming.own /\ incoming.from \notin collisions
     \/ poll = "bye" /\ builder = Nobody
  /\ Ends
  /\ UNCHANGED <<table, collisions, sentpackets, byepackets, byescheduled, abort, lostbye>>

(* The old SSRC is deleted; there is no entry for the new one. *)
SwitchSSRCFails ==
  /\ poll = "switch" /\ Ends
  /\ sentpackets' = FALSE /\ table' = DeleteOwnSSRC(table)
  /\ UNCHANGED <<collisions, byepackets, byescheduled, abort, lostbye>>

(* The BYE is gone, and the next is not scheduled. *)
SendBYEFails ==
  /\ poll = "rtcp" /\ byepackets # << >> /\ Ends
  /\ byepackets' = Tail(byepackets) /\ byescheduled' = FALSE /\ lostbye' = TRUE
  /\ UNCHANGED <<table, collisions, sentpackets, abort>>

SendReportFails ==
  /\ poll = "rtcp" /\ byepackets = << >> /\ builder = Nobody /\ Ends
  /\ byescheduled' = FALSE
  /\ UNCHANGED <<table, collisions, sentpackets, byepackets, abort, lostbye>>

Error == WaitFails \/ ProcessingFails \/ SwitchSSRCFails \/ SendBYEFails \/ SendReportFails
-----------------------------------------------------------------------------
(* SendPacket, on the thread that sends. *)
Created == main \in {"idle", "app"}

SendPacket ==
  /\ queue = "idle" /\ Created /\ builder = Nobody
  /\ builder' = "queue" /\ queue' = "build"
  /\ UNCHANGED <<table, collisions, incoming, ssrc, sentpackets, byepackets, byescheduled,
                 sources, poll, main, stop, abort, appssrc, history>>

(* Mutant: the builder is kept until the sources were locked. *)
BuildAndSendLocked ==
  /\ queue = "build"
  /\ Sent("data", ssrc) /\ queue' = "built"
  /\ UNCHANGED <<shared, poll, main, stop, abort, appssrc>>

BuildAndSend ==
  /\ queue = "build"
  /\ Sent("data", ssrc)
  /\ builder' = Nobody /\ queue' = "built"
  /\ UNCHANGED <<table, collisions, incoming, ssrc, sentpackets, byepackets, byescheduled,
                 sources, poll, main, stop, abort, appssrc>>

(* Mutant: the sender is marked without locking the sources. *)
MarkSenderUnlocked ==
  /\ queue = "built"
  /\ table' = SentRTPPacket(table) /\ queue' = "sent"
  /\ UNCHANGED <<collisions, incoming, ssrc, sentpackets, byepackets, byescheduled, sources,
                 builder, poll, main, stop, abort, appssrc, history>>

MarkSender ==
  /\ queue = "built" /\ sources = Nobody
  /\ table' = SentRTPPacket(table) /\ queue' = "sent"
  /\ UNCHANGED <<collisions, incoming, ssrc, sentpackets, byepackets, byescheduled, sources,
                 builder, poll, main, stop, abort, appssrc, history>>

SendFails ==
  /\ queue = "build"
  /\ builder' = Nobody /\ queue' = "idle"
  /\ UNCHANGED <<table, collisions, incoming, ssrc, sentpackets, byepackets, byescheduled,
                 sources, poll, main, stop, abort, appssrc, history>>

MarkSent ==
  /\ queue = "sent"
  /\ sentpackets' = TRUE /\ queue' = "idle"
  /\ UNCHANGED <<table, collisions, incoming, ssrc, byepackets, byescheduled, sources,
                 builder, poll, main, stop, abort, appssrc, history>>
-----------------------------------------------------------------------------
(* SendRTCPAPPPacket: our SSRC is read under the builder lock, the packet    *)
(* goes out some time later.                                                 *)
SendRTCPAPPPacket ==
  /\ main = "idle" /\ builder = Nobody
  /\ main' = "app" /\ appssrc' = ssrc
  /\ UNCHANGED <<shared, poll, queue, stop, abort, history>>

SendAPP ==
  /\ main = "app" /\ builder = Nobody
  /\ Sent(IF wire[appssrc] \in {"bye", "late"} THEN "late" ELSE "data", appssrc)
  /\ sentpackets' = TRUE /\ main' = "idle" /\ appssrc' = NoSSRC
  /\ UNCHANGED <<table, collisions, incoming, ssrc, byepackets, byescheduled, sources,
                 builder, poll, queue, stop, abort>>

APPFails ==
  /\ main = "app" /\ builder = Nobody
  /\ main' = "idle" /\ appssrc' = NoSSRC
  /\ UNCHANGED <<shared, poll, queue, stop, abort, history>>

(* BYEDestroy, once nobody sends any more. AbortWait only reaches a thread   *)
(* that is waiting by now.                                                   *)
BYEDestroy ==
  /\ main = "idle" /\ queue = "idle"
  /\ stop' = TRUE /\ main' = "abort"
  /\ UNCHANGED <<shared, poll, queue, abort, appssrc, history>>

AbortWait ==
  /\ main = "abort"
  /\ abort' = (poll = "select") /\ main' = "join"
  /\ UNCHANGED <<shared, poll, queue, stop, appssrc, history>>

Joined ==
  /\ main = "join" /\ poll = "stopped"
  /\ main' = "bye"
  /\ UNCHANGED <<shared, poll, queue, stop, abort, appssrc, history>>

(* After five seconds the thread is killed. A thread that was not woken is   *)
(* still in the wait then: nothing else in its loop takes seconds.           *)
KillThread ==
  /\ main = "join" /\ poll = "select" /\ ~abort
  /\ poll' = "killed" /\ main' = "bye"
  /\ UNCHANGED <<shared, queue, stop, abort, appssrc, history>>

AddBYE ==
  /\ main = "bye"
  /\ byepackets' = IF sentpackets THEN Append(byepackets, ssrc) ELSE byepackets
  /\ byescheduled' = (byescheduled \/ (sentpackets /\ byepackets = << >>))
  /\ main' = "byes"
  /\ UNCHANGED <<table, collisions, incoming, ssrc, sentpackets, sources, builder,
                 poll, queue, stop, abort, appssrc, history>>

(* Whether it could be sent is not looked at. *)
SendLastBYE ==
  /\ main = "byes" /\ byepackets # << >>
  /\ byepackets' = Tail(byepackets) /\ byescheduled' = (Len(byepackets) > 1)
  /\ Sent("bye", Head(byepackets)) \/ UNCHANGED history
  /\ UNCHANGED <<table, collisions, incoming, ssrc, sentpackets, sources, builder,
                 poll, queue, main, stop, abort, appssrc>>

(* All were sent, or the time to wait is over. Deleting the transmitter      *)
(* waits for a wait in progress to end, and that of a killed thread does not.*)
DestroyAll ==
  /\ main = "byes" /\ poll # "killed"
  /\ main' = "destroyed"
  /\ table' = EmptyTable /\ collisions' = {} /\ byepackets' = << >> /\ byescheduled' = FALSE
  /\ UNCHANGED <<incoming, ssrc, sentpackets, sources, builder,
                 poll, queue, stop, abort, appssrc, history>>
-----------------------------------------------------------------------------
Receive == ReceiveRTP \/ ReceiveRTCP

Finish == NoNewCollision \/ NewCollision \/ BuildBYEPacket \/ CreateNewSSRC \/ SwitchSSRC

Poll == GetTransmissionDelay \/ WaitForIncomingData \/ WaitEnds \/ ProcessPolledData
          \/ Receive \/ NextItem \/ OnAPPPacket \/ LastItem \/ Finish
          \/ Timeouts \/ NotTime \/ SendBYE \/ SendReport
          \/ OnPollThreadStep \/ StopOrLoop \/ Error

Queue == BuildAndSend \/ SendFails \/ MarkSender \/ MarkSent

Destroying == AbortWait \/ Joined \/ KillThread \/ AddBYE \/ SendLastBYE \/ DestroyAll

Main == SendRTCPAPPPacket \/ SendAPP \/ APPFails \/ BYEDestroy \/ Destroying

Next == Poll \/ SendPacket \/ Queue \/ Main

(* After this the code has nothing left to do; or, after a kill, waits for   *)
(* ever (DestroyReturns below).                                              *)
Over ==
  /\ main = "destroyed" \/ (main = "byes" /\ byepackets = << >> /\ poll = "killed")
  /\ UNCHANGED vars

Spec == Init /\ [][Next \/ Over]_vars
-----------------------------------------------------------------------------
TypeOK ==
  /\ Entries(table) \subseteq SSRCs /\ table.own \in SSRCs \union {NoSSRC}
  /\ collisions \subseteq Addresses
  /\ incoming \in [rtp : BOOLEAN, from : Addresses \union {Unset}, own : BOOLEAN]
  /\ ssrc \in SSRCs /\ ToSet(byepackets) \subseteq SSRCs
  /\ sentpackets \in BOOLEAN /\ byescheduled \in BOOLEAN
  /\ sources \in {Nobody, "poll"} /\ builder \in {Nobody, "queue"}
  /\ poll \in {"loop", "wait", "select", "process", "packets", "items", "analysed", "bye",
               "newssrc", "switch", "rtcp", "step", "again", "stopped", "killed"}
  /\ queue \in {"idle", "build", "built", "sent"}
  /\ main \in {"idle", "app", "abort", "join", "bye", "byes", "destroyed"}
  /\ stop \in BOOLEAN /\ abort \in BOOLEAN /\ appssrc \in SSRCs \union {NoSSRC}
  /\ wire \in [SSRCs -> {"nothing", "data", "bye", "late"}] /\ lostbye \in BOOLEAN

(* The builder and the table agree on our SSRC whenever the sources are not  *)
(* locked: nobody who locks them, or only them, sees the change half done.   *)
(* If the change fails the table has no entry of ours, and the thread that   *)
(* polls is at its end.                                                      *)
OwnSSRCAgrees ==
  sources = Nobody /\ main # "destroyed" =>
    ssrc = table.own \/ (table.own = NoSSRC /\ poll = "stopped")

(* Said is said: after the BYE for an SSRC neither RTP nor a report is sent  *)
(* with it, although it is sent by another thread and long after the SSRC    *)
(* was changed. Only an APP packet that had read its SSRC earlier may come.  *)
SilentAfterBYE ==
  [][\A x \in SSRCs : wire[x] \in {"bye", "late"} =>
       \/ wire'[x] \in {wire[x], "bye"}
       \/ main = "app" /\ main' = "idle" /\ x = appssrc /\ wire'[x] = "late"]_vars

(* Does not hold: that APP packets keep silent as well. SendRTCPAPPPacket    *)
(* (rtpsession.cpp:709-711) reads our SSRC under the lock and builds and     *)
(* sends the packet later, when the SSRC may have changed and its BYE gone.  *)
APPsKeepSilent == \A x \in SSRCs : wire[x] # "late"

(* While BYE packets are waiting, a BYE is scheduled; so that the next is    *)
(* sent at its own time and not in the place of a report, and no BYE is      *)
(* scheduled for nothing. Only after a BYE that could not be sent, which     *)
(* ends the thread, those behind it wait unscheduled.                        *)
BYEIsScheduled ==
  sources = Nobody =>
    /\ byescheduled => byepackets # << >>
    /\ byepackets # << >> => byescheduled \/ (lostbye /\ poll = "stopped")

(* The table under the threads does what RtpSources says, packet by packet:  *)
(* nobody changes it, and no SSRC, in the middle of a packet. An error ends  *)
(* the thread there; it leaves the table as it is, or without our entry.     *)
Table == INSTANCE RtpSources WITH
  collisions <- IF poll \in {"bye", "newssrc", "switch"}
                THEN collisions \ {incoming.from} ELSE collisions

EndsMidway ==
  /\ poll # "stopped" /\ poll' = "stopped"
  /\ table' \in {table, DeleteOwnSSRC(table)}

OneAtATime ==
  [][UNCHANGED Table!vars \/ EndsMidway \/ main' = "destroyed" \/ Table!Next]_vars

(* No deadlock: while SendPacket is under way, it or the poll thread can go  *)
(* on. The poll thread takes the builder with the sources locked, so nobody  *)
(* may wait for the sources and keep the builder.                            *)
SendGoesOn == queue # "idle" => ENABLED Queue \/ ENABLED Poll

(* Whom a thread may be waiting for: the holder of a lock, or the thread     *)
(* whose end it waits for. *)
Threads == {"poll", "queue", "main"}

WaitsFor(t) ==
  CASE t = "poll" /\ poll \in {"loop", "process", "step"} -> sources
    [] t = "poll" /\ poll \in {"items", "bye", "newssrc", "rtcp"} -> builder
    [] t = "queue" /\ queue = "idle" -> builder
    [] t = "queue" /\ queue = "built" -> sources
    [] t = "main" /\ main \in {"idle", "app"} -> builder
    [] t = "main" /\ main = "join" -> "poll"
    [] OTHER -> Nobody

(* No threads wait for one another in a circle, whatever they hold. *)
NoCircularWait ==
  \A S \in (SUBSET Threads) \ {{}} : \E t \in S : WaitsFor(t) \notin S

(* Does not hold: BYEDestroy and Destroy return. AbortWait does not wake a   *)
(* thread that has looked at `stop` and is not yet waiting; if the wait that *)
(* follows is a long one the thread is killed in it, and deleting the        *)
(* transmitter then waits for a lock that nobody will release.               *)
DestroyReturns == ~(main = "byes" /\ poll = "killed")

(* Does not hold: "Only send BYE packet if we've actually sent data using    *)
(* this SSRC" (rtpsession.cpp). sentpackets is set after the BYE for an old  *)
(* SSRC was sent, and by a SendPacket or SendRTCPAPPPacket that began before *)
(* the SSRC changed: it then speaks for an SSRC that was never used.         *)
BYEOnlyIfUsed == \A x \in ToSet(byepackets) : wire[x] # "nothing"

(* The threads are where the code lets them be and never stop one another,   *)
(* our SSRC is the same in both places, and no BYE is forgotten.             *)
RtpSessionInv == TypeOK /\ OwnSSRCAgrees /\ BYEIsScheduled /\ NoCircularWait
=============================================================================
