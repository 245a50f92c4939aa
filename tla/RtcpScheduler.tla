---------------------------- MODULE RtcpScheduler ----------------------------
(* RTCPScheduler of the jrtp library (rtcpscheduler.cpp): when the next RTCP *)
(* packet is sent.  The more members there are the longer the interval; who  *)
(* finds the timer expired computes the interval anew (reconsideration), and *)
(* when members leave, the timer is set back (reverse reconsideration).      *)
(*                                                                           *)
(* Time is counted in ticks, and from the present: fractions are rounded     *)
(* down.  RtcpReports has the packets themselves; nothing is shared:         *)
(* `seen.part` says which is looked at.                                      *)
EXTENDS RtcpReports

CONSTANTS Tmin,            \* GetMinimumTransmissionInterval, 5 s
          Cost,            \* ticks a packet of average size takes of the
                           \* RTCP bandwidth (neither changes here)
          Factors,         \* percents: GetRandomDouble() + 0.5 over 1.21828
          ImmediateBelow,  \* 50: a BYE among fewer members does not wait
          MaxMembers, MaxByes,
          MaxSilence,      \* bound: silence is counted no further
          MaxLag           \* bound: how late the poll thread looks at the timer

ASSUME SchedulerAssumption ==
  /\ Tmin \in Nat \ {0} /\ Cost \in Nat \ {0}
  /\ Factors \subseteq Nat \ {0}
  /\ \E least, most \in Factors : \A f \in Factors : least <= f /\ f <= most
  /\ ImmediateBelow \in Nat /\ MaxMembers \in Nat \ {0} /\ MaxByes \in Nat
  /\ MaxLag \in Nat /\ MaxSilence \in Nat

VARIABLES
  timer,     \* due: nextrtcptime; since: prevrtcptime, both as distances from
             \* now; pmembers, firstcall, hassentrtcp
  bye,       \* byescheduled, sendbyenow, byemembers; queued: byepackets.size()
  members,   \* what the scheduler asks RTPSources: total, senders, own (we are one)
  seen       \* silence: since a packet was sent or a BYE scheduled; calm: and
             \* since anything changed; paced: no packet came too early

schedule == <<timer, bye, members>>
svars == <<builder, schedule, seen>>

SInit ==
  /\ BuilderInit
  /\ \E part \in {"builder", "schedule"} :
       seen = [part |-> part, silence |-> 0, calm |-> 0, paced |-> TRUE]
  /\ timer = [due |-> 0, since |-> 0, pmembers |-> 0, firstcall |-> TRUE,
              hassentrtcp |-> FALSE]
  /\ bye = [byescheduled |-> FALSE, sendbyenow |-> FALSE, byemembers |-> 0, queued |-> 0]
  /\ members = [total |-> 1, senders |-> 0, own |-> FALSE]
-----------------------------------------------------------------------------
(* CalculateDeterministicInterval: a quarter of the bandwidth is the senders' *)
(* as long as they are no more than a quarter of the members.                *)
Share(m, weSend) ==
  IF 4 * m.senders > m.total THEN m.total * Cost
  ELSE IF weSend THEN m.senders * 4 * Cost
  ELSE ((m.total - m.senders) * 4 * Cost) \div 3

Least(half) == IF half THEN Tmin \div 2 ELSE Tmin

Longer(a, b) == IF a > b THEN a ELSE b

CalculateDeterministicInterval(sent, m, weSend) ==
  Longer(Least(~sent), Share(m, weSend))

(* The random factor of both kinds of interval *)
Randomised(t) == {(t * f) \div 100 : f \in Factors}

CalculateTransmissionInterval ==
  Randomised(CalculateDeterministicInterval(timer.hassentrtcp, members, members.own))

(* CalculateBYETransmissionInterval: of those who leave, each knows of those *)
(* whose BYE came in since its own was scheduled.                            *)
CalculateBYETransmissionInterval(b) ==
  IF ~b.byescheduled \/ b.sendbyenow THEN {0}
  ELSE Randomised(Longer(Least(TRUE), (b.byemembers * 4 * Cost) \div 3))

(* Mutant: IsTime trusts the timer. *)
CheckTimesNone == {0}

(* The interval IsTime compares with *)
CheckTimes ==
  IF bye.byescheduled THEN CalculateBYETransmissionInterval(bye)
  ELSE CalculateTransmissionInterval

(* CalculateNextRTCPTime *)
Scheduled(t, interval) ==
  [t EXCEPT !.due = interval, !.since = 0, !.pmembers = members.total]
-----------------------------------------------------------------------------
Smallest(S) == CHOOSE a \in S : \A b \in S : a <= b

(* For the history only: the shortest there may be between two packets *)
ShortestInterval ==
  Smallest(IF bye.byescheduled THEN CalculateBYETransmissionInterval(bye)
           ELSE CalculateTransmissionInterval)

Changed == [seen EXCEPT !.calm = 0]
Sent(early) == [seen EXCEPT !.silence = 0, !.calm = 0, !.paced = @ /\ ~early]

(* GetTransmissionDelay of the poll thread, or IsTime: the first call starts *)
(* the timer.                                                                *)
FirstCall ==
  /\ timer.firstcall
  /\ \E t \in CalculateTransmissionInterval :
       timer' = [Scheduled(timer, t) EXCEPT !.firstcall = FALSE]
  /\ seen' = [seen EXCEPT !.silence = 0, !.calm = 0]
  /\ UNCHANGED <<bye, members>>

(* ScheduleBYEPacket, of the packet that is first in the queue *)
Schedule(t, b) ==
  LET now == [b EXCEPT !.byescheduled = TRUE, !.byemembers = 1,
                       !.sendbyenow = members.total < ImmediateBelow]
  IN /\ bye' = now
     /\ \E i \in CalculateBYETransmissionInterval(now) :
          timer' = [t EXCEPT !.due = i, !.since = 0, !.firstcall = FALSE,
                             !.pmembers = IF t.firstcall THEN members.total ELSE @]

(* ProcessPolledData finds a new collision of our own SSRC after packets     *)
(* were sent with it: only the first BYE of the queue is scheduled.          *)
OwnCollision ==
  /\ bye.queued < MaxByes
  /\ LET more == [bye EXCEPT !.queued = @ + 1]
     IN IF bye.queued = 0 /\ ~bye.byescheduled
        THEN Schedule(timer, more) /\ seen' = [seen EXCEPT !.silence = 0, !.calm = 0]
        ELSE bye' = more /\ UNCHANGED <<timer, seen>>
  /\ UNCHANGED members

Expired == ~timer.firstcall /\ timer.due <= 0

(* IsTime is false: meanwhile there are more members, or another interval    *)
(* was drawn.                                                                *)
Reconsider ==
  /\ Expired
  /\ \E t \in CheckTimes :
       /\ t > timer.since
       /\ timer' = [timer EXCEPT !.due = t - timer.since, !.pmembers = members.total]
  /\ UNCHANGED <<bye, members, seen>>

AnalyseOutgoing(t) == [t EXCEPT !.hassentrtcp = TRUE]

(* IsTime is true: a report is sent, or the first BYE of the queue; the next *)
(* BYE is scheduled then.  AnalyseOutgoing comes last: the interval after    *)
(* the first packet is still that of the start.                              *)
SendPacket ==
  /\ Expired
  /\ \E t \in CheckTimes : t <= timer.since
  /\ LET done == [bye EXCEPT !.byescheduled = FALSE,
                             !.queued = IF @ = 0 THEN 0 ELSE @ - 1]
         sent == AnalyseOutgoing(timer)
     IN IF done.queued > 0 THEN Schedule([sent EXCEPT !.pmembers = members.total], done)
        ELSE /\ bye' = done
             /\ \E i \in CalculateTransmissionInterval : timer' = Scheduled(sent, i)
  /\ seen' = Sent(seen.silence < ShortestInterval)
  /\ UNCHANGED members

(* SendRTCPData fails: the BYE is lost, the next one is not scheduled.  The  *)
(* poll thread stops then; one who polls himself may go on.                  *)
SendFails ==
  /\ Expired
  /\ \E t \in CheckTimes : t <= timer.since
  /\ bye' = [bye EXCEPT !.byescheduled = FALSE, !.queued = IF @ = 0 THEN 0 ELSE @ - 1]
  /\ \E i \in CalculateTransmissionInterval : timer' = Scheduled(timer, i)
  /\ seen' = Sent(seen.silence < ShortestInterval)
  /\ UNCHANGED members
-----------------------------------------------------------------------------
(* PerformReverseReconsideration, of the timer t, n members being left       *)
Shrunk(t, n) ==
  IF t.firstcall THEN t
  ELSE [t EXCEPT !.due = (n * Longer(@, 0)) \div t.pmembers,
                 !.since = (n * @) \div t.pmembers, !.pmembers = n]

(* ActiveMemberDecrease *)
AfterLeaving(t, n) == IF n < t.pmembers THEN Shrunk(t, n) ELSE t

JoinSession ==
  /\ members.total < MaxMembers
  /\ members' = [members EXCEPT !.total = @ + 1]
  /\ seen' = Changed
  /\ UNCHANGED <<timer, bye>>

(* A BYE; other packets only change the average size. *)
AnalyseIncoming(b) == IF b.byescheduled THEN [b EXCEPT !.byemembers = @ + 1] ELSE b

(* OnTimeout, or OnBYEPacket: a BYE is also counted by AnalyseIncoming. *)
LeaveSession(says) ==
  /\ members.total > 1
  /\ LET n == members.total - 1
     IN \E k \in {members.senders, members.senders - 1} :
          /\ k \in (IF members.own THEN 1 ELSE 0) .. n
          /\ members' = [members EXCEPT !.total = n, !.senders = k]
          /\ timer' = AfterLeaving(timer, n)
  /\ bye' = IF says THEN AnalyseIncoming(bye) ELSE bye
  /\ bye'.byemembers <= MaxMembers
  /\ seen' = Changed

(* A member, or we ourselves, begin to send; SenderTimeout *)
BecomeSender ==
  /\ members.senders < members.total
  /\ \E own \in {members.own, TRUE} :
       /\ own \/ members.senders + 1 < members.total
       /\ members' = [members EXCEPT !.senders = @ + 1, !.own = own]
  /\ seen' = Changed
  /\ UNCHANGED <<timer, bye>>

SenderTimeout ==
  /\ members.senders > 0
  /\ \E own \in {members.own, FALSE} :
       /\ own => members.senders > 1
       /\ members' = [members EXCEPT !.senders = @ - 1, !.own = own]
  /\ seen' = Changed
  /\ UNCHANGED <<timer, bye>>

(* The longest interval there can be, before the random factor and with it. *)
LongestDeterministic == Longer(Tmin, (MaxMembers * 4 * Cost) \div 3)
Longest ==
  LET f == CHOOSE g \in Factors : \A h \in Factors : g >= h
  IN (LongestDeterministic * f) \div 100

(* Silence is counted as far as the shortest interval may reach. *)
ASSUME MaxSilenceAssumption ==
  \E f \in Factors : (LongestDeterministic * f) \div 100 <= MaxSilence

Tick ==
  /\ ~timer.firstcall /\ timer.due > -MaxLag
  /\ timer' = [timer EXCEPT !.due = @ - 1, !.since = @ + 1]
  /\ seen' = [seen EXCEPT !.silence = Smallest({@ + 1, MaxSilence}),
                          !.calm = Smallest({@ + 1, Longest + MaxLag + 1})]
  /\ UNCHANGED <<bye, members>>

ScheduleNext ==
  \/ FirstCall \/ OwnCollision \/ Reconsider \/ SendPacket \/ SendFails
  \/ JoinSession \/ (\E says \in BOOLEAN : LeaveSession(says))
  \/ BecomeSender \/ SenderTimeout \/ Tick

SNext ==
  \/ seen.part = "builder" /\ BuilderNext /\ UNCHANGED <<schedule, seen>>
  \/ seen.part = "schedule" /\ ScheduleNext /\ UNCHANGED builder

SSpec == SInit /\ [][SNext]_svars
-----------------------------------------------------------------------------
SchedulerTypeOK ==
  /\ timer \in [due : Int, since : Nat, pmembers : 0 .. MaxMembers,
                firstcall : BOOLEAN, hassentrtcp : BOOLEAN]
  /\ timer.due >= -MaxLag /\ timer.due <= Longest
  /\ bye \in [byescheduled : BOOLEAN, sendbyenow : BOOLEAN,
              byemembers : 0 .. MaxMembers, queued : 0 .. MaxByes]
  /\ members \in [total : 1 .. MaxMembers, senders : 0 .. MaxMembers, own : BOOLEAN]
  /\ seen \in [part : {"builder", "schedule"}, silence : Nat, calm : Nat, paced : BOOLEAN]
  /\ timer.firstcall <=> timer.pmembers = 0
  /\ timer.firstcall => ~bye.byescheduled
  /\ members.own => members.senders > 0
  /\ members.senders <= members.total

(* Whatever members come and go and however the timer is set back, no packet *)
(* is sent before the shortest interval for those there are has passed since *)
(* the last one (or, for a BYE, since it was scheduled).                     *)
NotTooOften == seen.paced

(* Once nobody comes or goes, a packet is sent within the longest interval,  *)
(* however often the interval is drawn anew.                                 *)
ReportedWhenCalm == seen.calm <= Longest + MaxLag

(* A BYE on schedule is in the queue.                                        *)
ScheduledIsQueued == bye.byescheduled => bye.queued > 0

(* Does not hold: every BYE of the queue is on schedule. After one could not *)
(* be sent the next waits for a report's interval (rtpsession.cpp:1491).     *)
QueuedIsScheduled == bye.queued > 0 => bye.byescheduled

(* Does not hold: packets are sent in every interval while members come and  *)
(* go. Each one who leaves sets back the time of the last packet too, and    *)
(* the shortest interval does not shrink with the members.                   *)
ReportedAlways == seen.silence <= Longest + MaxLag

(* RTCP packets come neither too often nor too rarely, BYEs among them.      *)
SchedulerInv == SchedulerTypeOK /\ NotTooOften /\ ReportedWhenCalm /\ ScheduledIsQueued
=============================================================================
