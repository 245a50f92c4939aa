----------------------------- MODULE RtcpProofs -----------------------------
(* When RTCP packets are sent, and what is in them. RtcpScheduler for any    *)
(* members, intervals and random factors; RTCPPacketBuilder (RtcpReports)    *)
(* for any sources and items, any size of packet and any number of blocks    *)
(* under a header, down to the bytes of the compound packet (RtcpCompound).  *)
EXTENDS RtcpScheduler, FiniteSetTheorems, SequenceTheorems, WellFoundedInduction, TLAPS

-----------------------------------------------------------------------------
(* The scheduler.                                                            *)

(* The time since the last packet, or since a BYE was scheduled, is what the *)
(* scheduler takes for it, or it took it for less because members have left. *)
SilenceCounted == timer.since <= seen.silence \/ MaxSilence <= seen.silence

(* What is left of the interval and the time spent calm in it are together   *)
(* no longer than an interval can be.                                        *)
CalmWithinInterval ==
  /\ seen.calm <= timer.since
  /\ seen.calm + timer.due <= Longest

SInv ==
  /\ SchedulerTypeOK /\ ScheduledIsQueued /\ NotTooOften
  /\ SilenceCounted /\ CalmWithinInterval

-----------------------------------------------------------------------------
(* Arithmetic.                                                               *)
LEMMA ProductGrows ==
  ASSUME NEW a \in Nat, NEW b \in Nat, NEW c \in Nat, a <= b
  PROVE  a * c <= b * c /\ c * a <= c * b /\ a * c \in Nat /\ c * a \in Nat
OBVIOUS

LEMMA ShareShrinks ==
  ASSUME NEW n \in Nat, NEW d \in Nat \ {0}, n <= d, NEW x \in Nat
  PROVE  (n * x) \div d \in Nat /\ (n * x) \div d <= x
<1>1. n * x <= d * x /\ n * x \in Nat BY ProductGrows
<1>2. (n * x) \div d \in Nat BY <1>1
<1>3. d * ((n * x) \div d) <= n * x BY <1>1
<1>4. ASSUME x + 1 <= (n * x) \div d PROVE FALSE
  <2>1. d * (x + 1) <= d * ((n * x) \div d) BY <1>2, <1>4, ProductGrows
  <2>2. d * (x + 1) = d * x + d OBVIOUS
  <2>3. d * ((n * x) \div d) \in Nat /\ d * x \in Nat BY <1>2
  <2> QED BY <1>1, <1>3, <2>1, <2>2, <2>3
<1> QED BY <1>2, <1>4

LEMMA DivGrows ==
  ASSUME NEW a \in Nat, NEW b \in Nat, a <= b
  PROVE  a \div 100 \in Nat /\ a \div 100 <= b \div 100
OBVIOUS

LEMMA SmallestIs ==
  ASSUME NEW T, NEW a \in T, \A b \in T : a <= b
  PROVE  Smallest(T) \in T /\ \A b \in T : Smallest(T) <= b
BY Zenon DEF Smallest

LEMMA SmallerOfTwo ==
  ASSUME NEW a \in Nat, NEW b \in Nat
  PROVE  Smallest({a, b}) = IF a <= b THEN a ELSE b
<1>1. \E c \in {a, b} : \A d \in {a, b} : c <= d OBVIOUS
<1>2. Smallest({a, b}) \in {a, b} /\ \A d \in {a, b} : Smallest({a, b}) <= d
  BY <1>1, SmallestIs
<1> QED BY <1>2

-----------------------------------------------------------------------------
(* What is drawn from is no longer than the longest interval, and its        *)
(* smallest no longer than silence is counted.                               *)
Drawn(T) ==
  /\ T \subseteq 0 .. Longest
  /\ \E t \in T : t <= MaxSilence /\ \A u \in T : t <= u

LEMMA LongestIs ==
  /\ LongestDeterministic \in Nat /\ Longest \in Nat
  /\ \A f \in Factors : (LongestDeterministic * f) \div 100 <= Longest
<1>1. LongestDeterministic \in Nat
  <2>1. MaxMembers * 4 * Cost \in Nat BY SchedulerAssumption
  <2> QED BY <2>1, SchedulerAssumption DEF LongestDeterministic, Longer
<1> DEFINE most == CHOOSE g \in Factors : \A h \in Factors : g >= h
<1>2. most \in Factors /\ \A h \in Factors : most >= h
  <2>1. \E g \in Factors : \A h \in Factors : g >= h BY SchedulerAssumption
  <2> QED BY <2>1
<1>3. Longest = (LongestDeterministic * most) \div 100 BY DEF Longest
<1> HIDE DEF most
<1>4. most \in Nat BY <1>2, SchedulerAssumption
<1>5. LongestDeterministic * most \in Nat BY <1>1, <1>4
<1>6. ASSUME NEW f \in Factors PROVE (LongestDeterministic * f) \div 100 <= Longest
  <2>1. f \in Nat /\ f <= most BY <1>2, SchedulerAssumption, <1>4
  <2>2. /\ LongestDeterministic * f \in Nat
        /\ LongestDeterministic * f <= LongestDeterministic * most
    BY <1>1, <1>4, <2>1, ProductGrows
  <2> QED BY <1>3, <1>5, <2>2, DivGrows
<1>7. Longest \in Nat BY <1>3, <1>5
<1> QED BY <1>1, <1>6, <1>7

LEMMA RandomisedDrawn ==
  ASSUME NEW t \in Nat, t <= LongestDeterministic
  PROVE  Drawn(Randomised(t))
<1>1. LongestDeterministic \in Nat /\ Longest \in Nat BY LongestIs
<1>2. ASSUME NEW f \in Factors
      PROVE  /\ f \in Nat /\ t * f \in Nat /\ (t * f) \div 100 \in Nat
             /\ (t * f) \div 100 <= (LongestDeterministic * f) \div 100
  <2>1. f \in Nat BY SchedulerAssumption
  <2>2. t * f \in Nat /\ LongestDeterministic * f \in Nat
        /\ t * f <= LongestDeterministic * f
    BY <1>1, <2>1, ProductGrows
  <2> QED BY <2>1, <2>2, DivGrows
<1>3. ASSUME NEW u \in Randomised(t) PROVE u \in 0 .. Longest
  <2>1. PICK f \in Factors : u = (t * f) \div 100 BY DEF Randomised
  <2>2. (LongestDeterministic * f) \div 100 <= Longest BY LongestIs
  <2>3. LongestDeterministic * f \in Nat BY <1>1, <1>2
  <2> QED BY <1>1, <1>2, <2>1, <2>2, <2>3
<1>4. PICK least \in Factors : \A f \in Factors : least <= f
  BY SchedulerAssumption
<1>5. (t * least) \div 100 \in Randomised(t) BY DEF Randomised
<1>6. ASSUME NEW f \in Factors PROVE (t * least) \div 100 <= (t * f) \div 100
  <2>1. least <= f /\ least \in Nat /\ f \in Nat BY <1>4, <1>2
  <2>2. t * least <= t * f /\ t * least \in Nat /\ t * f \in Nat BY <2>1, ProductGrows
  <2> QED BY <2>2, DivGrows
<1>7. \A u \in Randomised(t) : (t * least) \div 100 <= u BY <1>6 DEF Randomised
<1>8. (t * least) \div 100 <= MaxSilence
  <2>1. PICK f \in Factors : (LongestDeterministic * f) \div 100 <= MaxSilence
    BY MaxSilenceAssumption
  <2>2. /\ (t * least) \div 100 <= (t * f) \div 100
        /\ (t * f) \div 100 <= (LongestDeterministic * f) \div 100
        /\ (t * least) \div 100 \in Nat /\ (t * f) \div 100 \in Nat
        /\ (LongestDeterministic * f) \div 100 \in Nat
    <3>1. LongestDeterministic * f \in Nat BY <1>1, <1>2
    <3> QED BY <1>2, <1>6, <3>1
  <2> QED BY <2>1, <2>2, SchedulerAssumption
<1> QED BY <1>3, <1>5, <1>7, <1>8 DEF Drawn

LEMMA NothingDrawn == Drawn({0})
BY LongestIs, SchedulerAssumption DEF Drawn

(* The deterministic interval, whoever the members are. *)
LEMMA ShareBounded ==
  ASSUME NEW m, m.total \in 1 .. MaxMembers, m.senders \in Nat, m.senders <= m.total,
         NEW sends \in BOOLEAN
  PROVE  Share(m, sends) \in Nat /\ Share(m, sends) <= (MaxMembers * 4 * Cost) \div 3
<1> DEFINE n == m.total
           k == m.senders
<1>0. n \in Nat /\ k \in Nat /\ Cost \in Nat /\ MaxMembers \in Nat /\ n <= MaxMembers /\ k <= n
  BY SchedulerAssumption
<1>1. Share(m, sends) = IF 4 * k > n THEN n * Cost
                        ELSE IF sends THEN k * 4 * Cost
                        ELSE ((n - k) * 4 * Cost) \div 3
  BY DEF Share
<1> HIDE DEF n, k
<1>2. /\ MaxMembers * Cost \in Nat /\ n * Cost \in Nat /\ n * Cost <= MaxMembers * Cost
      /\ k * Cost \in Nat /\ k * 4 * Cost = (4 * k) * Cost
      /\ MaxMembers * 4 * Cost = 4 * (MaxMembers * Cost)
  BY <1>0, ProductGrows
<1>3. CASE 4 * k > n BY <1>1, <1>2, <1>3
<1>4. CASE ~(4 * k > n) /\ sends
  <2>1. (4 * k) * Cost <= n * Cost /\ (4 * k) * Cost \in Nat BY <1>0, <1>4, ProductGrows
  <2> QED BY <1>1, <1>2, <1>4, <2>1
<1>5. CASE ~(4 * k > n) /\ ~sends
  <2>1. n - k \in Nat /\ n - k <= MaxMembers BY <1>0
  <2>2. (n - k) * Cost <= MaxMembers * Cost /\ (n - k) * Cost \in Nat
    BY <1>0, <2>1, ProductGrows
  <2>3. (n - k) * 4 * Cost = 4 * ((n - k) * Cost) BY <1>0, <2>1
  <2> QED BY <1>1, <1>2, <1>5, <2>2, <2>3
<1> QED BY <1>3, <1>4, <1>5

LEMMA ReportDrawn ==
  ASSUME SchedulerTypeOK PROVE Drawn(CalculateTransmissionInterval)
<1> DEFINE det == CalculateDeterministicInterval(timer.hassentrtcp, members, members.own)
<1>1. /\ members.total \in 1 .. MaxMembers /\ members.senders \in Nat
      /\ members.senders <= members.total /\ members.own \in BOOLEAN
      /\ timer.hassentrtcp \in BOOLEAN
  BY DEF SchedulerTypeOK
<1>2. /\ Share(members, members.own) \in Nat
      /\ Share(members, members.own) <= (MaxMembers * 4 * Cost) \div 3
  BY <1>1, ShareBounded
<1>3. (MaxMembers * 4 * Cost) \div 3 \in Nat
  <2>1. MaxMembers * 4 * Cost \in Nat BY SchedulerAssumption
  <2> QED BY <2>1
<1>4. /\ Least(~timer.hassentrtcp) \in Nat /\ Least(~timer.hassentrtcp) <= Tmin
      /\ Tmin \in Nat
  BY <1>1, SchedulerAssumption DEF Least
<1>5. det \in Nat /\ det <= LongestDeterministic
  BY <1>2, <1>3, <1>4 DEF CalculateDeterministicInterval, LongestDeterministic, Longer
<1> QED BY <1>5, RandomisedDrawn DEF CalculateTransmissionInterval

LEMMA BYEDrawn ==
  ASSUME NEW b, b.byemembers \in 0 .. MaxMembers
  PROVE  Drawn(CalculateBYETransmissionInterval(b))
<1> DEFINE n == b.byemembers
<1>1. n \in Nat /\ n <= MaxMembers /\ Cost \in Nat /\ MaxMembers \in Nat /\ Tmin \in Nat
  BY SchedulerAssumption
<1>2. /\ n * Cost \in Nat /\ MaxMembers * Cost \in Nat /\ n * Cost <= MaxMembers * Cost
  BY <1>1, ProductGrows
<1>3. n * 4 * Cost = 4 * (n * Cost) /\ MaxMembers * 4 * Cost = 4 * (MaxMembers * Cost)
  BY <1>1
<1>4. /\ Longer(Least(TRUE), (n * 4 * Cost) \div 3) \in Nat
      /\ Longer(Least(TRUE), (n * 4 * Cost) \div 3) <= LongestDeterministic
  BY <1>1, <1>2, <1>3 DEF Longer, Least, LongestDeterministic
<1>5. CASE ~b.byescheduled \/ b.sendbyenow
  BY <1>5, NothingDrawn DEF CalculateBYETransmissionInterval
<1>6. CASE ~(~b.byescheduled \/ b.sendbyenow)
  BY <1>4, <1>6, RandomisedDrawn DEF CalculateBYETransmissionInterval
<1> QED BY <1>5, <1>6

LEMMA CheckDrawn == ASSUME SchedulerTypeOK PROVE Drawn(CheckTimes)
<1>1. bye.byemembers \in 0 .. MaxMembers BY DEF SchedulerTypeOK
<1>2. CASE bye.byescheduled BY <1>1, <1>2, BYEDrawn DEF CheckTimes
<1>3. CASE ~bye.byescheduled BY <1>3, ReportDrawn DEF CheckTimes
<1> QED BY <1>2, <1>3

-----------------------------------------------------------------------------
(* The steps.                                                                *)
Timers == [due : Int, since : Nat, pmembers : 0 .. MaxMembers,
           firstcall : BOOLEAN, hassentrtcp : BOOLEAN]
Byes == [byescheduled : BOOLEAN, sendbyenow : BOOLEAN,
         byemembers : 0 .. MaxMembers, queued : 0 .. MaxByes]
Histories == [part : {"builder", "schedule"}, silence : Nat, calm : Nat, paced : BOOLEAN]

(* A timer just set, with nothing counted since. *)
JustSet(t) ==
  /\ t \in Timers /\ t.since = 0 /\ t.due \in 0 .. Longest
  /\ ~t.firstcall /\ t.pmembers # 0

LEMMA StartsAgain ==
  ASSUME members \in [total : 1 .. MaxMembers, senders : 0 .. MaxMembers, own : BOOLEAN],
         members.own => members.senders > 0, members.senders <= members.total,
         UNCHANGED members,
         JustSet(timer'), bye' \in Byes, bye'.byescheduled => bye'.queued > 0,
         seen' \in Histories, seen'.paced, seen'.silence = 0, seen'.calm = 0
  PROVE  SInv'
<1>1. Longest \in Nat /\ MaxLag \in Nat BY LongestIs, SchedulerAssumption
<1>2. Longest' = Longest BY DEF Longest, LongestDeterministic
<1>3. /\ timer'.due \in Int /\ timer'.due >= -MaxLag /\ timer'.due <= Longest
      /\ 0 + timer'.due <= Longest
  BY <1>1 DEF JustSet
<1>4. SchedulerTypeOK' BY <1>2, <1>3 DEF SchedulerTypeOK, JustSet, Timers, Byes, Histories
<1>5. SilenceCounted' /\ CalmWithinInterval'
  BY <1>2, <1>3 DEF SilenceCounted, CalmWithinInterval, JustSet
<1> QED BY <1>4, <1>5 DEF SInv, ScheduledIsQueued, NotTooOften

LEMMA ScheduledIsSet ==
  ASSUME SchedulerTypeOK, NEW t \in Timers, NEW i, i \in 0 .. Longest
  PROVE  /\ [Scheduled(t, i) EXCEPT !.firstcall = FALSE] \in Timers
         /\ JustSet([Scheduled(t, i) EXCEPT !.firstcall = FALSE])
         /\ ~t.firstcall => JustSet(Scheduled(t, i))
<1>1. members.total \in 1 .. MaxMembers BY DEF SchedulerTypeOK
<1>2. members.total \in 0 .. MaxMembers /\ members.total # 0 BY <1>1, SchedulerAssumption
<1>3. i \in Int BY LongestIs
<1> QED BY <1>2, <1>3 DEF Scheduled, JustSet, Timers

LEMMA ScheduleSets ==
  ASSUME SchedulerTypeOK, NEW t \in Timers, t.firstcall <=> t.pmembers = 0,
         NEW b \in Byes, b.queued > 0, Schedule(t, b)
  PROVE  JustSet(timer') /\ bye' \in Byes /\ bye'.queued > 0
<1> DEFINE now == [b EXCEPT !.byescheduled = TRUE, !.byemembers = 1,
                            !.sendbyenow = members.total < ImmediateBelow]
<1>1. members.total \in 1 .. MaxMembers BY DEF SchedulerTypeOK
<1>2. members.total \in 0 .. MaxMembers /\ members.total # 0 BY <1>1, SchedulerAssumption
<1>3. 1 \in 0 .. MaxMembers BY SchedulerAssumption
<1>4. (members.total < ImmediateBelow) \in BOOLEAN OBVIOUS
<1>5. now \in Byes /\ now.byemembers = 1 /\ now.queued = b.queued BY <1>3, <1>4 DEF Byes
<1>6. bye' = now BY DEF Schedule
<1>7. PICK i \in CalculateBYETransmissionInterval(now) :
        timer' = [t EXCEPT !.due = i, !.since = 0, !.firstcall = FALSE,
                           !.pmembers = IF t.firstcall THEN members.total ELSE @]
  BY DEF Schedule
<1> HIDE DEF now
<1>8. i \in 0 .. Longest /\ i \in Int BY <1>3, <1>5, BYEDrawn, LongestIs DEF Drawn
<1>9. (IF t.firstcall THEN members.total ELSE t.pmembers) \in 0 .. MaxMembers \ {0}
  BY <1>2 DEF Timers
<1>10. JustSet(timer') BY <1>7, <1>8, <1>9 DEF JustSet, Timers
<1> QED BY <1>5, <1>6, <1>10

LEMMA SInvInit == SInit => SInv
<1> SUFFICES ASSUME SInit PROVE SInv OBVIOUS
<1>1. Longest \in Nat /\ MaxLag \in Nat BY LongestIs, SchedulerAssumption
<1>2. 1 \in 1 .. MaxMembers /\ 0 \in 0 .. MaxMembers /\ 0 \in 0 .. MaxByes
  BY SchedulerAssumption
<1>3. /\ timer = [due |-> 0, since |-> 0, pmembers |-> 0, firstcall |-> TRUE,
                  hassentrtcp |-> FALSE]
      /\ bye = [byescheduled |-> FALSE, sendbyenow |-> FALSE, byemembers |-> 0, queued |-> 0]
      /\ members = [total |-> 1, senders |-> 0, own |-> FALSE]
  BY DEF SInit
<1>4. /\ seen \in Histories /\ seen.silence = 0 /\ seen.calm = 0 /\ seen.paced
  BY DEF SInit, Histories
<1>5. 0 >= -MaxLag /\ 0 <= Longest BY <1>1
<1>6. SchedulerTypeOK BY <1>2, <1>3, <1>4, <1>5 DEF SchedulerTypeOK, Histories
<1> QED BY <1>1, <1>3, <1>4, <1>6
        DEF SInv, ScheduledIsQueued, NotTooOften, SilenceCounted, CalmWithinInterval

(* No packet is sent before the shortest interval has passed. *)
LEMMA NotEarly ==
  ASSUME SInv, NEW t \in CheckTimes, t <= timer.since
  PROVE  ~(seen.silence < ShortestInterval)
<1>1. ShortestInterval = Smallest(CheckTimes) BY DEF ShortestInterval, CheckTimes
<1>2. Drawn(CheckTimes) BY CheckDrawn DEF SInv
<1>3. PICK s \in CheckTimes : s <= MaxSilence /\ \A u \in CheckTimes : s <= u
  BY <1>2 DEF Drawn
<1>4. Smallest(CheckTimes) \in CheckTimes /\ \A u \in CheckTimes : Smallest(CheckTimes) <= u
  BY <1>3, SmallestIs
<1>5. Smallest(CheckTimes) <= t /\ Smallest(CheckTimes) <= MaxSilence
      /\ Smallest(CheckTimes) \in Int /\ t \in Int
  <2>1. CheckTimes \subseteq Int BY <1>2, LongestIs DEF Drawn
  <2>2. Smallest(CheckTimes) <= t /\ Smallest(CheckTimes) <= s BY <1>4
  <2>3. Smallest(CheckTimes) \in Int /\ t \in Int /\ s \in Int BY <1>4, <2>1
  <2> QED BY <1>3, <2>2, <2>3, SchedulerAssumption
<1> QED BY <1>1, <1>5, SchedulerAssumption DEF SInv, SilenceCounted, SchedulerTypeOK

(* A packet was sent, or could not be. *)
LEMMA SentKeeps ==
  ASSUME SInv, \E t \in CheckTimes : t <= timer.since,
         seen' = Sent(seen.silence < ShortestInterval)
  PROVE  seen' \in Histories /\ seen'.paced /\ seen'.silence = 0 /\ seen'.calm = 0
<1>1. ~(seen.silence < ShortestInterval) BY NotEarly
<1> QED BY <1>1 DEF Sent, SInv, SchedulerTypeOK, NotTooOften, Histories

LEMMA ReconsiderKeeps == ASSUME SInv, Reconsider PROVE SInv'
<1>1. PICK t \in CheckTimes :
        t > timer.since
        /\ timer' = [timer EXCEPT !.due = t - timer.since, !.pmembers = members.total]
  BY DEF Reconsider
<1>2. t \in Int /\ t <= Longest /\ Longest \in Nat /\ MaxLag \in Nat
  BY CheckDrawn, LongestIs, SchedulerAssumption DEF Drawn, SInv
<1>3. /\ timer.since \in Nat /\ seen.calm \in Nat /\ seen.calm <= timer.since
      /\ members.total \in 0 .. MaxMembers /\ members.total # 0 /\ ~timer.firstcall
  BY SchedulerAssumption DEF SInv, SchedulerTypeOK, CalmWithinInterval, Reconsider, Expired
<1>4. /\ timer' \in Timers /\ timer'.due = t - timer.since /\ timer'.since = timer.since
      /\ timer'.firstcall = timer.firstcall /\ timer'.pmembers = members.total
  <2>1. timer \in Timers /\ t - timer.since \in Int
    BY <1>2, <1>3 DEF SInv, SchedulerTypeOK, Timers
  <2> QED BY <1>1, <1>3, <2>1 DEF Timers
<1>5. /\ timer'.due >= -MaxLag /\ timer'.due <= Longest
      /\ seen.calm + timer'.due <= Longest
  BY <1>1, <1>2, <1>3, <1>4
<1>6. UNCHANGED <<bye, members, seen>> BY DEF Reconsider
<1>7. Longest' = Longest BY DEF Longest, LongestDeterministic
<1>8. SchedulerTypeOK'
  BY <1>3, <1>4, <1>5, <1>6, <1>7 DEF SInv, SchedulerTypeOK, Timers
<1> QED BY <1>3, <1>4, <1>5, <1>6, <1>7, <1>8
        DEF SInv, ScheduledIsQueued, NotTooOften, SilenceCounted, CalmWithinInterval

LEMMA TickKeeps == ASSUME SInv, Tick PROVE SInv'
<1>1. /\ timer \in Timers /\ seen \in Histories /\ ~timer.firstcall /\ timer.due > -MaxLag
      /\ timer' = [timer EXCEPT !.due = timer.due - 1, !.since = timer.since + 1]
      /\ seen' = [seen EXCEPT !.silence = Smallest({seen.silence + 1, MaxSilence}),
                              !.calm = Smallest({seen.calm + 1, Longest + MaxLag + 1})]
      /\ UNCHANGED <<bye, members>>
  BY DEF Tick, SInv, SchedulerTypeOK, Timers, Histories
<1>2. Longest \in Nat /\ MaxLag \in Nat /\ MaxSilence \in Nat
  BY LongestIs, SchedulerAssumption
<1>3. /\ timer.due \in Int /\ timer.since \in Nat /\ seen.silence \in Nat /\ seen.calm \in Nat
  BY <1>1 DEF Timers, Histories
<1>4. /\ Smallest({seen.silence + 1, MaxSilence}) \in Nat
      /\ \/ Smallest({seen.silence + 1, MaxSilence}) = seen.silence + 1
         \/ Smallest({seen.silence + 1, MaxSilence}) = MaxSilence
      /\ Smallest({seen.calm + 1, Longest + MaxLag + 1}) \in Nat
      /\ Smallest({seen.calm + 1, Longest + MaxLag + 1}) <= seen.calm + 1
  <2>1. seen.silence + 1 \in Nat /\ seen.calm + 1 \in Nat /\ Longest + MaxLag + 1 \in Nat
    BY <1>2, <1>3
  <2> QED BY <1>2, <2>1, SmallerOfTwo
<1>5. /\ timer' \in Timers /\ timer'.due = timer.due - 1 /\ timer'.since = timer.since + 1
      /\ timer'.firstcall = timer.firstcall /\ timer'.pmembers = timer.pmembers
  <2>1. timer.due - 1 \in Int /\ timer.since + 1 \in Nat BY <1>3
  <2> QED BY <1>1, <2>1 DEF Timers
<1>6. /\ seen' \in Histories /\ seen'.paced = seen.paced
      /\ seen'.silence = seen.silence + 1 \/ seen'.silence = MaxSilence
      /\ seen'.calm \in Nat /\ seen'.calm <= seen.calm + 1
  BY <1>1, <1>4 DEF Histories
<1>7. /\ timer'.due >= -MaxLag /\ timer'.due <= Longest
      /\ timer.since <= seen.silence \/ MaxSilence <= seen.silence
      /\ seen.calm <= timer.since /\ seen.calm + timer.due <= Longest
  BY <1>1, <1>2, <1>3, <1>5 DEF SInv, SchedulerTypeOK, SilenceCounted, CalmWithinInterval
<1>8. Longest' = Longest BY DEF Longest, LongestDeterministic
<1>9. SchedulerTypeOK'
  BY <1>1, <1>5, <1>6, <1>7, <1>8 DEF SInv, SchedulerTypeOK, Timers, Histories
<1>10. SilenceCounted' BY <1>2, <1>3, <1>5, <1>6, <1>7 DEF SilenceCounted
<1>11. CalmWithinInterval'
  BY <1>2, <1>3, <1>5, <1>6, <1>7, <1>8 DEF CalmWithinInterval
<1> QED BY <1>1, <1>6, <1>9, <1>10, <1>11 DEF SInv, ScheduledIsQueued, NotTooOften

LEMMA LeaveKeeps == ASSUME SInv, NEW says \in BOOLEAN, LeaveSession(says) PROVE SInv'
<1> DEFINE n == members.total - 1
<1>1. /\ timer \in Timers /\ seen \in Histories /\ bye \in Byes
      /\ members.total \in 1 .. MaxMembers /\ members.total > 1
      /\ members \in [total : 1 .. MaxMembers, senders : 0 .. MaxMembers, own : BOOLEAN]
  BY DEF SInv, SchedulerTypeOK, Timers, Histories, Byes, LeaveSession
<1>2. /\ Longest \in Nat /\ MaxLag \in Nat /\ MaxMembers \in Nat
      /\ n \in 1 .. MaxMembers /\ n \in Nat \ {0}
  BY <1>1, LongestIs, SchedulerAssumption
<1>3. PICK k \in {members.senders, members.senders - 1} :
        /\ k \in (IF members.own THEN 1 ELSE 0) .. n
        /\ members' = [members EXCEPT !.total = n, !.senders = k]
        /\ timer' = AfterLeaving(timer, n)
  BY DEF LeaveSession
<1>4. seen' = [seen EXCEPT !.calm = 0] /\ bye'.byemembers <= MaxMembers
      /\ bye' = (IF says THEN AnalyseIncoming(bye) ELSE bye)
  BY DEF LeaveSession, Changed
<1> HIDE DEF n
<1>5. /\ members' \in [total : 1 .. MaxMembers, senders : 0 .. MaxMembers, own : BOOLEAN]
      /\ members'.senders <= members'.total /\ (members'.own => members'.senders > 0)
  <2>1. k \in 0 .. MaxMembers /\ k <= n /\ (members.own => k > 0)
    <3>1. CASE members.own BY <1>2, <1>3, <3>1
    <3>2. CASE ~members.own BY <1>2, <1>3, <3>2
    <3> QED BY <3>1, <3>2
  <2> QED BY <1>1, <1>2, <1>3, <2>1
<1>6. /\ bye' \in Byes /\ bye'.queued = bye.queued /\ bye'.byescheduled = bye.byescheduled
  <2>1. CASE bye' = bye BY <1>1, <2>1
  <2>2. CASE bye' = [bye EXCEPT !.byemembers = @ + 1]
    <3>1. bye.byemembers + 1 = bye'.byemembers /\ bye.byemembers \in Nat
      BY <1>1, <2>2 DEF Byes
    <3>2. bye.byemembers + 1 \in 0 .. MaxMembers BY <1>2, <1>4, <3>1
    <3> QED BY <1>1, <2>2, <3>2 DEF Byes
  <2> QED BY <1>4, <2>1, <2>2 DEF AnalyseIncoming
<1>7. /\ seen' \in Histories /\ seen'.calm = 0 /\ seen'.silence = seen.silence
      /\ seen'.paced = seen.paced
  BY <1>1, <1>4 DEF Histories
<1>8. /\ timer' \in Timers /\ timer'.due >= -MaxLag /\ timer'.due <= Longest
      /\ timer'.since <= timer.since
      /\ timer'.firstcall = timer.firstcall /\ (timer'.firstcall <=> timer'.pmembers = 0)
  <2>0. /\ timer.due \in Int /\ timer.due >= -MaxLag /\ timer.due <= Longest
        /\ timer.since \in Nat /\ timer.pmembers \in Nat
        /\ (timer.firstcall <=> timer.pmembers = 0)
    BY <1>1, <1>2 DEF Timers, SInv, SchedulerTypeOK
  <2>1. CASE timer' = timer BY <1>1, <2>0, <2>1
  <2>2. CASE /\ n < timer.pmembers /\ ~timer.firstcall
             /\ timer' = [timer EXCEPT !.due = (n * Longer(timer.due, 0)) \div timer.pmembers,
                                       !.since = (n * timer.since) \div timer.pmembers,
                                       !.pmembers = n]
    <3>1. timer.pmembers \in Nat \ {0} /\ n <= timer.pmembers BY <1>2, <2>0, <2>2
    <3>2. Longer(timer.due, 0) \in Nat /\ Longer(timer.due, 0) <= Longest
      BY <1>2, <2>0 DEF Longer
    <3>3. /\ (n * Longer(timer.due, 0)) \div timer.pmembers \in Nat
          /\ (n * Longer(timer.due, 0)) \div timer.pmembers <= Longer(timer.due, 0)
          /\ (n * timer.since) \div timer.pmembers \in Nat
          /\ (n * timer.since) \div timer.pmembers <= timer.since
      BY <1>2, <2>0, <3>1, <3>2, ShareShrinks
    <3> DEFINE due == (n * Longer(timer.due, 0)) \div timer.pmembers
               since == (n * timer.since) \div timer.pmembers
    <3>4. due \in Int /\ due >= -MaxLag /\ due <= Longest /\ since \in Nat /\ since <= timer.since
      BY <1>2, <3>2, <3>3
    <3>5. timer' = [timer EXCEPT !.due = due, !.since = since, !.pmembers = n]
      BY <2>2
    <3> HIDE DEF due, since
    <3>6. n \in 0 .. MaxMembers /\ n # 0 BY <1>2
    <3> QED BY <1>1, <2>2, <3>4, <3>5, <3>6 DEF Timers
  <2> QED BY <1>3, <2>1, <2>2 DEF AfterLeaving, Shrunk
<1>9. Longest' = Longest BY DEF Longest, LongestDeterministic
<1>10. SchedulerTypeOK'
  BY <1>5, <1>6, <1>7, <1>8, <1>9 DEF SInv, SchedulerTypeOK, Timers, Byes, Histories
<1>11. timer'.since \in Nat /\ timer.since \in Nat /\ seen.silence \in Nat
       /\ MaxSilence \in Nat /\ timer'.due \in Int
  BY <1>1, <1>8, SchedulerAssumption DEF Timers, Histories
<1>12. SilenceCounted' BY <1>7, <1>8, <1>11 DEF SInv, SilenceCounted
<1>13. CalmWithinInterval' BY <1>7, <1>8, <1>9, <1>11 DEF CalmWithinInterval
<1> QED BY <1>6, <1>7, <1>10, <1>12, <1>13 DEF SInv, ScheduledIsQueued, NotTooOften

(* Members join, begin to send or cease to: only calm begins anew. *)
LEMMA ChangeKeeps ==
  ASSUME SInv, UNCHANGED <<timer, bye>>, seen' = Changed,
         members' \in [total : 1 .. MaxMembers, senders : 0 .. MaxMembers, own : BOOLEAN],
         members'.own => members'.senders > 0, members'.senders <= members'.total
  PROVE  SInv'
<1>1. seen \in Histories BY DEF SInv, SchedulerTypeOK, Histories
<1>2. /\ seen' \in Histories /\ seen'.calm = 0 /\ seen'.silence = seen.silence
      /\ seen'.paced = seen.paced
  BY <1>1 DEF Changed, Histories
<1>3. Longest' = Longest BY DEF Longest, LongestDeterministic
<1>4. /\ timer.since \in Nat /\ timer.due \in Int /\ timer.due <= Longest
  BY DEF SInv, SchedulerTypeOK
<1>5. SchedulerTypeOK' BY <1>2, <1>3 DEF SInv, SchedulerTypeOK, Histories
<1>6. CalmWithinInterval' BY <1>2, <1>3, <1>4 DEF CalmWithinInterval
<1> QED BY <1>2, <1>5, <1>6 DEF SInv, ScheduledIsQueued, NotTooOften, SilenceCounted

LEMMA MembersChange ==
  ASSUME SInv, JoinSession \/ BecomeSender \/ SenderTimeout PROVE SInv'
<1>0. /\ members \in [total : 1 .. MaxMembers, senders : 0 .. MaxMembers, own : BOOLEAN]
      /\ members.total \in Nat /\ members.senders \in Nat /\ MaxMembers \in Nat
      /\ members.senders <= members.total /\ (members.own => members.senders > 0)
      /\ 1 <= members.total /\ members.total <= MaxMembers
  BY SchedulerAssumption DEF SInv, SchedulerTypeOK
<1>1. UNCHANGED <<timer, bye>> /\ seen' = Changed
  BY DEF JoinSession, BecomeSender, SenderTimeout
<1>2. CASE JoinSession
  <2>1. members.total < MaxMembers /\ members' = [members EXCEPT !.total = members.total + 1]
    BY <1>2 DEF JoinSession
  <2>2. members.total + 1 \in 1 .. MaxMembers BY <1>0, <2>1
  <2> QED BY <1>0, <1>1, <2>1, <2>2, ChangeKeeps
<1>3. CASE BecomeSender
  <2>1. PICK own \in {members.own, TRUE} :
          members' = [members EXCEPT !.senders = members.senders + 1, !.own = own]
    BY <1>3 DEF BecomeSender
  <2>2. members.senders + 1 <= members.total /\ members.senders + 1 \in 0 .. MaxMembers
    BY <1>0, <1>3 DEF BecomeSender
  <2>3. own \in BOOLEAN BY <1>0
  <2>4. members.senders + 1 > 0 BY <1>0
  <2> QED BY <1>0, <1>1, <2>1, <2>2, <2>3, <2>4, ChangeKeeps
<1>4. CASE SenderTimeout
  <2>1. PICK own \in {members.own, FALSE} :
          /\ own => members.senders > 1
          /\ members' = [members EXCEPT !.senders = members.senders - 1, !.own = own]
    BY <1>4 DEF SenderTimeout
  <2>2. members.senders - 1 \in 0 .. MaxMembers /\ members.senders - 1 <= members.total
    BY <1>0, <1>4 DEF SenderTimeout
  <2>3. own \in BOOLEAN BY <1>0
  <2>4. own => members.senders - 1 > 0 BY <1>0, <2>1
  <2> QED BY <1>0, <1>1, <2>1, <2>2, <2>3, <2>4, ChangeKeeps
<1> QED BY <1>2, <1>3, <1>4

(* The timer is set anew, by the first call, for a BYE or after a packet. *)
LEMMA TimerIsSet ==
  ASSUME SInv, FirstCall \/ OwnCollision \/ SendPacket \/ SendFails PROVE SInv'
<1>0. /\ timer \in Timers /\ seen \in Histories /\ bye \in Byes
      /\ members \in [total : 1 .. MaxMembers, senders : 0 .. MaxMembers, own : BOOLEAN]
      /\ (members.own => members.senders > 0) /\ members.senders <= members.total
      /\ (timer.firstcall <=> timer.pmembers = 0) /\ SchedulerTypeOK
      /\ (bye.byescheduled => bye.queued > 0) /\ seen.paced
      /\ bye.queued \in 0 .. MaxByes /\ bye.queued \in Nat /\ MaxByes \in Nat
  BY SchedulerAssumption
     DEF SInv, SchedulerTypeOK, ScheduledIsQueued, NotTooOften, Timers, Histories, Byes
<1>1. UNCHANGED members BY DEF FirstCall, OwnCollision, SendPacket, SendFails
<1>2. CASE FirstCall
  <2>1. PICK i \in CalculateTransmissionInterval :
          timer' = [Scheduled(timer, i) EXCEPT !.firstcall = FALSE]
    BY <1>2 DEF FirstCall
  <2>2. i \in 0 .. Longest BY <1>0, ReportDrawn DEF Drawn
  <2>3. JustSet(timer') BY <1>0, <2>1, <2>2, ScheduledIsSet
  <2>4. bye' = bye /\ seen' = [seen EXCEPT !.silence = 0, !.calm = 0]
    BY <1>2 DEF FirstCall
  <2>5. seen' \in Histories /\ seen'.paced /\ seen'.silence = 0 /\ seen'.calm = 0
    BY <1>0, <2>4 DEF Histories
  <2> QED BY <1>0, <1>1, <2>3, <2>4, <2>5, StartsAgain
<1>3. CASE OwnCollision
  <2> DEFINE more == [bye EXCEPT !.queued = bye.queued + 1]
  <2>1. bye.queued + 1 \in 0 .. MaxByes /\ bye.queued + 1 > 0
    BY <1>0, <1>3 DEF OwnCollision
  <2>2. /\ more \in Byes /\ more.queued = bye.queued + 1 /\ more.queued > 0
        /\ more.byescheduled = bye.byescheduled
    BY <1>0, <2>1 DEF Byes
  <2>3. CASE bye.queued = 0 /\ ~bye.byescheduled
    <3>1. Schedule(timer, more) /\ seen' = [seen EXCEPT !.silence = 0, !.calm = 0]
      BY <1>3, <2>3 DEF OwnCollision
    <3>2. JustSet(timer') /\ bye' \in Byes /\ bye'.queued > 0
      <4> HIDE DEF more
      <4> QED BY <1>0, <2>2, <3>1, ScheduleSets
    <3>3. seen' \in Histories /\ seen'.paced /\ seen'.silence = 0 /\ seen'.calm = 0
      BY <1>0, <3>1 DEF Histories
    <3> QED BY <1>0, <1>1, <3>2, <3>3, StartsAgain
  <2>4. CASE ~(bye.queued = 0 /\ ~bye.byescheduled)
    <3>1. bye' = more /\ UNCHANGED <<timer, seen>> BY <1>3, <2>4 DEF OwnCollision
    <3>2. ~timer.firstcall \/ ~bye'.byescheduled
      BY <2>2, <3>1 DEF SInv, SchedulerTypeOK
    <3> HIDE DEF more
    <3>3. Longest' = Longest BY DEF Longest, LongestDeterministic
    <3>4. SchedulerTypeOK' BY <1>0, <1>1, <2>2, <3>1, <3>2, <3>3 DEF SchedulerTypeOK, Byes
    <3> QED BY <1>1, <2>2, <3>1, <3>3, <3>4
            DEF SInv, ScheduledIsQueued, NotTooOften, SilenceCounted, CalmWithinInterval
  <2> QED BY <2>3, <2>4
<1>4. CASE SendPacket \/ SendFails
  <2> DEFINE done == [bye EXCEPT !.byescheduled = FALSE,
                                 !.queued = IF bye.queued = 0 THEN 0 ELSE bye.queued - 1]
             sent == AnalyseOutgoing(timer)
  <2>1. ~timer.firstcall /\ timer.pmembers # 0 BY <1>0, <1>4 DEF SendPacket, SendFails, Expired
  <2>2. seen' \in Histories /\ seen'.paced /\ seen'.silence = 0 /\ seen'.calm = 0
    BY <1>4, SentKeeps DEF SendPacket, SendFails
  <2>3. done \in Byes /\ ~done.byescheduled
    <3>1. (IF bye.queued = 0 THEN 0 ELSE bye.queued - 1) \in 0 .. MaxByes BY <1>0
    <3> QED BY <1>0, <3>1 DEF Byes
  <2>4. /\ sent \in Timers /\ ~sent.firstcall
        /\ [sent EXCEPT !.pmembers = members.total] \in Timers
        /\ ~[sent EXCEPT !.pmembers = members.total].firstcall
        /\ [sent EXCEPT !.pmembers = members.total].pmembers # 0
    <3>1. members.total \in 0 .. MaxMembers /\ members.total # 0 BY <1>0, SchedulerAssumption
    <3>2. sent = [timer EXCEPT !.hassentrtcp = TRUE] BY DEF AnalyseOutgoing
    <3> QED BY <1>0, <2>1, <3>1, <3>2 DEF Timers
  <2>5. CASE SendPacket /\ done.queued > 0
    <3>1. Schedule([sent EXCEPT !.pmembers = members.total], done) BY <2>5 DEF SendPacket
    <3>2. JustSet(timer') /\ bye' \in Byes /\ bye'.queued > 0
      <4> DEFINE later == [sent EXCEPT !.pmembers = members.total]
      <4>1. later \in Timers /\ (later.firstcall <=> later.pmembers = 0) BY <2>4
      <4>2. Schedule(later, done) BY <3>1
      <4> HIDE DEF done, later
      <4> QED BY <1>0, <2>3, <2>5, <4>1, <4>2, ScheduleSets
    <3> QED BY <1>0, <1>1, <2>2, <3>2, StartsAgain
  <2>6. CASE SendFails \/ (SendPacket /\ ~(done.queued > 0))
    <3>1. PICK i \in CalculateTransmissionInterval :
            timer' = Scheduled(sent, i) \/ timer' = Scheduled(timer, i)
      BY <2>6 DEF SendPacket, SendFails
    <3>2. bye' = done BY <2>6 DEF SendPacket, SendFails
    <3> HIDE DEF done, sent
    <3>3. i \in 0 .. Longest BY <1>0, ReportDrawn DEF Drawn
    <3>4. JustSet(timer') BY <1>0, <2>1, <2>4, <3>1, <3>3, ScheduledIsSet
    <3> QED BY <1>0, <1>1, <2>2, <2>3, <3>2, <3>4, StartsAgain
  <2> QED BY <1>4, <2>5, <2>6
<1> QED BY <1>2, <1>3, <1>4

LEMMA SInvNext == SInv /\ [SNext]_svars => SInv'
<1> SUFFICES ASSUME SInv, [SNext]_svars PROVE SInv' OBVIOUS
<1>1. CASE UNCHANGED <<schedule, seen>>
  <2>1. UNCHANGED <<timer, bye, members, seen>> BY <1>1 DEF schedule
  <2>2. Longest' = Longest BY DEF Longest, LongestDeterministic
  <2> QED BY <2>1, <2>2 DEF SInv, SchedulerTypeOK, ScheduledIsQueued, NotTooOften,
                            SilenceCounted, CalmWithinInterval
<1>2. CASE FirstCall \/ OwnCollision \/ SendPacket \/ SendFails BY <1>2, TimerIsSet
<1>3. CASE Reconsider BY <1>3, ReconsiderKeeps
<1>4. CASE JoinSession \/ BecomeSender \/ SenderTimeout BY <1>4, MembersChange
<1>5. ASSUME NEW says \in BOOLEAN, LeaveSession(says) PROVE SInv' BY <1>5, LeaveKeeps
<1>6. CASE Tick BY <1>6, TickKeeps
<1> QED BY <1>1, <1>2, <1>3, <1>4, <1>5, <1>6 DEF SNext, ScheduleNext, svars

(* Whatever members come, go and send, and however often the interval is     *)
(* drawn anew or set back, RTCP packets come no more often than the shortest *)
(* interval allows and, once nothing changes, within the longest; and a BYE  *)
(* on schedule is in the queue.                                              *)
THEOREM Scheduler == SSpec => []SchedulerInv
<1>1. SInv => SchedulerInv
  <2> SUFFICES ASSUME SInv PROVE ReportedWhenCalm
    BY DEF SInv, SchedulerInv
  <2>1. /\ Longest \in Nat /\ MaxLag \in Nat /\ seen.calm \in Nat /\ timer.due \in Int
        /\ timer.due >= -MaxLag /\ seen.calm + timer.due <= Longest
    BY LongestIs, SchedulerAssumption DEF SInv, SchedulerTypeOK, CalmWithinInterval
  <2> QED BY <2>1 DEF ReportedWhenCalm
<1> QED BY <1>1, SInvInit, SInvNext, PTL DEF SSpec

-----------------------------------------------------------------------------
(* What is picked of a list.                                                 *)

Less == {w \in Nat \X Nat : w[1] < w[2]}

(* A set of numbers has a smallest, so that what is built step by step can be. *)
LEMMA SmallestExists ==
  ASSUME NEW T \in SUBSET Nat, T # {}
  PROVE  \E m \in T : \A k \in T : m <= k
<1>1. IsWellFoundedOn(Less, Nat) BY NatLessThanWellFounded DEF OpToRel, Less
<1> HIDE DEF Less
<1>2. PICK m \in T : \A k \in T : <<k, m>> \notin Less BY <1>1, WFMin
<1>3. ASSUME NEW k \in T PROVE m <= k
  <2>1. k \in Nat /\ m \in Nat /\ <<k, m>> \notin Less BY <1>2
  <2> QED BY <2>1 DEF Less
<1> QED BY <1>3


(* The members of a list that are in a set.                                  *)
Grows(f, row, T, n) ==
  f[n] = IF n = 0 THEN << >>
         ELSE IF row[n] \in T THEN Append(f[n - 1], row[n]) ELSE f[n - 1]

(* There is the function that Picked defines step by step.                   *)
LEMMA PicksExist ==
  ASSUME NEW row, NEW T
  PROVE  \A N \in Nat : \E f : DOMAIN f = 0 .. N /\ \A n \in 0 .. N : Grows(f, row, T, n)
<1> DEFINE Can(N) == \E f : DOMAIN f = 0 .. N /\ \A n \in 0 .. N : Grows(f, row, T, n)
           Bad == {N \in Nat : ~Can(N)}
<1> SUFFICES ASSUME Bad # {} PROVE FALSE OBVIOUS
<1>1. PICK N \in Bad : \A m \in Bad : N <= m
  <2>1. Bad \in SUBSET Nat OBVIOUS
  <2> HIDE DEF Bad
  <2> QED BY <2>1, SmallestExists
<1>2. N \in Nat /\ ~Can(N) OBVIOUS
<1>3. CASE N = 0
  <2> DEFINE f == [n \in 0 .. 0 |-> << >>]
  <2>1. DOMAIN f = 0 .. N /\ \A n \in 0 .. N : Grows(f, row, T, n) BY <1>3 DEF Grows
  <2> QED BY <1>2, <2>1, Zenon
<1>4. CASE N # 0
  <2>1. N - 1 \in Nat /\ ~(N <= N - 1) BY <1>2, <1>4
  <2>2. Can(N - 1) BY <1>1, <2>1
  <2>3. PICK g : DOMAIN g = 0 .. N - 1 /\ \A n \in 0 .. N - 1 : Grows(g, row, T, n) BY <2>2
  <2> DEFINE top == IF row[N] \in T THEN Append(g[N - 1], row[N]) ELSE g[N - 1]
  <2> HIDE DEF top
  <2> DEFINE f == [n \in 0 .. N |-> IF n = N THEN top ELSE g[n]]
  <2>4. ASSUME NEW n \in 0 .. N PROVE Grows(f, row, T, n)
    <3>1. n \in Nat /\ (n # 0 => n - 1 \in 0 .. N - 1) /\ (n # N => n \in 0 .. N - 1) BY <1>2
    <3>2. \A m \in 0 .. N - 1 : f[m] = g[m] BY <1>2
    <3>3. CASE n = N
      <4>1. f[n] = top /\ f[n - 1] = g[n - 1] BY <1>2, <1>4, <3>1, <3>2, <3>3
      <4> QED BY <1>4, <3>3, <4>1 DEF Grows, top
    <3>4. CASE n # N
      <4>1. Grows(g, row, T, n) /\ f[n] = g[n] /\ (n # 0 => f[n - 1] = g[n - 1])
        BY <2>3, <3>1, <3>2, <3>4
      <4> HIDE DEF f
      <4> QED BY <4>1 DEF Grows
    <3> QED BY <3>3, <3>4
  <2>5. DOMAIN f = 0 .. N OBVIOUS
  <2> HIDE DEF f
  <2> QED BY <1>2, <2>4, <2>5
<1> QED BY <1>3, <1>4

(* And it is the one.                                                        *)
LEMMA PickedUpToIs ==
  ASSUME NEW row, NEW T, Len(row) \in Nat
  PROVE  /\ DOMAIN PickedUpTo(row, T) = 0 .. Len(row)
         /\ \A n \in 0 .. Len(row) : Grows(PickedUpTo(row, T), row, T, n)
<1> DEFINE at == PickedUpTo(row, T)
           Step(f) == [n \in 0 .. Len(row) |->
                         IF n = 0 THEN << >>
                         ELSE IF row[n] \in T THEN Append(f[n - 1], row[n]) ELSE f[n - 1]]
<1>1. \E f : f = Step(f)
  <2>1. PICK g : /\ DOMAIN g = 0 .. Len(row)
                 /\ \A n \in 0 .. Len(row) : Grows(g, row, T, n)
    BY PicksExist
  <2> DEFINE f == [n \in 0 .. Len(row) |-> g[n]]
  <2>2. ASSUME NEW n \in 0 .. Len(row) PROVE f[n] = Step(f)[n]
    <3>1. n # 0 => n - 1 \in 0 .. Len(row) OBVIOUS
    <3> QED BY <2>1, <3>1 DEF Grows
  <2>3. f = Step(f) BY <2>2
  <2> QED BY <2>3
<1>2. at = CHOOSE f : f = Step(f) BY Zenon DEF PickedUpTo
<1>3. at = Step(at)
  <2> HIDE DEF at, Step
  <2> QED BY <1>1, <1>2, Zenon
<1> HIDE DEF at
<1> QED BY <1>3 DEF Grows, at

(* Whatever else grows the same way ends as Picked does.                     *)
LEMMA PickedUnique ==
  ASSUME NEW row, NEW T, Len(row) \in Nat,
         NEW f, \A n \in 0 .. Len(row) : Grows(f, row, T, n)
  PROVE  f[Len(row)] = Picked(row, T)
<1> DEFINE at == PickedUpTo(row, T)  Bad == {n \in 0 .. Len(row) : f[n] # at[n]}
<1>1. Bad = {}
  <2> SUFFICES ASSUME Bad # {} PROVE FALSE OBVIOUS
  <2>1. PICK n \in Bad : \A m \in Bad : n <= m
    <3>1. Bad \in SUBSET Nat OBVIOUS
    <3> HIDE DEF Bad
    <3> QED BY <3>1, SmallestExists
  <2>2. n \in 0 .. Len(row) /\ n \in Nat /\ f[n] # at[n] OBVIOUS
  <2>3. Grows(f, row, T, n) /\ Grows(at, row, T, n) BY <2>2, PickedUpToIs
  <2>4. n # 0 => n - 1 \in 0 .. Len(row) /\ n - 1 \notin Bad BY <2>1, <2>2
  <2>5. n # 0 => f[n - 1] = at[n - 1] BY <2>4
  <2> HIDE DEF at, Bad
  <2> QED BY <2>2, <2>3, <2>5 DEF Grows
<1>2. Len(row) \in 0 .. Len(row) OBVIOUS
<1> HIDE DEF at
<1>3. f[Len(row)] = at[Len(row)] BY <1>1, <1>2
<1> QED BY <1>3 DEF at, Picked

(* Only what is in the set is picked.                                        *)
LEMMA PickedUpToType ==
  ASSUME NEW A, NEW row \in Seq(A), NEW T
  PROVE  \A n \in 0 .. Len(row) : PickedUpTo(row, T)[n] \in Seq(A \cap T)
<1> DEFINE at == PickedUpTo(row, T)  Bad == {n \in 0 .. Len(row) : at[n] \notin Seq(A \cap T)}
<1> SUFFICES ASSUME Bad # {} PROVE FALSE OBVIOUS
<1>1. PICK n \in Bad : \A m \in Bad : n <= m
  <2>1. Bad \in SUBSET Nat OBVIOUS
  <2> HIDE DEF Bad
  <2> QED BY <2>1, SmallestExists
<1>2. n \in 0 .. Len(row) /\ n \in Nat /\ at[n] \notin Seq(A \cap T) OBVIOUS
<1>3. Grows(at, row, T, n) BY <1>2, PickedUpToIs
<1>4. n # 0 => n - 1 \in 0 .. Len(row) /\ n - 1 \notin Bad /\ row[n] \in A BY <1>1, <1>2
<1>5. n # 0 => at[n - 1] \in Seq(A \cap T) BY <1>4
<1> HIDE DEF at, Bad
<1>6. n = 0 => at[n] = << >> BY <1>3 DEF Grows
<1>7. CASE n # 0 /\ row[n] \in T
  <2>1. at[n] = Append(at[n - 1], row[n]) BY <1>3, <1>7 DEF Grows
  <2>2. row[n] \in A \cap T BY <1>4, <1>7
  <2> QED BY <1>2, <1>5, <1>7, <2>1, <2>2
<1>8. CASE n # 0 /\ row[n] \notin T
  <2>1. at[n] = at[n - 1] BY <1>3, <1>8 DEF Grows
  <2> QED BY <1>2, <1>5, <1>8, <2>1
<1>9. << >> \in Seq(A \cap T) OBVIOUS
<1>10. n = 0 \/ (n # 0 /\ row[n] \in T) \/ (n # 0 /\ row[n] \notin T) OBVIOUS
<1> QED BY <1>2, <1>6, <1>7, <1>8, <1>9, <1>10, Zenon

(* Everything is picked when all are in the set, and nothing when none is.   *)
LEMMA PickedIs ==
  ASSUME NEW A, NEW row \in Seq(A), NEW T
  PROVE  /\ Picked(row, T) \in Seq(A) /\ Picked(row, T) \in Seq(A \cap T)
         /\ (\A n \in 1 .. Len(row) : row[n] \in T) => Picked(row, T) = row
         /\ (\A n \in 1 .. Len(row) : row[n] \notin T) => Picked(row, T) = << >>
<1>1. Len(row) \in Nat /\ Len(row) \in 0 .. Len(row) OBVIOUS
<1>2. Picked(row, T) \in Seq(A \cap T) BY <1>1, PickedUpToType DEF Picked
<1>3. Picked(row, T) \in Seq(A) BY <1>2
<1>4. ASSUME \A n \in 1 .. Len(row) : row[n] \in T PROVE Picked(row, T) = row
  <2> DEFINE f == [n \in 0 .. Len(row) |-> SubSeq(row, 1, n)]
  <2>1. ASSUME NEW n \in 0 .. Len(row) PROVE Grows(f, row, T, n)
    <3>1. CASE n = 0 BY <3>1 DEF Grows
    <3>2. CASE n # 0
      <4>1. n \in 1 .. Len(row) /\ n - 1 \in 0 .. Len(row) /\ row[n] \in T BY <1>1, <1>4, <3>2
      <4>2. SubSeq(row, 1, n) = Append(SubSeq(row, 1, n - 1), row[n]) BY <1>1, <4>1
      <4>3. f[n] = SubSeq(row, 1, n) /\ f[n - 1] = SubSeq(row, 1, n - 1) BY <4>1
      <4> HIDE DEF f
      <4> QED BY <3>2, <4>1, <4>2, <4>3 DEF Grows
    <3> QED BY <3>1, <3>2
  <2>2. f[Len(row)] = row BY <1>1
  <2> HIDE DEF f
  <2> QED BY <1>1, <2>1, <2>2, PickedUnique
<1>5. ASSUME \A n \in 1 .. Len(row) : row[n] \notin T PROVE Picked(row, T) = << >>
  <2> DEFINE f == [n \in 0 .. Len(row) |-> << >>]
  <2>1. ASSUME NEW n \in 0 .. Len(row) PROVE Grows(f, row, T, n)
    <3>1. n # 0 => n \in 1 .. Len(row) /\ n - 1 \in 0 .. Len(row) BY <1>1
    <3> QED BY <1>5, <3>1 DEF Grows
  <2>2. f[Len(row)] = << >> BY <1>1
  <2> HIDE DEF f
  <2> QED BY <1>1, <2>1, <2>2, PickedUnique
<1> QED BY <1>2, <1>3, <1>4, <1>5

-----------------------------------------------------------------------------
(* Lengths and their sum.                                                    *)

(* A function built step by step by F from v exists.                         *)
Steps(f, v, F, N) == f[0] = v /\ \A n \in 1 .. N : f[n] = F[<<n, f[n - 1]>>]

LEMMA StepByStep ==
  ASSUME NEW V, NEW v \in V, NEW F \in [Nat \X V -> V]
  PROVE  \A N \in Nat : \E f \in [0 .. N -> V] : Steps(f, v, F, N)
<1> USE DEF Steps
<1> DEFINE Can(N) == \E f \in [0 .. N -> V] :
                       f[0] = v /\ \A n \in 1 .. N : f[n] = F[<<n, f[n - 1]>>]
           Bad == {N \in Nat : ~Can(N)}
<1> SUFFICES ASSUME Bad # {} PROVE FALSE OBVIOUS
<1>1. PICK N \in Bad : \A m \in Bad : N <= m
  <2>1. Bad \in SUBSET Nat OBVIOUS
  <2> HIDE DEF Bad
  <2> QED BY <2>1, SmallestExists
<1>2. N \in Nat /\ ~Can(N) OBVIOUS
<1>3. CASE N = 0
  <2> DEFINE f == [n \in 0 .. 0 |-> v]
  <2>1. f \in [0 .. N -> V] /\ f[0] = v /\ 1 .. N = {} BY <1>3
  <2> HIDE DEF f
  <2> QED BY <1>2, <2>1
<1>4. CASE N # 0
  <2>1. N - 1 \in Nat /\ ~(N <= N - 1) BY <1>2, <1>4
  <2>2. Can(N - 1) BY <1>1, <2>1
  <2>3. PICK g \in [0 .. N - 1 -> V] :
          g[0] = v /\ \A n \in 1 .. N - 1 : g[n] = F[<<n, g[n - 1]>>]
    BY <2>2
  <2> DEFINE top == F[<<N, g[N - 1]>>]
  <2>4. top \in V BY <1>2, <2>1
  <2> HIDE DEF top
  <2> DEFINE f == [n \in 0 .. N |-> IF n = N THEN top ELSE g[n]]
  <2>5. f \in [0 .. N -> V] BY <1>2, <1>4, <2>4
  <2>6. \A n \in 0 .. N - 1 : f[n] = g[n] BY <1>2
  <2>7. f[N] = top BY <1>2
  <2> HIDE DEF f
  <2>8. f[0] = v BY <2>1, <2>3, <2>6
  <2>9. ASSUME NEW n \in 1 .. N PROVE f[n] = F[<<n, f[n - 1]>>]
    <3>1. n - 1 \in 0 .. N - 1 /\ f[n - 1] = g[n - 1] BY <1>2, <2>6
    <3>2. CASE n = N BY <2>7, <3>1, <3>2 DEF top
    <3>3. CASE n # N
      <4>1. n \in 1 .. N - 1 /\ n \in 0 .. N - 1 BY <1>2, <3>3
      <4> QED BY <2>3, <2>6, <3>1, <4>1
    <3> QED BY <3>2, <3>3
  <2> QED BY <1>2, <2>5, <2>8, <2>9
<1> QED BY <1>3, <1>4

(* Lengths up to n are the lengths up to the one before and the n-th.        *)
LEMMA SizeUpToIs ==
  ASSUME NEW b \in Seq(Nat)
  PROVE  /\ \A n \in 0 .. Len(b) : SizeUpTo(b)[n] \in Nat
         /\ SizeUpTo(b)[0] = 0
         /\ \A n \in 1 .. Len(b) : SizeUpTo(b)[n] = SizeUpTo(b)[n - 1] + b[n]
<1> DEFINE at == SizeUpTo(b)
           Step(f) == [n \in 0 .. Len(b) |-> IF n = 0 THEN 0 ELSE f[n - 1] + b[n]]
           F == [x \in Nat \X Nat |-> x[2] + IF x[1] \in 1 .. Len(b) THEN b[x[1]] ELSE 0]
<1>0. Len(b) \in Nat /\ F \in [Nat \X Nat -> Nat]
  <2>1. \A x \in Nat \X Nat : (IF x[1] \in 1 .. Len(b) THEN b[x[1]] ELSE 0) \in Nat OBVIOUS
  <2> QED BY <2>1
<1>1. PICK g \in [0 .. Len(b) -> Nat] :
        g[0] = 0 /\ \A n \in 1 .. Len(b) : g[n] = F[<<n, g[n - 1]>>]
  <2> HIDE DEF F
  <2>1. 0 \in Nat OBVIOUS
  <2>2. \A N \in Nat : \E f \in [0 .. N -> Nat] : Steps(f, 0, F, N)
    BY <1>0, <2>1, StepByStep
  <2>3. PICK f \in [0 .. Len(b) -> Nat] : Steps(f, 0, F, Len(b)) BY <1>0, <2>2
  <2> QED BY <2>3 DEF Steps
<1>2. \A n \in 1 .. Len(b) : g[n] = g[n - 1] + b[n]
  <2> SUFFICES ASSUME NEW n \in 1 .. Len(b) PROVE g[n] = g[n - 1] + b[n] OBVIOUS
  <2>1. n - 1 \in 0 .. Len(b) /\ g[n - 1] \in Nat /\ n \in Nat BY <1>0
  <2>2. F[<<n, g[n - 1]>>] = g[n - 1] + b[n] BY <2>1
  <2> QED BY <1>1, <2>2
<1>3. g = Step(g)
  <2>1. \A n \in 0 .. Len(b) : n = 0 \/ n \in 1 .. Len(b) BY <1>0
  <2>2. \A n \in 0 .. Len(b) : g[n] = Step(g)[n] BY <1>1, <1>2, <2>1
  <2> QED BY <2>2
<1>4. at = CHOOSE f : f = Step(f) BY Zenon DEF SizeUpTo
<1>5. at = Step(at)
  <2> HIDE DEF at, Step
  <2> QED BY <1>3, <1>4, Zenon
<1>6. at[0] = 0 /\ \A n \in 1 .. Len(b) : at[n] = at[n - 1] + b[n]
  <2> HIDE DEF at
  <2> QED BY <1>0, <1>5
<1> HIDE DEF at
<1>7. \A n \in 0 .. Len(b) : at[n] \in Nat
  <2> DEFINE Bad == {n \in 0 .. Len(b) : at[n] \notin Nat}
  <2> SUFFICES ASSUME Bad # {} PROVE FALSE OBVIOUS
  <2>1. PICK n \in Bad : \A m \in Bad : n <= m
    <3>1. Bad \in SUBSET Nat OBVIOUS
    <3> HIDE DEF Bad
    <3> QED BY <3>1, SmallestExists
  <2>2. n # 0 /\ n \in 1 .. Len(b) /\ n - 1 \in 0 .. Len(b) BY <1>0, <1>6
  <2>3. n - 1 \notin Bad BY <2>1, <2>2
  <2>4. at[n - 1] \in Nat BY <2>2, <2>3
  <2>5. b[n] \in Nat BY <2>2
  <2>6. at[n] = at[n - 1] + b[n] BY <1>6, <2>2
  <2>7. at[n] \in Nat BY <2>4, <2>5, <2>6
  <2> QED BY <2>7
<1> QED BY <1>6, <1>7 DEF at

LEMMA SizeType == ASSUME NEW b \in Seq(Nat) PROVE SizeOf(b) \in Nat
BY SizeUpToIs DEF SizeOf

(* Whatever grows by the same lengths is their sum.                          *)
LEMMA SizeUnique ==
  ASSUME NEW b \in Seq(Nat), NEW f, f[0] = 0, \A n \in 1 .. Len(b) : f[n] = f[n - 1] + b[n]
  PROVE  \A n \in 0 .. Len(b) : f[n] = SizeUpTo(b)[n]
<1> DEFINE at == SizeUpTo(b)  Bad == {n \in 0 .. Len(b) : f[n] # at[n]}
<1> SUFFICES ASSUME Bad # {} PROVE FALSE OBVIOUS
<1>1. PICK n \in Bad : \A m \in Bad : n <= m
  <2>1. Bad \in SUBSET Nat OBVIOUS
  <2> HIDE DEF Bad
  <2> QED BY <2>1, SmallestExists
<1>2. at[0] = 0 /\ \A m \in 1 .. Len(b) : at[m] = at[m - 1] + b[m] BY SizeUpToIs
<1> HIDE DEF at
<1>3. n # 0 /\ n \in 1 .. Len(b) /\ n - 1 \in 0 .. Len(b) BY <1>2
<1>4. n - 1 \notin Bad BY <1>1, <1>3
<1> QED BY <1>2, <1>3, <1>4

LEMMA SizePrefix ==
  ASSUME NEW b \in Seq(Nat), NEW c \in Seq(Nat), Len(c) <= Len(b),
         \A i \in 1 .. Len(c) : c[i] = b[i]
  PROVE  SizeOf(c) = SizeUpTo(b)[Len(c)]
<1> DEFINE f == SizeUpTo(b)
<1>1. f[0] = 0 /\ \A n \in 1 .. Len(b) : f[n] = f[n - 1] + b[n] BY SizeUpToIs
<1> HIDE DEF f
<1>2. \A n \in 1 .. Len(c) : f[n] = f[n - 1] + c[n] BY <1>1
<1>3. f[Len(c)] = SizeUpTo(c)[Len(c)] BY <1>1, <1>2, SizeUnique
<1> QED BY <1>3 DEF f, SizeOf

(* A part is no longer than the whole.                                       *)
LEMMA SizeGrows ==
  ASSUME NEW b \in Seq(Nat), NEW k \in 0 .. Len(b)
  PROVE  SizeUpTo(b)[k] <= SizeOf(b)
<1> DEFINE f == SizeUpTo(b)  Bad == {n \in k .. Len(b) : ~(f[k] <= f[n])}
<1>1. /\ f[0] = 0 /\ \A n \in 1 .. Len(b) : f[n] = f[n - 1] + b[n]
      /\ \A n \in 0 .. Len(b) : f[n] \in Nat
  BY SizeUpToIs
<1> HIDE DEF f
<1>2. Bad = {}
  <2> SUFFICES ASSUME Bad # {} PROVE FALSE OBVIOUS
  <2>1. PICK n \in Bad : \A m \in Bad : n <= m
    <3>1. Bad \in SUBSET Nat OBVIOUS
    <3> HIDE DEF Bad
    <3> QED BY <3>1, SmallestExists
  <2>2. f[k] \in Nat BY <1>1
  <2>3. n # k BY <2>2
  <2>4. n \in 1 .. Len(b) /\ n - 1 \in k .. Len(b) /\ n - 1 \in 0 .. Len(b) BY <2>3
  <2>5. f[k] <= f[n - 1] BY <2>1, <2>4
  <2>6. f[n] = f[n - 1] + b[n] /\ f[n - 1] \in Nat /\ b[n] \in Nat BY <1>1, <2>4
  <2>7. f[k] <= f[n] BY <2>2, <2>5, <2>6
  <2> QED BY <2>7
<1>3. Len(b) \in k .. Len(b) OBVIOUS
<1> QED BY <1>2, <1>3 DEF f, SizeOf

LEMMA SizeConcat ==
  ASSUME NEW a \in Seq(Nat), NEW b \in Seq(Nat)
  PROVE  SizeOf(a \o b) = SizeOf(a) + SizeOf(b)
<1> DEFINE x == SizeUpTo(a)  y == SizeUpTo(b)  c == a \o b
           f == [n \in 0 .. Len(a) + Len(b) |-> IF n <= Len(a) THEN x[n] ELSE x[Len(a)] + y[n - Len(a)]]
<1>1. /\ Len(a) \in Nat /\ Len(b) \in Nat /\ c \in Seq(Nat) /\ Len(c) = Len(a) + Len(b)
      /\ \A n \in 1 .. Len(c) : c[n] = IF n <= Len(a) THEN a[n] ELSE b[n - Len(a)]
  OBVIOUS
<1>2. /\ x[0] = 0 /\ \A n \in 1 .. Len(a) : x[n] = x[n - 1] + a[n]
      /\ \A n \in 0 .. Len(a) : x[n] \in Nat
  BY SizeUpToIs
<1>3. /\ y[0] = 0 /\ \A n \in 1 .. Len(b) : y[n] = y[n - 1] + b[n]
      /\ \A n \in 0 .. Len(b) : y[n] \in Nat
  BY SizeUpToIs
<1> HIDE DEF x, y, c
<1>4. \A n \in 0 .. Len(c) : f[n] = IF n <= Len(a) THEN x[n] ELSE x[Len(a)] + y[n - Len(a)]
  BY <1>1
<1> HIDE DEF f
<1>5. f[0] = 0 BY <1>1, <1>2, <1>4
<1>6. ASSUME NEW n \in 1 .. Len(c) PROVE f[n] = f[n - 1] + c[n]
  <2>1. n \in 0 .. Len(c) /\ n - 1 \in 0 .. Len(c) BY <1>1
  <2>2. CASE n <= Len(a)
    <3>1. n \in 1 .. Len(a) /\ n - 1 <= Len(a) BY <1>1, <2>2
    <3> QED BY <1>1, <1>2, <1>4, <2>1, <2>2, <3>1
  <2>3. CASE ~(n <= Len(a))
    <3>1. n - Len(a) \in 1 .. Len(b) /\ n - Len(a) - 1 \in 0 .. Len(b) BY <1>1, <2>3
    <3>2. f[n] = x[Len(a)] + y[n - Len(a)] /\ c[n] = b[n - Len(a)] BY <1>1, <1>4, <2>1, <2>3
    <3>3. f[n - 1] = x[Len(a)] + y[n - Len(a) - 1]
      <4>1. CASE n - 1 <= Len(a)
        <5>0. n \in Int /\ Len(a) \in Int BY <1>1
        <5>1. n - 1 = Len(a) /\ n - Len(a) - 1 = 0 BY <5>0, <2>3, <4>1
        <5> QED BY <1>1, <1>2, <1>3, <1>4, <2>1, <5>1
      <4>2. CASE ~(n - 1 <= Len(a))
        <5>1. n - 1 - Len(a) = n - Len(a) - 1 BY <1>1
        <5> QED BY <1>4, <2>1, <4>2, <5>1
      <4> QED BY <4>1, <4>2
    <3>4. y[n - Len(a)] = y[n - Len(a) - 1] + b[n - Len(a)] BY <1>3, <3>1
    <3>5. x[Len(a)] \in Nat /\ y[n - Len(a) - 1] \in Nat /\ b[n - Len(a)] \in Nat
      BY <1>1, <1>2, <1>3, <3>1
    <3> QED BY <3>2, <3>3, <3>4, <3>5
  <2> QED BY <2>2, <2>3
<1>7. f[Len(c)] = SizeUpTo(c)[Len(c)]
  <2>1. \A n \in 1 .. Len(c) : f[n] = f[n - 1] + c[n] BY <1>6
  <2>2. \A n \in 0 .. Len(c) : f[n] = SizeUpTo(c)[n] BY <1>1, <1>5, <2>1, SizeUnique
  <2> QED BY <1>1, <2>2
<1>8. f[Len(c)] = x[Len(a)] + y[Len(b)]
  <2>1. CASE Len(b) = 0 BY <1>1, <1>2, <1>3, <1>4, <2>1
  <2>2. CASE Len(b) # 0
    <3>1. ~(Len(c) <= Len(a)) /\ Len(c) - Len(a) = Len(b) /\ Len(c) \in 0 .. Len(c)
      BY <1>1, <2>2
    <3> QED BY <1>4, <3>1
  <2> QED BY <2>1, <2>2
<1> QED BY <1>7, <1>8 DEF c, x, y, SizeOf

LEMMA SizeOfFew ==
  ASSUME NEW x \in Nat
  PROVE  SizeOf(<< >>) = 0 /\ SizeOf(<<x>>) = x
<1> DEFINE one == <<x>>  none == << >>
<1>1. /\ one \in Seq(Nat) /\ Len(one) = 1 /\ one[1] = x
      /\ none \in Seq(Nat) /\ Len(none) = 0
  OBVIOUS
<1> HIDE DEF one, none
<1>2. SizeUpTo(none)[0] = 0 BY <1>1, SizeUpToIs
<1>3. SizeUpTo(one)[0] = 0 /\ 1 \in 1 .. Len(one) BY <1>1, SizeUpToIs
<1>4. SizeUpTo(one)[1] = SizeUpTo(one)[1 - 1] + one[1] BY <1>1, <1>3, SizeUpToIs
<1>5. SizeUpTo(one)[1] = x BY <1>1, <1>3, <1>4
<1> QED BY <1>1, <1>2, <1>5 DEF SizeOf, one, none

LEMMA SizeAppend ==
  ASSUME NEW b \in Seq(Nat), NEW x \in Nat
  PROVE  SizeOf(Append(b, x)) = SizeOf(b) + x
<1>1. Append(b, x) = b \o <<x>> BY AppendIsConcat
<1>2. <<x>> \in Seq(Nat) OBVIOUS
<1> HIDE DEF SizeOf
<1> QED BY <1>1, <1>2, SizeConcat, SizeOfFew

-----------------------------------------------------------------------------
(* The arithmetic of a packet: words, and chunks under a header.             *)

(* The packets that n elements take: as many as it takes, and no more.       *)
LEMMA PacketsIs ==
  ASSUME NEW n \in Nat
  PROVE  /\ Packets(n) \in Nat /\ n <= Packets(n) * MaxCount
         /\ n = 0 => Packets(n) = 0
         /\ n > 0 => Packets(n) > 0 /\ (Packets(n) - 1) * MaxCount < n
<1> DEFINE M == MaxCount  q == (n + M - 1) \div M  r == (n + M - 1) % M
<1>1. M \in Nat /\ M > 0 BY SizeAssumption
<1>2. n + M - 1 = M * q + r /\ r \in 0 .. M - 1 /\ q \in Int
  <2> DEFINE a == n + M - 1
  <2>1. a \in Int BY <1>1
  <2> HIDE DEF a, M
  <2>2. a = M * (a \div M) + (a % M) /\ (a % M) \in 0 .. M - 1 /\ a \div M \in Int
    BY <1>1, <2>1, Z3
  <2> QED BY <2>2 DEF a
<1>3. Packets(n) = q BY DEF Packets
<1> HIDE DEF M, q, r
<1>4. q * M = M * q /\ (q - 1) * M = M * q - M /\ M * q \in Int BY <1>1, <1>2
<1>5. n <= q * M /\ (n > 0 => (q - 1) * M < n) BY <1>1, <1>2, <1>4
<1>6. q >= 0
  <2> SUFFICES ASSUME q <= 0 - 1 PROVE FALSE BY <1>2
  <2>1. M * q <= 0 - M BY <1>1, <1>2
  <2> QED BY <1>1, <1>2, <1>4, <2>1
<1>7. n > 0 => q > 0 BY <1>1, <1>2, <1>4, <1>5, <1>6
<1>8. n = 0 => q = 0
  <2> SUFFICES ASSUME n = 0, q >= 1 PROVE FALSE BY <1>2, <1>6
  <2>1. M * q >= M BY <1>1, <1>2
  <2> QED BY <1>1, <1>2, <1>4, <2>1
<1> QED BY <1>2, <1>3, <1>5, <1>6, <1>7, <1>8 DEF M

LEMMA OnePacket == Packets(1) = 1
<1> DEFINE q == Packets(1)
<1>1. q \in Nat /\ q > 0 /\ (q - 1) * MaxCount < 1 /\ MaxCount \in Nat /\ MaxCount > 0
  BY PacketsIs, SizeAssumption
<1> HIDE DEF q
<1>2. SUFFICES ASSUME q >= 2 PROVE FALSE BY <1>1 DEF q
<1>3. (q - 1) * MaxCount >= 1 BY <1>1, <1>2
<1>4. (q - 1) * MaxCount \in Int BY <1>1
<1> QED BY <1>1, <1>3, <1>4

(* Rounding up to words.                                                     *)
LEMMA AlignedIs ==
  ASSUME NEW n \in Nat
  PROVE  /\ Aligned(n) \in Nat /\ Aligned(n) >= n /\ Aligned(n) % 4 = 0
         /\ Aligned(8 + n) = 8 + Aligned(n)
BY DEF Aligned, Word

LEMMA AlignedMonotone ==
  ASSUME NEW n \in Nat, NEW k \in Nat, n <= k
  PROVE  Aligned(n) <= Aligned(k)
BY DEF Aligned, Word

(* How many elements the chunks up to the k-th hold.                         *)
Held(n, k) == IF k * MaxCount < n THEN k * MaxCount ELSE n

LEMMA ChunkLength ==
  ASSUME NEW S, NEW s \in Seq(S), NEW k \in 1 .. Max1(Packets(Len(s)))
  PROVE  /\ Held(Len(s), k) \in Nat /\ Held(Len(s), k - 1) \in Nat
         /\ Chunk(s, k) \in Seq(S)
         /\ Len(Chunk(s, k)) \in Nat /\ Len(Chunk(s, k)) <= MaxCount
         /\ Len(Chunk(s, k)) = Held(Len(s), k) - Held(Len(s), k - 1)
<1> DEFINE M == MaxCount  n == Len(s)  q == Packets(n)
<1>1. M \in Nat /\ M > 0 /\ n \in Nat BY SizeAssumption
<1>2. q \in Nat /\ n <= q * M /\ (n = 0 => q = 0) /\ (n > 0 => q > 0 /\ (q - 1) * M < n)
  BY <1>1, PacketsIs
<1>3. k \in Nat /\ k >= 1 /\ k <= Max1(q) BY <1>2 DEF Max1
<1> HIDE DEF M, n, q
<1>4. k * M \in Nat /\ (k - 1) * M \in Nat /\ k * M = (k - 1) * M + M
      /\ (q - 1) * M \in Int
  BY <1>1, <1>2, <1>3
<1>5. (k - 1) * M <= n /\ (n > 0 => (k - 1) * M < n)
  <2>1. CASE n = 0
    <3>1. k = 1 BY <1>2, <1>3, <2>1 DEF Max1
    <3>2. (k - 1) * M = 0 BY <1>1, <3>1
    <3> QED BY <2>1, <3>2
  <2>2. CASE n > 0
    <3>1. k <= q BY <1>2, <1>3, <2>2 DEF Max1
    <3>2. (k - 1) * M <= (q - 1) * M
      <4>1. k - 1 \in Nat /\ q - k \in Nat BY <1>2, <1>3, <3>1
      <4>2. (q - k) * M \in Nat BY <1>1, <4>1
      <4>3. (q - 1) * M = (k - 1) * M + (q - k) * M BY <1>1, <1>2, <1>3, <4>1
      <4> QED BY <1>4, <4>2, <4>3
    <3> QED BY <1>1, <1>2, <1>4, <2>2, <3>2
  <2> QED BY <1>1, <2>1, <2>2
<1> DEFINE end == IF k * M < n THEN k * M ELSE n
<1>6. end \in Nat /\ end <= n /\ end >= (k - 1) * M /\ end - (k - 1) * M <= M
  BY <1>1, <1>4, <1>5
<1>7. Held(n, k) = end /\ Held(n, k - 1) = (k - 1) * M
  BY <1>1, <1>4, <1>5 DEF Held, M
<1>8. Chunk(s, k) = SubSeq(s, (k - 1) * M + 1, end) BY DEF Chunk, M, n
<1> HIDE DEF end
<1>9. SubSeq(s, (k - 1) * M + 1, end) \in Seq(S)
      /\ Len(SubSeq(s, (k - 1) * M + 1, end)) = end - (k - 1) * M
  <2> DEFINE a == (k - 1) * M + 1
  <2>1. a \in Nat /\ a >= 1 /\ end \in Nat /\ end <= Len(s) /\ end >= a - 1
    BY <1>1, <1>4, <1>6 DEF n
  <2>2. end - (k - 1) * M = end - a + 1 BY <1>4, <1>6
  <2> HIDE DEF a
  <2>3. SubSeq(s, a, end) \in Seq(S) /\ Len(SubSeq(s, a, end)) = end - a + 1
    <3>1. SubSeq(s, a, end) = [i \in 1 .. end - a + 1 |-> s[i + a - 1]]
      BY <2>1 
    <3>2. end - a + 1 \in Nat BY <2>1
    <3>3. \A i \in 1 .. end - a + 1 : s[i + a - 1] \in S BY <2>1
    <3> QED BY <3>1, <3>2, <3>3
  <2> QED BY <2>2, <2>3 DEF a
<1> QED BY <1>1, <1>4, <1>6, <1>7, <1>8, <1>9 DEF M, n

-----------------------------------------------------------------------------
(* A packet as EndBuild lays it out.                                         *)

Block == [ssrc : Sources, num : {0, 1}]
Words == {n \in Nat : n % 4 = 0}

(* What a packet that was begun looks like: a report, one source of items,   *)
(* and what was put behind them, each of whole words.                        *)
Compounds == [report : {"SR", "RR"}, blocks : Seq(Block), sdes : Seq(Seq(Nat)),
          app : Seq(Words), bye : Seq(Words)]
Begun(p) == p \in Compounds /\ Len(p.sdes) = 1

ItemBytes(items) == SizeOf([i \in DOMAIN items |-> SDESHeader + items[i]])

Lengths(row) == [k \in DOMAIN row |-> row[k].length]

RtcpPacket == [type : {"SR", "RR", "SDES", "APP", "BYE"}, count : Nat, length : Words]

LEMMA ItemBytesType ==
  ASSUME NEW items \in Seq(Nat)
  PROVE  ItemBytes(items) \in Nat
<1> DEFINE b == [i \in DOMAIN items |-> SDESHeader + items[i]]
<1>1. b \in Seq(Nat) BY DEF SDESHeader
<1> HIDE DEF b
<1>2. SizeOf(b) \in Nat BY <1>1, SizeType
<1> QED BY <1>2 DEF ItemBytes, b

LEMMA SourceBytesIs ==
  ASSUME NEW items \in Seq(Nat)
  PROVE  /\ SourceBytes(items) = 4 + Aligned(ItemBytes(items) + 1)
         /\ SourceBytes(items) \in Nat
<1>1. SourceBytes(items) = 4 + Aligned(ItemBytes(items) + 1) BY DEF SourceBytes, ItemBytes, Word
<1>2. ItemBytes(items) + 1 \in Nat BY ItemBytesType
<1>3. Aligned(ItemBytes(items) + 1) \in Nat BY <1>2, AlignedIs
<1> QED BY <1>1, <1>3

LEMMA SdesBytesIs ==
  ASSUME NEW srcs \in Seq(Seq(Nat)), Len(srcs) = 1
  PROVE  /\ SourcesBytes(srcs) = SourceBytes(srcs[1])
         /\ SdesBytes(srcs) = SourceBytes(srcs[1]) + 4 /\ SdesBytes(srcs) \in Nat
<1> DEFINE x == SourceBytes(srcs[1])  b == [i \in DOMAIN srcs |-> SourceBytes(srcs[i])]
<1>1. srcs[1] \in Seq(Nat) OBVIOUS
<1>2. x \in Nat BY <1>1, SourceBytesIs
<1>3. b = <<x>> OBVIOUS
<1> HIDE DEF x
<1>4. SizeOf(<<x>>) = x BY <1>2, SizeOfFew
<1>5. SourcesBytes(srcs) = x BY <1>3, <1>4 DEF SourcesBytes
<1>6. SdesBytes(srcs) = x + 1 * CommonHeader BY <1>5, OnePacket DEF SdesBytes
<1> QED BY <1>2, <1>5, <1>6 DEF CommonHeader, x

(* The bytes of the SDES packet that EndBuild writes                         *)
LEMMA SdesEndIs ==
  ASSUME NEW srcs \in Seq(Seq(Nat)), Len(srcs) = 1
  PROVE  SdesEnd(srcs) = Aligned(8 + (ItemBytes(srcs[1]) + 1))
<1> DEFINE x == ItemBytes(srcs[1])
           at == SdesUpTo(srcs)
           Step(f) == [n \in 0 .. Len(srcs) |->
             IF n = 0 THEN CommonHeader
             ELSE Aligned(f[n - 1] + Word
                    + SizeOf([i \in DOMAIN srcs[n] |-> SDESHeader + srcs[n][i]]) + 1)]
           g == [n \in 0 .. Len(srcs) |-> IF n = 0 THEN 4 ELSE Aligned(4 + 4 + x + 1)]
<1>1. srcs[1] \in Seq(Nat) OBVIOUS
<1>2. x \in Nat BY <1>1, ItemBytesType
<1>3. g = Step(g)
  <2>1. \A n \in 0 .. Len(srcs) : n = 0 \/ n = 1 OBVIOUS
  <2>2. g[0] = Step(g)[0] BY DEF CommonHeader
  <2>3. g[1] = Step(g)[1]
    <3>1. g[1] = Aligned(4 + 4 + x + 1) /\ g[0] = 4 /\ 1 - 1 = 0 OBVIOUS
    <3>2. Step(g)[1] = Aligned(g[1 - 1] + Word + x + 1) BY DEF ItemBytes
    <3> HIDE DEF x, g, Step
    <3> QED BY <3>1, <3>2 DEF Word
  <2>4. \A n \in 0 .. Len(srcs) : g[n] = Step(g)[n] BY <2>1, <2>2, <2>3
  <2> HIDE DEF x
  <2> QED BY <2>4
<1>4. at = CHOOSE f : f = Step(f) BY Zenon DEF SdesUpTo
<1>5. at = Step(at)
  <2> HIDE DEF at, Step
  <2> QED BY <1>3, <1>4, Zenon
<1> HIDE DEF at
<1>6. at[0] = 4 BY <1>5 DEF CommonHeader
<1>7. at[1] = Aligned(at[1 - 1] + Word + x + 1) BY <1>5 DEF ItemBytes
<1>8. at[1] = Aligned(4 + 4 + x + 1)
  <2>1. 1 - 1 = 0 OBVIOUS
  <2> HIDE DEF x
  <2> QED BY <1>6, <1>7, <2>1 DEF Word
<1>9. SdesEnd(srcs) = at[1] BY DEF SdesEnd, at
<1>10. 4 + 4 + x + 1 = 8 + (x + 1) BY <1>2
<1> QED BY <1>8, <1>9, <1>10

LEMMA SdesPacketsAre ==
  ASSUME NEW p, Begun(p)
  PROVE  LET w == SdesPackets(p)
         IN /\ Len(w) = 1 /\ DOMAIN w = 1 .. 1 /\ w \in Seq(RtcpPacket)
            /\ w[1].type = "SDES" /\ w[1].count <= MaxCount
            /\ w[1].length = SdesBytes(p.sdes) /\ w[1].length \in Words
<1> DEFINE srcs == p.sdes  w == SdesPackets(p)  x == ItemBytes(srcs[1]) + 1
<1>1. srcs \in Seq(Seq(Nat)) /\ Len(srcs) = 1 BY DEF Begun, Compounds
<1>2. srcs[1] \in Seq(Nat) BY <1>1
<1>3. x \in Nat BY <1>2, ItemBytesType
<1>4. Chunk(srcs, 1) = srcs
  <2>1. MaxCount \in Nat /\ MaxCount > 0 BY SizeAssumption
  <2>2. Chunk(srcs, 1) = SubSeq(srcs, 1, 1) BY <1>1, <2>1 DEF Chunk
  <2> HIDE DEF srcs
  <2> QED BY <1>1, <2>2
<1>5. w = [k \in 1 .. 1 |-> [type |-> "SDES", count |-> Len(Chunk(srcs, k)),
                              length |-> SdesEnd(Chunk(srcs, k))]]
  BY <1>1, OnePacket DEF SdesPackets
<1>6. w[1] = [type |-> "SDES", count |-> 1, length |-> SdesEnd(srcs)]
  <2>1. w[1] = [type |-> "SDES", count |-> Len(Chunk(srcs, 1)), length |-> SdesEnd(Chunk(srcs, 1))]
    <3> HIDE DEF w
    <3> QED BY <1>5
  <2> HIDE DEF w, srcs
  <2> QED BY <1>1, <1>4, <2>1
<1> HIDE DEF w, x, srcs
<1>7. Len(w) = 1 /\ DOMAIN w = 1 .. 1 /\ w \in Seq({w[1]}) BY <1>5
<1>8. SdesEnd(srcs) = Aligned(8 + x) BY <1>1, SdesEndIs DEF x
<1>9. SdesBytes(srcs) = 4 + Aligned(x) + 4 BY <1>1, <1>2, SdesBytesIs, SourceBytesIs DEF x
<1>10. Aligned(8 + x) = 8 + Aligned(x) /\ Aligned(x) \in Nat /\ Aligned(x) % 4 = 0
  BY <1>3, AlignedIs
<1>11. SdesEnd(srcs) = SdesBytes(srcs) /\ SdesEnd(srcs) \in Words
  <2>1. 8 + Aligned(x) \in Words BY <1>10 DEF Words
  <2> QED BY <1>8, <1>9, <1>10, <2>1
<1>12. 1 <= MaxCount BY SizeAssumption
<1>13. w[1] \in RtcpPacket
  <2> DEFINE l == SdesEnd(srcs)
  <2>1. l \in Words BY <1>11
  <2> HIDE DEF l
  <2>2. [type |-> "SDES", count |-> 1, length |-> l] \in RtcpPacket BY <2>1 DEF RtcpPacket
  <2> QED BY <1>6, <2>2 DEF l
<1>14. w \in Seq(RtcpPacket)
  <2>1. w = [k \in 1 .. 1 |-> w[1]] BY <1>5
  <2> HIDE DEF w
  <2> QED BY <1>13, <2>1
<1> QED BY <1>6, <1>7, <1>11, <1>12, <1>14 DEF w, srcs

LEMMA ReportPacketsAre ==
  ASSUME NEW p, Begun(p)
  PROVE  LET w == ReportPackets(p)
         IN /\ Len(w) \in Nat /\ Len(w) >= 1 /\ DOMAIN w = 1 .. Len(w)
            /\ w \in Seq(RtcpPacket)
            /\ w[1].type \in {"SR", "RR"}
            /\ \A k \in 1 .. Len(w) : w[k].length \in Words /\ KnownFormat(w[k])
            /\ Lengths(w) \in Seq(Nat) /\ SizeOf(Lengths(w)) = ReportBytes(p)
            /\ ReportBytes(p) \in Nat
<1> DEFINE w == ReportPackets(p)  s == p.blocks  n == Len(s)  q == Max1(Packets(n))
           extra == IF p.report = "SR" THEN 20 ELSE 0
           f == [k \in 0 .. q |-> IF k = 0 THEN 0 ELSE 8 * k + extra + 24 * Held(n, k)]
<1>1. s \in Seq(Block) /\ n \in Nat /\ p.report \in {"SR", "RR"} /\ extra \in Nat BY DEF Begun, Compounds
<1>2. Packets(n) \in Nat /\ n <= Packets(n) * MaxCount /\ (n = 0 => Packets(n) = 0)
      /\ (n > 0 => Packets(n) > 0)
  <2> HIDE DEF n
  <2> QED BY <1>1, PacketsIs
<1>3. q \in Nat /\ q >= 1 /\ (n > 0 => q = Packets(n)) /\ (n = 0 => q = 1) BY <1>1, <1>2 DEF Max1
<1>4. w = [k \in 1 .. q |->
              [type |-> IF k = 1 THEN p.report ELSE "RR", count |-> Len(Chunk(s, k)),
               length |-> 8 + (IF (IF k = 1 THEN p.report ELSE "RR") = "SR" THEN 20 ELSE 0)
                            + Len(Chunk(s, k)) * 24]]
  BY DEF ReportPackets, CommonHeader, Word, SenderReport, ReceiverReport
<1>5. \A k \in 1 .. q : /\ Held(n, k) \in Nat /\ Held(n, k - 1) \in Nat
                        /\ Len(Chunk(s, k)) \in Nat /\ Len(Chunk(s, k)) <= MaxCount
                        /\ Len(Chunk(s, k)) = Held(n, k) - Held(n, k - 1)
  BY <1>1, ChunkLength
<1>6. Len(w) = q /\ DOMAIN w = 1 .. q BY <1>3, <1>4
<1>7. \A k \in 1 .. q :
        /\ w[k].type = (IF k = 1 THEN p.report ELSE "RR") /\ w[k].count = Len(Chunk(s, k))
        /\ w[k].length = 8 + (IF k = 1 THEN extra ELSE 0) + 24 * Len(Chunk(s, k))
  <2> HIDE DEF q, s
  <2> QED BY <1>1, <1>4, <1>5
<1>8. w[1].type \in {"SR", "RR"} BY <1>1, <1>3, <1>7
<1> HIDE DEF w, s, q, n
<1>9. ASSUME NEW k \in 1 .. q PROVE w[k].length \in Words /\ KnownFormat(w[k])
  <2> DEFINE c == Len(Chunk(s, k))
  <2>1. c \in Nat /\ c <= MaxCount /\ w[k].count = c BY <1>5, <1>7
  <2>2. w[k].length = 8 + (IF k = 1 THEN extra ELSE 0) + 24 * c BY <1>7
  <2>3. (w[k].type = "SR" /\ k = 1 /\ extra = 20) \/ (w[k].type = "RR" /\ (IF k = 1 THEN extra ELSE 0) = 0)
    BY <1>1, <1>7
  <2> HIDE DEF c, extra
  <2>4. w[k].length = 28 + 24 * c \/ w[k].length = 8 + 24 * c BY <2>2, <2>3
  <2>5. w[k].length \in Words BY <2>1, <2>4 DEF Words
  <2>6. KnownFormat(w[k])
    BY <2>1, <2>2, <2>3 DEF KnownFormat, CommonHeader, Word, SenderReport, ReceiverReport
  <2> QED BY <2>5, <2>6
<1> DEFINE b == Lengths(w)
<1>10. b \in Seq(Nat) /\ Len(b) = q /\ \A k \in 1 .. q : b[k] = w[k].length
  BY <1>3, <1>6, <1>9 DEF Lengths, Words
<1> HIDE DEF b
<1>11. f[0] = 0 BY <1>3
<1>12. ASSUME NEW k \in 1 .. q PROVE f[k] = f[k - 1] + b[k]
  <2> DEFINE c == Len(Chunk(s, k))  h == Held(n, k)  g == Held(n, k - 1)
  <2>1. h \in Nat /\ g \in Nat /\ c \in Nat /\ c = h - g BY <1>5
  <2>2. b[k] = 8 + (IF k = 1 THEN extra ELSE 0) + 24 * c BY <1>7, <1>10
  <2>3. f[k] = 8 * k + extra + 24 * h BY <1>3
  <2>4. CASE k = 1
    <3>1. Held(n, 0) = 0 BY <1>1, SizeAssumption DEF Held
    <3>2. g = 0 /\ f[k - 1] = 0 BY <2>4, <3>1, <1>11
    <3> HIDE DEF f, g, h, c, extra
    <3> QED BY <1>1, <2>1, <2>2, <2>3, <2>4, <3>2
  <2>5. CASE k # 1
    <3>1. f[k - 1] = 8 * (k - 1) + extra + 24 * g BY <1>3, <2>5
    <3> HIDE DEF f, g, h, c, extra
    <3> QED BY <1>1, <1>3, <2>1, <2>2, <2>3, <2>5, <3>1
  <2> QED BY <2>4, <2>5
<1>13. SizeOf(b) = f[q]
  <2> HIDE DEF f
  <2>1. \A k \in 1 .. Len(b) : f[k] = f[k - 1] + b[k] BY <1>10, <1>12
  <2>2. \A k \in 0 .. Len(b) : f[k] = SizeUpTo(b)[k] BY <1>10, <1>11, <2>1, SizeUnique
  <2> QED BY <1>3, <1>10, <2>2 DEF SizeOf
<1>14. Held(n, q) = n
  <2>1. CASE n = 0
    <3>1. q * MaxCount \in Nat BY <1>3, SizeAssumption
    <3> QED BY <2>1, <3>1 DEF Held
  <2>2. CASE n # 0
    <3>1. n <= q * MaxCount /\ q * MaxCount \in Nat BY <1>1, <1>2, <1>3, <2>2, SizeAssumption
    <3> QED BY <1>1, <3>1 DEF Held
  <2> QED BY <2>1, <2>2
<1>15. f[q] = 8 * q + extra + 24 * n BY <1>3, <1>14
<1>16. ReportBytes(p) = 8 * q + extra + 24 * n
  <2>1. s = << >> <=> n = 0 BY <1>1 DEF n
  <2>2. CASE n = 0
    <3>1. s = << >> /\ q = 1 BY <1>3, <2>1, <2>2
    <3>2. ReportBytes(p) = IF p.report = "RR" THEN 8 ELSE 28
      BY <1>1, <3>1 DEF ReportBytes, s, CommonHeader, Word, SenderReport
    <3> QED BY <1>1, <2>2, <3>1, <3>2
  <2>3. CASE n # 0
    <3>1. s # << >> /\ q = Packets(n) BY <1>1, <1>3, <2>1, <2>3
    <3>2. ReportBytes(p) = BlockBytes(p, n)
      <4>1. p.blocks # << >> BY <3>1 DEF s
      <4>2. ReportBytes(p) = BlockBytes(p, Len(p.blocks)) BY <4>1, Zenon DEF ReportBytes
      <4> QED BY <4>2 DEF s, n
    <3>3. BlockBytes(p, n) = n * 24 + q * 8 + extra
      BY <3>1 DEF BlockBytes, CommonHeader, Word, SenderReport, ReceiverReport
    <3> HIDE DEF extra
    <3> QED BY <1>1, <1>3, <3>2, <3>3
  <2> QED BY <2>2, <2>3
<1>18. w \in Seq(RtcpPacket)
  <2>1. \A k \in 1 .. q : w[k] \in RtcpPacket
    <3> TAKE k \in 1 .. q
    <3>1. w[k].length \in Words BY <1>9
    <3>2. w[k] = [type |-> w[k].type, count |-> w[k].count, length |-> w[k].length]
      BY <1>4
    <3>3. w[k].type \in {"SR", "RR"} BY <1>1, <1>7
    <3>4. w[k].count \in Nat BY <1>5, <1>7
    <3> QED BY <3>1, <3>2, <3>3, <3>4 DEF RtcpPacket
  <2>2. w = [k \in 1 .. q |-> w[k]] BY <1>4
  <2> HIDE DEF q
  <2>3. [k \in 1 .. q |-> w[k]] \in Seq(RtcpPacket) BY <1>3, <2>1
  <2> QED BY <2>2, <2>3
<1>17. 8 * q + extra + 24 * n \in Nat BY <1>1, <1>3
<1> HIDE DEF f, extra
<1> QED BY <1>3, <1>6, <1>8, <1>9, <1>10, <1>13, <1>15, <1>16, <1>17, <1>18 DEF w, b

LEMMA BuffersAre ==
  ASSUME NEW kind, NEW sizes \in Seq(Words)
  PROVE  LET w == Buffers(kind, sizes)
         IN /\ Len(w) = Len(sizes) /\ DOMAIN w = 1 .. Len(w) /\ Lengths(w) = sizes
            /\ \A k \in 1 .. Len(w) : /\ w[k].length \in Words /\ w[k].count = 1
                                      /\ w[k].type = kind
BY DEF Buffers, Lengths

-----------------------------------------------------------------------------
(* What EndBuild writes, ParseData takes.                                    *)

WellFormed == {r \in RtcpPacket : KnownFormat(r)}

LEMMA WellFormedIs ==
  ASSUME NEW r \in WellFormed
  PROVE  r \in RtcpPacket /\ KnownFormat(r) /\ r.length \in Words /\ r.length \in Nat
<1>1. r \in RtcpPacket /\ KnownFormat(r) BY DEF WellFormed
<1>2. r.length \in Words BY <1>1 DEF RtcpPacket
<1> QED BY <1>1, <1>2 DEF Words

LEMMA LengthsType ==
  ASSUME NEW a \in Seq(WellFormed)
  PROVE  Lengths(a) \in Seq(Nat) /\ Len(Lengths(a)) = Len(a) /\ Len(a) \in Nat
         /\ \A k \in 1 .. Len(a) : Lengths(a)[k] = a[k].length
<1>1. DOMAIN a = 1 .. Len(a) /\ Len(a) \in Nat OBVIOUS
<1>2. \A k \in 1 .. Len(a) : a[k].length \in Nat
  <2> TAKE k \in 1 .. Len(a)
  <2>1. a[k] \in WellFormed BY <1>1
  <2> QED BY <2>1, WellFormedIs
<1>3. Lengths(a) = [k \in 1 .. Len(a) |-> a[k].length] BY <1>1 DEF Lengths
<1> QED BY <1>1, <1>2, <1>3

LEMMA LengthsConcat ==
  ASSUME NEW a \in Seq(WellFormed), NEW b \in Seq(WellFormed)
  PROVE  /\ a \o b \in Seq(WellFormed)
         /\ SizeOf(Lengths(a \o b)) = SizeOf(Lengths(a)) + SizeOf(Lengths(b))
<1> DEFINE c == a \o b
<1>1. /\ c \in Seq(WellFormed) /\ Len(c) = Len(a) + Len(b) /\ Len(a) \in Nat /\ Len(b) \in Nat
      /\ \A k \in 1 .. Len(c) : c[k] = IF k <= Len(a) THEN a[k] ELSE b[k - Len(a)]
  OBVIOUS
<1> HIDE DEF c
<1>2. /\ Lengths(a) \in Seq(Nat) /\ Len(Lengths(a)) = Len(a)
      /\ \A k \in 1 .. Len(a) : Lengths(a)[k] = a[k].length
  BY LengthsType
<1>3. /\ Lengths(b) \in Seq(Nat) /\ Len(Lengths(b)) = Len(b)
      /\ \A k \in 1 .. Len(b) : Lengths(b)[k] = b[k].length
  BY LengthsType
<1>4. /\ Lengths(c) \in Seq(Nat) /\ Len(Lengths(c)) = Len(c)
      /\ \A k \in 1 .. Len(c) : Lengths(c)[k] = c[k].length
  BY <1>1, LengthsType
<1>5. Lengths(c) = Lengths(a) \o Lengths(b)
  <2> DEFINE x == Lengths(c)  y == Lengths(a)  z == Lengths(b)
  <2>1. y \o z \in Seq(Nat) /\ Len(y \o z) = Len(c) BY <1>1, <1>2, <1>3
  <2>2. ASSUME NEW k \in 1 .. Len(c) PROVE x[k] = (y \o z)[k]
    <3>1. x[k] = c[k].length BY <1>4
    <3>2. CASE k <= Len(a)
      <4>1. k \in 1 .. Len(a) /\ c[k] = a[k] BY <1>1, <3>2
      <4>2. (y \o z)[k] = y[k] BY <1>2, <1>3, <4>1
      <4> QED BY <1>2, <3>1, <4>1, <4>2
    <3>3. CASE ~(k <= Len(a))
      <4>1. k - Len(a) \in 1 .. Len(b) /\ c[k] = b[k - Len(a)] BY <1>1, <3>3
      <4>0. k \in 1 .. Len(y) + Len(z) /\ ~(k <= Len(y)) /\ y \in Seq(Nat) /\ z \in Seq(Nat)
        BY <1>1, <1>2, <1>3, <3>3
      <4>2. (y \o z)[k] = z[k - Len(a)]
        <5>1. (y \o z)[k] = z[k - Len(y)] BY <4>0
        <5> QED BY <1>2, <5>1
      <4> QED BY <1>3, <3>1, <4>1, <4>2
    <3> QED BY <3>2, <3>3
  <2> HIDE DEF x, y, z
  <2>3. x \in Seq(Nat) /\ Len(x) = Len(c) BY <1>4 DEF x
  <2>4. x = y \o z BY <2>1, <2>2, <2>3, SeqEqual
  <2> QED BY <2>4 DEF x, y, z
<1>6. SizeOf(Lengths(c)) = SizeOf(Lengths(a)) + SizeOf(Lengths(b)) BY <1>2, <1>3, <1>5, SizeConcat
<1> QED BY <1>1, <1>6 DEF c

(* A list of sound packets that begins with a report is taken in whole.      *)
LEMMA WellFormedParses ==
  ASSUME NEW a \in Seq(WellFormed), Len(a) >= 1, a[1].type \in {"SR", "RR"}
  PROVE  ParseData(a, SizeOf(Lengths(a)))
<1> DEFINE b == Lengths(a)
           part(k) == [i \in 1 .. k |-> a[i].length - (a[i].length % Word)]
<1>1. b \in Seq(Nat) /\ Len(b) = Len(a) /\ Len(a) \in Nat /\ DOMAIN a = 1 .. Len(a)
      /\ \A k \in 1 .. Len(a) : b[k] = a[k].length
  BY LengthsType
<1>2. ASSUME NEW i \in 1 .. Len(a) PROVE a[i].length - (a[i].length % Word) = b[i]
  <2>1. a[i] \in WellFormed BY <1>1
  <2>2. a[i].length \in Words BY <2>1, WellFormedIs
  <2> QED BY <1>1, <2>2 DEF Words, Word
<1> HIDE DEF b
<1>3. ASSUME NEW k \in 1 .. Len(a)
      PROVE  SizeOf(part(k)) <= SizeOf(b) /\ (k = Len(a) => SizeOf(part(k)) = SizeOf(b))
  <2>1. k \in Nat /\ k \in 0 .. Len(b) /\ \A i \in 1 .. k : i \in 1 .. Len(a) BY <1>1
  <2>2. \A i \in 1 .. k : part(k)[i] = b[i] /\ b[i] \in Nat BY <1>1, <1>2, <2>1
  <2>3. part(k) \in Seq(Nat) /\ Len(part(k)) = k
    <3>1. \A i \in 1 .. k : a[i].length - (a[i].length % Word) \in Nat BY <1>1, <1>2, <2>1
    <3> QED BY <2>1, <3>1
  <2> DEFINE c == part(k)
  <2> HIDE DEF c
  <2>4. c \in Seq(Nat) /\ Len(c) = k /\ \A i \in 1 .. k : c[i] = b[i] BY <2>2, <2>3 DEF c
  <2>5. SizeOf(c) = SizeUpTo(b)[k] BY <1>1, <2>1, <2>4, SizePrefix
  <2>6. SizeUpTo(b)[k] <= SizeOf(b) BY <1>1, <2>1, SizeGrows
  <2>7. k = Len(a) => SizeUpTo(b)[k] = SizeOf(b) BY <1>1 DEF SizeOf
  <2> QED BY <2>5, <2>6, <2>7 DEF c
<1>4. Len(a) \in 1 .. Len(a) /\ a # << >> BY <1>1
<1> QED BY <1>1, <1>3, <1>4 DEF ParseData, b

(* What is begun within the size is written as it was counted and parsed.    *)
LEMMA BegunParses ==
  ASSUME NEW p, Begun(p)
  PROVE  LET written == EndBuild(p)
         IN /\ SizeOf([k \in DOMAIN written |-> written[k].length]) = NeededBytes(p)
            /\ ParseData(written, NeededBytes(p))
            /\ \A k \in DOMAIN written : KnownFormat(written[k])
<1> DEFINE r == ReportPackets(p)  s == SdesPackets(p)
           x == Buffers("APP", p.app)  y == Buffers("BYE", p.bye)  w == EndBuild(p)
<1>0. p.app \in Seq(Words) /\ p.bye \in Seq(Words) /\ 1 <= MaxCount
  BY SizeAssumption DEF Begun, Compounds
<1>1. /\ r \in Seq(WellFormed) /\ Len(r) >= 1 /\ r[1].type \in {"SR", "RR"}
      /\ SizeOf(Lengths(r)) = ReportBytes(p) /\ ReportBytes(p) \in Nat
  <2>1. /\ r \in Seq(RtcpPacket) /\ Len(r) >= 1
        /\ r[1].type \in {"SR", "RR"} /\ DOMAIN r = 1 .. Len(r)
        /\ \A k \in 1 .. Len(r) : KnownFormat(r[k])
        /\ SizeOf(Lengths(r)) = ReportBytes(p) /\ ReportBytes(p) \in Nat
    BY ReportPacketsAre
  <2> HIDE DEF r
  <2>2. \A k \in 1 .. Len(r) : r[k] \in WellFormed
    <3>1. \A k \in 1 .. Len(r) : r[k] \in RtcpPacket BY <2>1
    <3> QED BY <2>1, <3>1 DEF WellFormed
  <2> QED BY <2>1, <2>2
<1>2. s \in Seq(WellFormed) /\ Len(s) = 1 /\ SizeOf(Lengths(s)) = SdesBytes(p.sdes)
      /\ SdesBytes(p.sdes) \in Nat
  <2>1. /\ Len(s) = 1 /\ s \in Seq(RtcpPacket)
        /\ s[1].type = "SDES" /\ s[1].count <= MaxCount
        /\ s[1].length = SdesBytes(p.sdes) /\ s[1].length \in Words
    BY SdesPacketsAre
  <2> HIDE DEF s
  <2>2. s[1] \in WellFormed
    <3>1. s[1] \in RtcpPacket
      <4>1. 1 \in 1 .. Len(s) BY <2>1
      <4> QED BY <2>1, <4>1, ElementOfSeq
    <3>2. KnownFormat(s[1]) BY <2>1 DEF KnownFormat
    <3> QED BY <3>1, <3>2 DEF WellFormed
  <2>3. Lengths(s) = <<SdesBytes(p.sdes)>> BY <2>1 DEF Lengths
  <2>4. SdesBytes(p.sdes) \in Nat BY <2>1 DEF Words
  <2>5. SizeOf(<<SdesBytes(p.sdes)>>) = SdesBytes(p.sdes) BY <2>4, SizeOfFew
  <2>6. s = [k \in 1 .. 1 |-> s[1]] BY <2>1
  <2>7. [k \in 1 .. 1 |-> s[1]] \in Seq(WellFormed) BY <2>2
  <2> QED BY <2>1, <2>3, <2>4, <2>5, <2>6, <2>7
<1>3. x \in Seq(WellFormed) /\ SizeOf(Lengths(x)) = SizeOf(p.app) /\ SizeOf(p.app) \in Nat
  <2>1. x = [i \in 1 .. Len(p.app) |-> [type |-> "APP", count |-> 1, length |-> p.app[i]]]
    BY <1>0 DEF Buffers
  <2>2. Lengths(x) = p.app BY <1>0, BuffersAre
  <2>3. \A i \in 1 .. Len(p.app) : [type |-> "APP", count |-> 1, length |-> p.app[i]] \in WellFormed
    <3> TAKE i \in 1 .. Len(p.app)
    <3> DEFINE l == p.app[i]  one == [type |-> "APP", count |-> 1, length |-> l]
    <3>1. l \in Words BY <1>0
    <3> HIDE DEF l
    <3>2. one \in RtcpPacket BY <3>1 DEF RtcpPacket
    <3>3. KnownFormat(one) BY <1>0 DEF KnownFormat
    <3> HIDE DEF one
    <3>4. one \in WellFormed BY <3>2, <3>3 DEF WellFormed
    <3> QED BY <3>4 DEF one, l
  <2>4. p.app \in Seq(Nat) BY <1>0 DEF Words
  <2>5. SizeOf(p.app) \in Nat BY <2>4, SizeType
  <2>6. Len(p.app) \in Nat BY <1>0
  <2> HIDE DEF x
  <2> QED BY <2>1, <2>2, <2>3, <2>5, <2>6
<1>4. y \in Seq(WellFormed) /\ SizeOf(Lengths(y)) = SizeOf(p.bye) /\ SizeOf(p.bye) \in Nat
  <2>1. y = [i \in 1 .. Len(p.bye) |-> [type |-> "BYE", count |-> 1, length |-> p.bye[i]]]
    BY <1>0 DEF Buffers
  <2>2. Lengths(y) = p.bye BY <1>0, BuffersAre
  <2>3. \A i \in 1 .. Len(p.bye) : [type |-> "BYE", count |-> 1, length |-> p.bye[i]] \in WellFormed
    <3> TAKE i \in 1 .. Len(p.bye)
    <3> DEFINE l == p.bye[i]  one == [type |-> "BYE", count |-> 1, length |-> l]
    <3>1. l \in Words BY <1>0
    <3> HIDE DEF l
    <3>2. one \in RtcpPacket BY <3>1 DEF RtcpPacket
    <3>3. KnownFormat(one) BY <1>0 DEF KnownFormat
    <3> HIDE DEF one
    <3>4. one \in WellFormed BY <3>2, <3>3 DEF WellFormed
    <3> QED BY <3>4 DEF one, l
  <2>4. p.bye \in Seq(Nat) BY <1>0 DEF Words
  <2>5. SizeOf(p.bye) \in Nat BY <2>4, SizeType
  <2>6. Len(p.bye) \in Nat BY <1>0
  <2> HIDE DEF y
  <2> QED BY <2>1, <2>2, <2>3, <2>5, <2>6
<1>5. w = r \o s \o x \o y BY DEF EndBuild
<1> HIDE DEF r, s, x, y, w
<1>6. r \o s \in Seq(WellFormed) /\ SizeOf(Lengths(r \o s)) = ReportBytes(p) + SdesBytes(p.sdes)
  BY <1>1, <1>2, LengthsConcat
<1>7. (r \o s) \o x \in Seq(WellFormed)
      /\ SizeOf(Lengths((r \o s) \o x)) = ReportBytes(p) + SdesBytes(p.sdes) + SizeOf(p.app)
  BY <1>3, <1>6, LengthsConcat
<1>8. ((r \o s) \o x) \o y \in Seq(WellFormed)
      /\ SizeOf(Lengths(((r \o s) \o x) \o y))
           = ReportBytes(p) + SdesBytes(p.sdes) + SizeOf(p.app) + SizeOf(p.bye)
  BY <1>4, <1>7, LengthsConcat
<1>9. w \in Seq(WellFormed) /\ SizeOf(Lengths(w)) = NeededBytes(p)
  <2>1. NeededBytes(p) = ReportBytes(p) + SdesBytes(p.sdes) + (SizeOf(p.app) + SizeOf(p.bye))
    BY DEF NeededBytes, OtherBytes
  <2> HIDE DEF NeededBytes
  <2> QED BY <1>1, <1>2, <1>3, <1>4, <1>5, <1>8, <2>1
<1>10. Len(w) >= 1 /\ w[1] = r[1]
  <2>1. Len(r \o s) >= 1 /\ (r \o s)[1] = r[1] BY <1>1, <1>2
  <2>2. Len((r \o s) \o x) >= 1 /\ ((r \o s) \o x)[1] = r[1] BY <1>3, <1>6, <2>1
  <2>3. Len(((r \o s) \o x) \o y) >= 1 /\ (((r \o s) \o x) \o y)[1] = r[1]
    BY <1>4, <1>7, <2>2
  <2> QED BY <1>5, <2>3
<1>11. ParseData(w, NeededBytes(p)) BY <1>1, <1>9, <1>10, WellFormedParses
<1>12. \A k \in DOMAIN w : KnownFormat(w[k])
  <2>1. \A k \in DOMAIN w : w[k] \in WellFormed BY <1>9
  <2> QED BY <2>1 DEF WellFormed
<1>13. SizeOf([k \in DOMAIN w |-> w[k].length]) = NeededBytes(p) BY <1>9 DEF Lengths
<1> QED BY <1>11, <1>12, <1>13 DEF w

-----------------------------------------------------------------------------
(* What each call of the builder leaves room for.                            *)

(* A packet is within the size.                                              *)
Fits(p) == Begun(p) /\ NeededBytes(p) <= MaxPacketSize

LEMMA BytesTypes ==
  ASSUME NEW p, Begun(p)
  PROVE  /\ ReportBytes(p) \in Nat /\ SdesBytes(p.sdes) \in Nat
         /\ OtherBytes(p) \in Nat /\ NeededBytes(p) \in Nat
<1>1. ReportBytes(p) \in Nat BY ReportPacketsAre
<1>2. SdesBytes(p.sdes) \in Nat BY SdesBytesIs DEF Begun, Compounds
<1>3. p.app \in Seq(Nat) /\ p.bye \in Seq(Nat) BY DEF Begun, Compounds, Words
<1>4. SizeOf(p.app) \in Nat /\ SizeOf(p.bye) \in Nat BY <1>3, SizeType
<1>5. OtherBytes(p) \in Nat BY <1>4 DEF OtherBytes
<1> QED BY <1>1, <1>2, <1>5 DEF NeededBytes

(* Our CNAME goes into every packet.                                         *)
LEMMA BeginIs ==
  ASSUME NEW kind \in {"SR", "RR"}, BeginFits(kind)
  PROVE  Fits(Begin(kind)) /\ Begin(kind).blocks = << >>
<1> DEFINE p == AddSDESSource(StartReport(NewPacket, kind))  q == Begin(kind)
<1>1. CNameLength \in Nat BY BuilderAssumption
<1>2. p = [report |-> kind, blocks |-> << >>, sdes |-> << << >> >>, app |-> << >>, bye |-> << >>]
  <2>1. Append(<< >>, << >>) = << << >> >> OBVIOUS
  <2> DEFINE r == StartReport(NewPacket, kind)  e == << << >> >>
  <2>2. r = [report |-> kind, blocks |-> << >>, sdes |-> << >>, app |-> << >>, bye |-> << >>]
    BY DEF StartReport, NewPacket
  <2>3. p = [r EXCEPT !.sdes = Append(r.sdes, << >>)] BY DEF AddSDESSource
  <2> HIDE DEF r, p
  <2>4. p = [r EXCEPT !.sdes = e]
    <3>1. r.sdes = << >> BY <2>2
    <3> HIDE DEF e
    <3> QED BY <2>1, <2>3, <3>1 DEF e
  <2> HIDE DEF e
  <2>5. p = [report |-> kind, blocks |-> << >>, sdes |-> e, app |-> << >>, bye |-> << >>] BY <2>2, <2>4
  <2> QED BY <2>5 DEF e
<1>3. WithItem(p.sdes, CNameLength) = << <<CNameLength>> >>
  <2> DEFINE one == << << >> >>
  <2>1. one # << >> /\ Front(one) = << >> /\ Last(one) = << >> BY DEF Front, Last
  <2>2. WithItem(one, CNameLength) = Append(Front(one), Append(Last(one), CNameLength))
    BY <2>1 DEF WithItem
  <2>3. Append(<< >>, Append(<< >>, CNameLength)) = << <<CNameLength>> >> OBVIOUS
  <2> QED BY <1>2, <2>1, <2>2, <2>3
<1>4. q = [report |-> kind, blocks |-> << >>, sdes |-> << <<CNameLength>> >>,
           app |-> << >>, bye |-> << >>]
  <2>1. q = [p EXCEPT !.sdes = << <<CNameLength>> >>] BY <1>3 DEF Begin, AddSDESItem
  <2> HIDE DEF q
  <2> QED BY <1>2, <2>1
<1>5. Begun(q)
  <2>1. <<CNameLength>> \in Seq(Nat) BY <1>1
  <2>2. << <<CNameLength>> >> \in Seq(Seq(Nat)) /\ Len(<< <<CNameLength>> >>) = 1 BY <2>1
  <2>3. << >> \in Seq(Block) /\ << >> \in Seq(Words) OBVIOUS
  <2> HIDE DEF q
  <2> QED BY <1>4, <2>2, <2>3 DEF Begun, Compounds
<1>6. SdesBytes(WithItem(p.sdes, CNameLength)) + ReportBytes(p) + OtherBytes(p) <= MaxPacketSize
  BY DEF BeginFits, ItemFits
<1>7. SdesBytes(q.sdes) + ReportBytes(q) + OtherBytes(q) <= MaxPacketSize
  <2>1. ReportBytes(q) = ReportBytes(p) BY <1>2, <1>4 DEF ReportBytes, BlockBytes
  <2>2. OtherBytes(q) = OtherBytes(p) BY <1>2, <1>4 DEF OtherBytes
  <2>3. q.sdes = WithItem(p.sdes, CNameLength) BY <1>3, <1>4
  <2> HIDE DEF p, q
  <2> QED BY <1>6, <2>1, <2>2, <2>3
<1> HIDE DEF q
<1>8. NeededBytes(q) <= MaxPacketSize BY <1>5, <1>7, BytesTypes, SizeAssumption DEF NeededBytes
<1> QED BY <1>4, <1>5, <1>8 DEF Fits, q

LEMMA ItemAdded ==
  ASSUME NEW p, Begun(p), NEW len \in Nat, ItemFits(p, len)
  PROVE  Fits(AddSDESItem(p, len)) /\ AddSDESItem(p, len).blocks = p.blocks
<1> DEFINE q == AddSDESItem(p, len)  w == WithItem(p.sdes, len)
<1>1. p.sdes \in Seq(Seq(Nat)) /\ Len(p.sdes) = 1 /\ p \in Compounds BY DEF Begun, Compounds
<1>2. w \in Seq(Seq(Nat)) /\ Len(w) = 1
  <2> DEFINE x == p.sdes
  <2>1. x \in Seq(Seq(Nat)) /\ Len(x) = 1 BY <1>1
  <2> HIDE DEF x
  <2>2. x # << >> /\ Front(x) = << >> /\ Last(x) \in Seq(Nat) BY <2>1 DEF Front, Last
  <2>3. Append(Last(x), len) \in Seq(Nat) BY <2>2
  <2>4. WithItem(x, len) = Append(<< >>, Append(Last(x), len)) BY <2>2 DEF WithItem
  <2>5. Append(<< >>, Append(Last(x), len)) = <<Append(Last(x), len)>> OBVIOUS
  <2> QED BY <2>3, <2>4, <2>5 DEF x
<1>3. q = [p EXCEPT !.sdes = w] BY DEF AddSDESItem
<1> HIDE DEF q, w
<1>4. Begun(q) /\ q.sdes = w /\ q.blocks = p.blocks /\ q.report = p.report
      /\ q.app = p.app /\ q.bye = p.bye
  BY <1>1, <1>2, <1>3 DEF Begun, Compounds
<1>5. SdesBytes(w) + ReportBytes(p) + OtherBytes(p) <= MaxPacketSize BY DEF ItemFits, w
<1>6. ReportBytes(q) = ReportBytes(p) /\ OtherBytes(q) = OtherBytes(p)
  BY <1>4 DEF ReportBytes, BlockBytes, OtherBytes
<1>7. SdesBytes(q.sdes) + ReportBytes(q) + OtherBytes(q) <= MaxPacketSize BY <1>4, <1>5, <1>6
<1>8. NeededBytes(q) <= MaxPacketSize BY <1>4, <1>7, BytesTypes, SizeAssumption DEF NeededBytes
<1> QED BY <1>4, <1>8 DEF Fits, q

LEMMA BlocksAdded ==
  ASSUME NEW p, Fits(p), NEW bs \in Seq(Block), Len(bs) = 0 \/ BlocksFit(p, Len(bs))
  PROVE  Fits(AddReportBlocks(p, bs)) /\ AddReportBlocks(p, bs).blocks = p.blocks \o bs
<1> DEFINE q == AddReportBlocks(p, bs)
<1>1. p \in Compounds /\ p.blocks \in Seq(Block) /\ Len(p.sdes) = 1 BY DEF Fits, Begun, Compounds
<1>2. q = [p EXCEPT !.blocks = p.blocks \o bs] BY DEF AddReportBlocks
<1> HIDE DEF q
<1>3. p.blocks \o bs \in Seq(Block) /\ Len(p.blocks \o bs) = Len(p.blocks) + Len(bs) BY <1>1
<1>4. Begun(q) /\ q.sdes = p.sdes /\ q.blocks = p.blocks \o bs /\ q.report = p.report
      /\ q.app = p.app /\ q.bye = p.bye
  <2>1. q \in Compounds /\ q.sdes = p.sdes /\ q.blocks = p.blocks \o bs BY <1>1, <1>2, <1>3 DEF Compounds
  <2>2. q.report = p.report /\ q.app = p.app /\ q.bye = p.bye BY <1>1, <1>2 DEF Compounds
  <2> QED BY <1>1, <2>1, <2>2 DEF Begun
<1>5. CASE Len(bs) = 0
  <2>1. bs = << >> BY <1>5
  <2>2. p.blocks \o bs = p.blocks BY <1>1, <2>1
  <2>3. q = p BY <1>1, <1>2, <2>2 DEF Compounds
  <2> QED BY <1>4, <2>3 DEF q
<1>6. CASE Len(bs) # 0
  <2>1. BlockBytes(p, Len(p.blocks) + Len(bs)) + SdesBytes(p.sdes) + OtherBytes(p) <= MaxPacketSize
    BY <1>6 DEF BlocksFit
  <2>2. q.blocks # << >>
    <3>1. Len(p.blocks \o bs) # 0 BY <1>1, <1>3, <1>6
    <3> QED BY <1>4, <3>1
  <2>3. ReportBytes(q) = BlockBytes(q, Len(q.blocks)) BY <2>2 DEF ReportBytes
  <2>4. BlockBytes(q, Len(q.blocks)) = BlockBytes(p, Len(p.blocks) + Len(bs))
    BY <1>3, <1>4 DEF BlockBytes
  <2>5. OtherBytes(q) = OtherBytes(p) BY <1>4 DEF OtherBytes
  <2>6. ReportBytes(q) + SdesBytes(q.sdes) + OtherBytes(q) <= MaxPacketSize
    BY <1>4, <2>1, <2>3, <2>4, <2>5
  <2> QED BY <1>4, <2>6 DEF Fits, NeededBytes, q
<1> QED BY <1>5, <1>6

LEMMA ByeAdded ==
  ASSUME NEW p, Fits(p), NEW reason \in {0, 5}, ByeFits(p, 1, reason)
  PROVE  Fits(AddBYEPacket(p, 1, reason)) /\ AddBYEPacket(p, 1, reason).blocks = p.blocks
<1> DEFINE q == AddBYEPacket(p, 1, reason)  size == ByeSize(1, reason)
<1>1. p \in Compounds /\ p.bye \in Seq(Words) /\ p.app \in Seq(Words) /\ Len(p.sdes) = 1
  BY DEF Fits, Begun, Compounds
<1>2. size \in Words
  <2>1. CASE reason = 0 BY <2>1 DEF ByeSize, CommonHeader, Word, Words
  <2>2. CASE reason # 0
    <3>1. size = Aligned(4 + 4 * 1 + 1 + 5) BY <2>2 DEF ByeSize, CommonHeader, Word
    <3>2. Aligned(14) \in Words BY AlignedIs DEF Words
    <3> QED BY <3>1, <3>2
  <2> QED BY <2>1, <2>2
<1>3. q = [p EXCEPT !.bye = Append(p.bye, size)] BY DEF AddBYEPacket
<1>4. NeededBytes(p) + size <= MaxPacketSize BY DEF ByeFits
<1> HIDE DEF q, size
<1>5. Append(p.bye, size) \in Seq(Words) BY <1>1, <1>2
<1>6. q \in Compounds /\ q.sdes = p.sdes /\ q.blocks = p.blocks /\ q.report = p.report
      /\ q.app = p.app /\ q.bye = Append(p.bye, size)
  BY <1>1, <1>3, <1>5 DEF Compounds
<1>7. p.bye \in Seq(Nat) /\ p.app \in Seq(Nat) /\ size \in Nat BY <1>1, <1>2 DEF Words
<1>8. SizeOf(q.bye) = SizeOf(p.bye) + size /\ SizeOf(p.bye) \in Nat /\ SizeOf(p.app) \in Nat
  BY <1>6, <1>7, SizeAppend, SizeType
<1>9. ReportBytes(q) = ReportBytes(p) BY <1>6 DEF ReportBytes, BlockBytes
<1>10. ReportBytes(p) \in Nat /\ SdesBytes(p.sdes) \in Nat BY BytesTypes DEF Fits
<1>11. NeededBytes(q) = NeededBytes(p) + size
  BY <1>6, <1>7, <1>8, <1>9, <1>10 DEF NeededBytes, OtherBytes
<1> QED BY <1>1, <1>4, <1>6, <1>11 DEF Fits, Begun, q

LEMMA AppAdded ==
  ASSUME NEW p, Fits(p), NEW data \in Nat, AppFits(p, data)
  PROVE  Fits(AddAPPPacket(p, data)) /\ AddAPPPacket(p, data).blocks = p.blocks
<1> DEFINE q == AddAPPPacket(p, data)  size == AppSize(data)
<1>1. p \in Compounds /\ p.bye \in Seq(Words) /\ p.app \in Seq(Words) /\ Len(p.sdes) = 1
  BY DEF Fits, Begun, Compounds
<1>2. size \in Words BY DEF AppFits, AppSize, CommonHeader, Word, Words
<1>3. q = [p EXCEPT !.app = Append(p.app, size)] BY DEF AddAPPPacket
<1>4. NeededBytes(p) + size <= MaxPacketSize BY DEF AppFits
<1> HIDE DEF q, size
<1>5. Append(p.app, size) \in Seq(Words) BY <1>1, <1>2
<1>6. q \in Compounds /\ q.sdes = p.sdes /\ q.blocks = p.blocks /\ q.report = p.report
      /\ q.bye = p.bye /\ q.app = Append(p.app, size)
  BY <1>1, <1>3, <1>5 DEF Compounds
<1>7. p.bye \in Seq(Nat) /\ p.app \in Seq(Nat) /\ size \in Nat BY <1>1, <1>2 DEF Words
<1>8. SizeOf(q.app) = SizeOf(p.app) + size /\ SizeOf(p.bye) \in Nat /\ SizeOf(p.app) \in Nat
  BY <1>6, <1>7, SizeAppend, SizeType
<1>9. ReportBytes(q) = ReportBytes(p) BY <1>6 DEF ReportBytes, BlockBytes
<1>10. ReportBytes(p) \in Nat /\ SdesBytes(p.sdes) \in Nat BY BytesTypes DEF Fits
<1>11. NeededBytes(q) = NeededBytes(p) + size
  BY <1>6, <1>7, <1>8, <1>9, <1>10 DEF NeededBytes, OtherBytes
<1> QED BY <1>1, <1>4, <1>6, <1>11 DEF Fits, Begun, q

-----------------------------------------------------------------------------
(* Report blocks.                                                            *)

LEMMA MaxIs ==
  ASSUME NEW n \in Nat, NEW S \in SUBSET (0 .. n), 0 \in S
  PROVE  Max(S) \in S
<1> DEFINE T == {n - k : k \in S}
<1>1. PICK m \in T : \A k \in T : m <= k
  <2>1. T \in SUBSET Nat /\ T # {} OBVIOUS
  <2> HIDE DEF T
  <2> QED BY <2>1, SmallestExists
<1>2. PICK x \in S : m = n - x BY <1>1
<1>3. \A y \in S : x >= y
  <2> TAKE y \in S
  <2>1. n - x <= n - y BY <1>1, <1>2
  <2>2. x \in Int /\ y \in Int OBVIOUS
  <2> QED BY <2>1, <2>2
<1>4. \E z \in S : \A y \in S : z >= y BY <1>3
<1> QED BY <1>4, Zenon DEF Max

(* Of a list without repetitions the picked are one too.                     *)
Distinct(row) == \A j, k \in 1 .. Len(row) : row[j] = row[k] => j = k

LEMMA PickedDistinct ==
  ASSUME NEW A, NEW row \in Seq(A), NEW T, Distinct(row)
  PROVE  Distinct(Picked(row, T))
<1> DEFINE at == PickedUpTo(row, T)
           Fine(n) == /\ at[n] \in Seq(A) /\ Distinct(at[n])
                      /\ \A j \in 1 .. Len(at[n]) : \E k \in 1 .. n : at[n][j] = row[k]
           Bad == {n \in 0 .. Len(row) : ~Fine(n)}
<1>0. Len(row) \in Nat OBVIOUS
<1>1. \A n \in 0 .. Len(row) : at[n] \in Seq(A) /\ Grows(at, row, T, n)
  BY <1>0, PickedUpToIs, PickedUpToType
<1> HIDE DEF at
<1>2. Bad = {}
  <2> SUFFICES ASSUME Bad # {} PROVE FALSE OBVIOUS
  <2>1. PICK n \in Bad : \A m \in Bad : n <= m
    <3>1. Bad \in SUBSET Nat OBVIOUS
    <3> HIDE DEF Bad
    <3> QED BY <3>1, SmallestExists
  <2>2. n \in 0 .. Len(row) /\ n \in Nat /\ ~Fine(n) OBVIOUS
  <2>3. n # 0
    <3>1. n = 0 => at[n] = << >> BY <1>1, <2>2 DEF Grows
    <3>2. << >> \in Seq(A) /\ Distinct(<< >>) /\ 1 .. Len(<< >>) = {} BY DEF Distinct
    <3>3. n = 0 => Fine(n) BY <3>1, <3>2
    <3> QED BY <2>2, <3>3
  <2>4. n - 1 \in 0 .. Len(row) /\ n - 1 \notin Bad BY <2>1, <2>2, <2>3
  <2>5. Fine(n - 1) BY <2>4
  <2>6. at[n] = IF row[n] \in T THEN Append(at[n - 1], row[n]) ELSE at[n - 1]
    BY <1>1, <2>2, <2>3 DEF Grows
  <2> DEFINE a == at[n - 1]  b == at[n]
  <2>7. a \in Seq(A) /\ Distinct(a) /\ \A j \in 1 .. Len(a) : \E k \in 1 .. n - 1 : a[j] = row[k]
    BY <2>5
  <2>8. b \in Seq(A) BY <1>1, <2>2
  <2>9. ~(b \in Seq(A) /\ Distinct(b) /\ \A j \in 1 .. Len(b) : \E k \in 1 .. n : b[j] = row[k])
    BY <2>2
  <2>10. b = IF row[n] \in T THEN Append(a, row[n]) ELSE a BY <2>6
  <2>11. row[n] \in A /\ n \in 1 .. Len(row) BY <2>2, <2>3
  <2> HIDE DEF a, b, Bad
  <2>12. CASE row[n] \notin T
    <3>1. b = a BY <2>10, <2>12
    <3>2. \A k \in 1 .. n - 1 : k \in 1 .. n BY <2>2
    <3> QED BY <2>7, <2>8, <2>9, <3>1, <3>2
  <2>13. CASE row[n] \in T
    <3>1. b = Append(a, row[n]) BY <2>10, <2>13
    <3>2. Len(b) = Len(a) + 1 /\ Len(a) \in Nat /\ b[Len(a) + 1] = row[n]
          /\ \A j \in 1 .. Len(a) : b[j] = a[j]
      BY <2>7, <2>11, <3>1
    <3>3. \A j \in 1 .. Len(b) : j \in 1 .. Len(a) \/ j = Len(a) + 1 BY <3>2
    <3>4. \A j \in 1 .. Len(a) : b[j] # row[n]
      <4> TAKE j \in 1 .. Len(a)
      <4>1. PICK k \in 1 .. n - 1 : a[j] = row[k] BY <2>7
      <4>2. k \in 1 .. Len(row) /\ k # n BY <2>2, <4>1
      <4> QED BY <2>11, <3>2, <4>1, <4>2 DEF Distinct
    <3>5. Distinct(b)
      <4> SUFFICES ASSUME NEW j \in 1 .. Len(b), NEW k \in 1 .. Len(b), b[j] = b[k] PROVE j = k
        BY DEF Distinct
      <4> QED BY <2>7, <3>2, <3>3, <3>4 DEF Distinct
    <3>6. \A j \in 1 .. Len(b) : \E k \in 1 .. n : b[j] = row[k]
      <4> TAKE j \in 1 .. Len(b)
      <4>1. CASE j \in 1 .. Len(a)
        <5>1. PICK k \in 1 .. n - 1 : a[j] = row[k] BY <2>7, <4>1
        <5>2. k \in 1 .. n BY <2>2
        <5> QED BY <3>2, <4>1, <5>1, <5>2
      <4>2. CASE j = Len(a) + 1
        <5>1. n \in 1 .. n BY <2>2, <2>3
        <5> QED BY <3>2, <4>2, <5>1
      <4> QED BY <3>3, <4>1, <4>2
    <3> QED BY <2>8, <2>9, <3>5, <3>6
  <2> QED BY <2>12, <2>13
<1>3. Len(row) \in 0 .. Len(row) BY <1>0
<1>4. Fine(Len(row)) BY <1>2, <1>3
<1> QED BY <1>4 DEF at, Picked

(* What is in the set is picked, and nothing is picked twice.                *)
LEMMA AllPicked ==
  ASSUME NEW A, NEW row \in Seq(A), NEW T
  PROVE  /\ Len(Picked(row, T)) <= Len(row)
         /\ \A k \in 1 .. Len(row) : row[k] \in T =>
              \E j \in 1 .. Len(Picked(row, T)) : Picked(row, T)[j] = row[k]
<1> DEFINE at == PickedUpTo(row, T)
           Has(n, k) == \E j \in 1 .. Len(at[n]) : at[n][j] = row[k]
           Fine(n) == /\ Len(at[n]) <= n
                      /\ \A k \in 1 .. n : row[k] \in T => Has(n, k)
           Bad == {n \in 0 .. Len(row) : ~Fine(n)}
<1>0. Len(row) \in Nat OBVIOUS
<1>1. \A n \in 0 .. Len(row) : at[n] \in Seq(A) /\ Grows(at, row, T, n)
  BY <1>0, PickedUpToIs, PickedUpToType
<1> HIDE DEF at
<1>2. Bad = {}
  <2> SUFFICES ASSUME Bad # {} PROVE FALSE OBVIOUS
  <2>1. PICK n \in Bad : \A m \in Bad : n <= m
    <3>1. Bad \in SUBSET Nat OBVIOUS
    <3> HIDE DEF Bad
    <3> QED BY <3>1, SmallestExists
  <2>2. n \in 0 .. Len(row) /\ n \in Nat /\ ~Fine(n) OBVIOUS
  <2>3. n # 0
    <3>1. n = 0 => at[n] = << >> BY <1>1, <2>2 DEF Grows
    <3>2. n = 0 => Fine(n) BY <3>1
    <3> QED BY <2>2, <3>2
  <2>4. n - 1 \in 0 .. Len(row) /\ n - 1 \notin Bad BY <2>1, <2>2, <2>3
  <2>5. Fine(n - 1) BY <2>4
  <2>6. at[n] = IF row[n] \in T THEN Append(at[n - 1], row[n]) ELSE at[n - 1]
    BY <1>1, <2>2, <2>3 DEF Grows
  <2> DEFINE a == at[n - 1]  b == at[n]
  <2>7. /\ a \in Seq(A) /\ b \in Seq(A) /\ Len(a) <= n - 1 /\ Len(a) \in Nat
        /\ \A k \in 1 .. n - 1 : row[k] \in T => \E j \in 1 .. Len(a) : a[j] = row[k]
    BY <1>1, <2>2, <2>4, <2>5
  <2>8. ~(/\ Len(b) <= n
          /\ \A k \in 1 .. n : row[k] \in T => \E j \in 1 .. Len(b) : b[j] = row[k])
    BY <2>2
  <2>9. b = IF row[n] \in T THEN Append(a, row[n]) ELSE a BY <2>6
  <2>10. row[n] \in A /\ \A k \in 1 .. n : k \in 1 .. n - 1 \/ k = n BY <2>2, <2>3
  <2> HIDE DEF a, b, Bad
  <2>11. CASE row[n] \notin T
    <3>1. b = a BY <2>9, <2>11
    <3> QED BY <2>2, <2>7, <2>8, <2>10, <2>11, <3>1
  <2>12. CASE row[n] \in T
    <3>1. b = Append(a, row[n]) BY <2>9, <2>12
    <3>2. Len(b) = Len(a) + 1 /\ b[Len(a) + 1] = row[n] /\ \A j \in 1 .. Len(a) : b[j] = a[j]
      BY <2>7, <2>10, <3>1
    <3>3. Len(a) + 1 \in 1 .. Len(b) /\ \A j \in 1 .. Len(a) : j \in 1 .. Len(b)
      BY <2>7, <3>2
    <3>4. ASSUME NEW k \in 1 .. n, row[k] \in T
          PROVE  \E j \in 1 .. Len(b) : b[j] = row[k]
      <4>1. CASE k = n BY <3>2, <3>3, <4>1
      <4>2. CASE k \in 1 .. n - 1
        <5>1. PICK j \in 1 .. Len(a) : a[j] = row[k] BY <2>7, <3>4, <4>2
        <5> QED BY <3>2, <3>3, <5>1
      <4> QED BY <2>10, <4>1, <4>2
    <3>5. Len(b) <= n BY <2>2, <2>7, <3>2
    <3> QED BY <2>8, <3>4, <3>5
  <2> QED BY <2>11, <2>12
<1>3. Len(row) \in 0 .. Len(row) BY <1>0
<1>4. Fine(Len(row)) BY <1>2, <1>3
<1> QED BY <1>4 DEF at, Picked

(* A list without repetitions is no longer than there are members.           *)
LEMMA DistinctLength ==
  ASSUME NEW A, IsFiniteSet(A), NEW row \in Seq(A), Distinct(row)
  PROVE  Len(row) <= Cardinality(A) /\ Cardinality(A) \in Nat /\ Len(row) \in Nat
<1>1. Len(row) \in Nat OBVIOUS
<1>2. row \in Injection(1 .. Len(row), A)
  <2>1. row \in [1 .. Len(row) -> A] BY <1>1
  <2>2. \A j, k \in 1 .. Len(row) : j # k => row[j] # row[k] BY DEF Distinct
  <2> QED BY <2>1, <2>2 DEF Injection, IsInjective
<1>3. Cardinality(1 .. Len(row)) <= Cardinality(A) BY <1>2, FS_Injection
<1>4. Cardinality(1 .. Len(row)) = Len(row) BY <1>1, FS_Interval
<1>5. Cardinality(A) \in Nat BY FS_CardinalityType
<1> QED BY <1>1, <1>3, <1>4, <1>5

SourceState == [sentdata : BOOLEAN, fresh : BOOLEAN, num : {0, 1}, csrc : BOOLEAN,
                done : BOOLEAN]

(* What FillInReportBlocks adds: blocks of sources to be reported on, each   *)
(* with what was counted; nothing else is forgotten of any source.           *)
NewBlock(r, f, b) ==
  /\ b.ssrc \in ToSet(list) /\ b.ssrc \in Sources /\ ShouldProcess(f, b.ssrc)
  /\ ~f[b.ssrc].done /\ b = [ssrc |-> b.ssrc, num |-> f[b.ssrc].num] /\ r.src[b.ssrc].done

Covered(s) == [s EXCEPT !.num = 0, !.done = TRUE]

Filled(r, p, f) ==
  LET n == Len(p.blocks)
      b == r.p.blocks
  IN /\ Fits(r.p) /\ r.added \in Nat /\ r.full \in BOOLEAN /\ r.atend \in BOOLEAN
     /\ r.skipped \in Nat /\ n \in Nat /\ Len(b) = n + r.added
     /\ \A k \in 1 .. n : b[k] = p.blocks[k]
     /\ \A k \in n + 1 .. n + r.added : NewBlock(r, f, b[k])
     /\ r.src \in [Sources -> SourceState]
     /\ \A s \in Sources :
          \/ r.src[s] = f[s]
          \/ r.src[s] = Covered(f[s]) /\ \E k \in n + 1 .. n + r.added : b[k].ssrc = s
     /\ r.atend => \A s \in ToSet(list) :
          ShouldProcess(f, s) /\ ~f[s].done => \E k \in n + 1 .. n + r.added : b[k].ssrc = s

LEMMA FillIs ==
  ASSUME NEW p, Fits(p), NEW f \in [Sources -> SourceState], NEW max \in Nat,
         list \in Seq(Sources)
  PROVE  Filled(FillInReportBlocks(p, f, max), p, f)
<1> DEFINE T     == {s \in Sources : ShouldProcess(f, s) /\ ~f[s].done}
           todo  == Picked(list, T)
           most  == IF Len(todo) < max THEN Len(todo) ELSE max
           S     == {k \in 0 .. most : k = 0 \/ BlocksFit(p, k)}
           added == Max(S)
           stop  == IF added < most THEN todo[added + 1]
                    ELSE IF added = max THEN todo[max] ELSE Last(list)
           upto  == {list[k] : k \in {m \in DOMAIN list : \A j \in 1 .. m - 1 : list[j] # stop}}
           now   == {todo[k] : k \in 1 .. added}
           bs    == [k \in 1 .. added |-> [ssrc |-> todo[k], num |-> f[todo[k]].num]]
           over  == {s \in upto : ShouldProcess(f, s) /\ f[s].done}
           after == [s \in Sources |-> IF s \in now
                       THEN [f[s] EXCEPT !.num = 0, !.done = TRUE] ELSE f[s]]
           r     == FillInReportBlocks(p, f, max)
           n     == Len(p.blocks)
<1>1. r = [p |-> AddReportBlocks(p, bs), src |-> after, added |-> added,
           full |-> added < most, skipped |-> Cardinality(over), atend |-> added = Len(todo)]
  BY Zenon DEF FillInReportBlocks
<1>2. /\ todo \in Seq(Sources) /\ todo \in Seq(Sources \cap T) /\ Len(todo) \in Nat
      /\ most \in Nat /\ most <= Len(todo)
  <2>1. todo \in Seq(Sources) /\ todo \in Seq(Sources \cap T)
    <3> HIDE DEF T
    <3> QED BY PickedIs
  <2> HIDE DEF todo
  <2>2. Len(todo) \in Nat BY <2>1
  <2> QED BY <2>1, <2>2
<1>3. \A k \in 1 .. Len(todo) : todo[k] \in Sources /\ todo[k] \in T
  <2> HIDE DEF todo, T
  <2> QED BY <1>2
<1>4. added \in Nat /\ added <= most /\ (added = 0 \/ BlocksFit(p, added))
  <2>1. S \in SUBSET (0 .. most) /\ 0 \in S BY <1>2
  <2>2. added \in S
    <3> HIDE DEF S, most
    <3> QED BY <1>2, <2>1, MaxIs
  <2> HIDE DEF added, most
  <2> QED BY <1>2, <2>2
<1> HIDE DEF added, most
<1>5. \A k \in 1 .. added : k \in 1 .. Len(todo) BY <1>2, <1>4
<1>6. \A k \in 1 .. added : todo[k] \in Sources /\ todo[k] \in T BY <1>3, <1>5
<1>7. bs \in Seq(Block) /\ Len(bs) = added
      /\ \A k \in 1 .. added : bs[k] = [ssrc |-> todo[k], num |-> f[todo[k]].num]
  <2>1. \A k \in 1 .. added : [ssrc |-> todo[k], num |-> f[todo[k]].num] \in Block
    <3> TAKE k \in 1 .. added
    <3>1. todo[k] \in Sources BY <1>6
    <3>2. f[todo[k]] \in SourceState BY <3>1
    <3>3. f[todo[k]].num \in {0, 1} BY <3>2 DEF SourceState
    <3> HIDE DEF todo
    <3> QED BY <3>1, <3>3 DEF Block
  <2> HIDE DEF todo
  <2> QED BY <1>4, <2>1
<1>8. n \in Nat /\ p.blocks \in Seq(Block) BY DEF Fits, Begun, Compounds
<1>9. Fits(r.p) /\ r.p.blocks = p.blocks \o bs
  <2> HIDE DEF bs
  <2>1. Len(bs) = 0 \/ BlocksFit(p, Len(bs)) BY <1>4, <1>7
  <2>2. Fits(AddReportBlocks(p, bs)) /\ AddReportBlocks(p, bs).blocks = p.blocks \o bs
    BY <1>7, <2>1, BlocksAdded
  <2>3. r.p = AddReportBlocks(p, bs)
    <3> HIDE DEF after, over, r
    <3> QED BY <1>1
  <2> HIDE DEF r
  <2> QED BY <2>2, <2>3
<1>10. Cardinality(over) \in Nat
  <2>1. upto \in SUBSET Sources
    <3> DEFINE D == {m \in DOMAIN list : \A j \in 1 .. m - 1 : list[j] # stop}
    <3>1. \A k \in DOMAIN list : list[k] \in Sources OBVIOUS
    <3>2. D \in SUBSET DOMAIN list OBVIOUS
    <3> HIDE DEF D, stop
    <3>3. {list[k] : k \in D} \in SUBSET Sources BY <3>1, <3>2
    <3> QED BY <3>3 DEF D
  <2> HIDE DEF upto
  <2>2. over \in SUBSET Sources BY <2>1
  <2> HIDE DEF over
  <2>3. IsFiniteSet(Sources) BY BuilderAssumption
  <2>4. IsFiniteSet(over) BY <2>2, <2>3, FS_Subset
  <2> QED BY <2>4, FS_CardinalityType
<1>11. /\ r.added = added /\ r.added \in Nat /\ r.full \in BOOLEAN /\ r.atend \in BOOLEAN
       /\ r.skipped \in Nat /\ r.src = after /\ (r.atend <=> added = Len(todo))
  <2> DEFINE some == added < most  all == added = Len(todo)
             skips == Cardinality(over)  filled == AddReportBlocks(p, bs)
  <2>1. some \in BOOLEAN /\ all \in BOOLEAN OBVIOUS
  <2>2. skips \in Nat BY <1>10
  <2>3. r = [p |-> filled, src |-> after, added |-> added, full |-> some, skipped |-> skips,
             atend |-> all]
    BY <1>1, Zenon
  <2>4. added \in Nat BY <1>4
  <2> HIDE DEF after, skips, filled, some, all, added, r
  <2>5. /\ r.added = added /\ r.full = some /\ r.atend = all /\ r.skipped = skips
        /\ r.src = after
    BY <2>3
  <2>6. r.full \in BOOLEAN /\ r.atend \in BOOLEAN /\ (r.atend <=> all)
    BY <2>1, <2>5, Zenon
  <2> QED BY <2>2, <2>4, <2>5, <2>6 DEF all
<1>12. after \in [Sources -> SourceState]
  <2>1. \A s \in Sources : /\ f[s] \in SourceState
                           /\ [f[s] EXCEPT !.num = 0, !.done = TRUE] \in SourceState
    BY DEF SourceState
  <2> HIDE DEF now
  <2> QED BY <2>1
<1> DEFINE b == r.p.blocks
<1> HIDE DEF r
<1>13. /\ Len(b) = n + added /\ \A k \in 1 .. n : b[k] = p.blocks[k]
       /\ \A k \in 1 .. added : b[n + k] = bs[k]
  <2> DEFINE x == p.blocks
  <2> HIDE DEF bs, x
  <2>1. x \in Seq(Block) /\ b = x \o bs /\ n = Len(x) BY <1>8, <1>9 DEF x
  <2> HIDE DEF b, n
  <2>2. Len(b) = n + added /\ \A k \in 1 .. n : b[k] = x[k]
    <3>1. Len(x \o bs) = Len(x) + Len(bs) /\ \A k \in 1 .. Len(x) : (x \o bs)[k] = x[k]
      BY <1>7, <2>1
    <3> QED BY <1>7, <2>1, <3>1
  <2>3. ASSUME NEW k \in 1 .. added PROVE b[n + k] = bs[k]
    <3>1. n + k \in 1 .. Len(x) + Len(bs) /\ ~(n + k <= Len(x)) /\ n + k - Len(x) = k
      BY <1>4, <1>7, <1>8, <2>1
    <3>2. (x \o bs)[n + k] = bs[n + k - Len(x)] BY <1>7, <2>1, <3>1
    <3> QED BY <2>1, <3>1, <3>2
  <2> QED BY <2>2, <2>3 DEF x
<1>14. \A k \in 1 .. added : /\ b[n + k].ssrc = todo[k]
                             /\ b[n + k] = [ssrc |-> todo[k], num |-> f[todo[k]].num]
  <2> HIDE DEF b, bs, todo, n
  <2> QED BY <1>7, <1>13
<1>15. \A k \in n + 1 .. n + added : k - n \in 1 .. added /\ k = n + (k - n) BY <1>4, <1>8
<1>16. ASSUME NEW k \in n + 1 .. n + added PROVE NewBlock(r, f, b[k])
  <2> DEFINE j == k - n  s == todo[j]
  <2>1. j \in 1 .. added /\ k = n + j BY <1>15
  <2> HIDE DEF b, n, j
  <2>2. b[k].ssrc = s /\ b[k] = [ssrc |-> s, num |-> f[s].num] BY <1>14, <2>1
  <2>3. s \in Sources /\ s \in T /\ s \in now BY <1>6, <2>1
  <2>4. s \in ToSet(list)
    <3>1. list \in Seq(ToSet(list)) BY DEF ToSet
    <3>2. todo \in Seq(ToSet(list)) BY <3>1, PickedIs
    <3>3. j \in 1 .. Len(todo) BY <1>5, <2>1
    <3> HIDE DEF todo
    <3> QED BY <3>2, <3>3
  <2>5. after[s].done
    <3>1. after[s] = [f[s] EXCEPT !.num = 0, !.done = TRUE] /\ f[s] \in SourceState BY <2>3
    <3> HIDE DEF after, s
    <3> QED BY <3>1 DEF SourceState
  <2> HIDE DEF s, after, now
  <2> QED BY <1>11, <2>2, <2>3, <2>4, <2>5 DEF NewBlock
<1>17. ASSUME NEW s \in Sources
       PROVE  \/ r.src[s] = f[s]
              \/ /\ r.src[s] = Covered(f[s])
                 /\ \E k \in n + 1 .. n + added : b[k].ssrc = s
  <2>1. CASE s \notin now BY <1>11, <2>1
  <2>2. CASE s \in now
    <3>1. PICK k \in 1 .. added : s = todo[k] BY <2>2
    <3>2. b[n + k].ssrc = s BY <1>14, <3>1
    <3>5. n + k \in n + 1 .. n + added
      <4> HIDE DEF n
      <4> QED BY <1>4, <1>8
    <3>3. r.src[s] = Covered(f[s]) BY <1>11, <2>2 DEF Covered
    <3> HIDE DEF b, n, now
    <3> QED BY <3>2, <3>3, <3>5
  <2> QED BY <2>1, <2>2
<1>18. after \in [Sources -> SourceState] /\ r.src = after BY <1>11, <1>12
<1>20. ASSUME r.atend, NEW s \in ToSet(list), ShouldProcess(f, s), ~f[s].done
       PROVE  \E k \in n + 1 .. n + added : b[k].ssrc = s
  <2>1. PICK i \in 1 .. Len(list) : list[i] = s BY DEF ToSet
  <2>2. s \in Sources BY <2>1
  <2>3. s \in T BY <1>20, <2>2
  <2>4. \E j \in 1 .. Len(todo) : todo[j] = s
    <3> HIDE DEF T
    <3> QED BY <2>1, <2>3, AllPicked
  <2> HIDE DEF b, n, T, todo
  <2>5. PICK j \in 1 .. added : todo[j] = s BY <1>11, <1>20, <2>4
  <2>6. b[n + j].ssrc = s BY <1>14, <2>5
  <2>7. n + j \in n + 1 .. n + added BY <1>4, <1>8, <2>5
  <2> QED BY <2>6, <2>7
<1> HIDE DEF b, n, after
<1>19. Fits(r.p) BY <1>9
<1> QED BY <1>8, <1>11, <1>13, <1>16, <1>17, <1>18, <1>19, <1>20 DEF b, n, r, Filled

(* A packet that may have a block more than there are sources, and is not    *)
(* full, has come to the end of them.                                        *)
LEMMA FillsAll ==
  ASSUME NEW p, NEW f, NEW max \in Nat, list \in Seq(Sources), Len(list) < max,
         ~FillInReportBlocks(p, f, max).full
  PROVE  FillInReportBlocks(p, f, max).atend
<1> DEFINE T     == {s \in Sources : ShouldProcess(f, s) /\ ~f[s].done}
           todo  == Picked(list, T)
           most  == IF Len(todo) < max THEN Len(todo) ELSE max
           added == Max({k \in 0 .. most : k = 0 \/ BlocksFit(p, k)})
           S     == {k \in 0 .. most : k = 0 \/ BlocksFit(p, k)}
           r     == FillInReportBlocks(p, f, max)
           some  == added < most
           all   == added = Len(todo)
<1>1. ~some /\ (all => r.atend)
  <2>1. r.full = some /\ r.atend = all BY DEF FillInReportBlocks
  <2> HIDE DEF some, all, r
  <2>2. ~r.full BY Zenon DEF r
  <2> QED BY <2>1, <2>2, Zenon
<1>2. Len(todo) <= Len(list) /\ todo \in Seq(Sources)
  <2> HIDE DEF T
  <2> QED BY AllPicked, PickedIs
<1> HIDE DEF todo
<1>3. Len(todo) \in Nat /\ Len(list) \in Nat BY <1>2
<1>4. most = Len(todo) BY <1>2, <1>3
<1>5. added \in S
  <2>1. S \in SUBSET (0 .. most) /\ 0 \in S /\ most \in Nat BY <1>3, <1>4
  <2>2. added = Max(S) OBVIOUS
  <2> HIDE DEF S, most, added
  <2> QED BY <2>1, <2>2, MaxIs
<1>6. added \in 0 .. most BY <1>5
<1> HIDE DEF added, most, S, r
<1>7. added = Len(todo) BY <1>1, <1>3, <1>4, <1>6
<1>8. r.atend BY <1>1, <1>7
<1> QED BY <1>8 DEF r

-----------------------------------------------------------------------------
(* Items.                                                                    *)

(* What saying items may come to: a packet within the size with the same     *)
(* blocks, nothing unsaid, and something new if anything was added.          *)
SayStates(p, said) ==
  {r \in [p : {q \in Compounds : Fits(q) /\ q.blocks = p.blocks}, said : SUBSET ItemNames,
          added : Nat, full : BOOLEAN] :
     said \subseteq r.said /\ (r.added > 0 => r.said # said)}

LEMMA SayKeeps ==
  ASSUME NEW p, NEW said, NEW r \in SayStates(p, said), NEW i \in ItemNames, NEW due
  PROVE  Say(r, i, due) \in SayStates(p, said)
<1> DEFINE len == ItemLength[i]  q == AddSDESItem(r.p, len)
<1>1. len \in Nat BY BuilderAssumption
<1>2. /\ Fits(r.p) /\ r.p.blocks = p.blocks /\ r.said \in SUBSET ItemNames /\ r.added \in Nat
      /\ r.full \in BOOLEAN /\ said \subseteq r.said /\ r.p \in Compounds
      /\ r = [p |-> r.p, said |-> r.said, added |-> r.added, full |-> r.full]
  <2>1. r \in [p : {x \in Compounds : Fits(x) /\ x.blocks = p.blocks}, said : SUBSET ItemNames,
               added : Nat, full : BOOLEAN] /\ said \subseteq r.said
    BY DEF SayStates
  <2> HIDE DEF Compounds, Fits
  <2> QED BY <2>1
<1>3. CASE r.full \/ i \notin due \/ i \in r.said BY <1>3 DEF Say
<1>4. CASE ~(r.full \/ i \notin due \/ i \in r.said) /\ ItemFits(r.p, len)
  <2>1. Fits(q) /\ q.blocks = r.p.blocks BY <1>1, <1>2, <1>4, ItemAdded DEF Fits
  <2>2. q \in Compounds BY <2>1 DEF Fits, Begun
  <2>3. Say(r, i, due) = [r EXCEPT !.p = q, !.said = r.said \union {i}, !.added = r.added + 1]
    BY <1>4 DEF Say
  <2> HIDE DEF q
  <2>4. Say(r, i, due) = [p |-> q, said |-> r.said \union {i}, added |-> r.added + 1, full |-> r.full]
    BY <1>2, <2>3
  <2>5. r.said \union {i} # said /\ said \subseteq r.said \union {i}
        /\ r.said \union {i} \in SUBSET ItemNames /\ r.added + 1 \in Nat
    BY <1>2, <1>4
  <2> QED BY <1>2, <2>1, <2>2, <2>4, <2>5 DEF SayStates
<1>5. CASE ~(r.full \/ i \notin due \/ i \in r.said) /\ ~ItemFits(r.p, len)
  <2>1. Say(r, i, due) = [r EXCEPT !.full = TRUE] BY <1>5 DEF Say
  <2>2. Say(r, i, due) = [p |-> r.p, said |-> r.said, added |-> r.added, full |-> TRUE]
    BY <1>2, <2>1
  <2>3. r.added > 0 => r.said # said BY DEF SayStates
  <2> QED BY <1>2, <2>2, <2>3 DEF SayStates
<1> QED BY <1>3, <1>4, <1>5

LEMMA SDESIs ==
  ASSUME NEW p, Fits(p), NEW due, NEW said \in SUBSET ItemNames
  PROVE  FillInSDES(p, due, said) \in SayStates(p, said)
<1> DEFINE V  == SayStates(p, said)
           v  == [p |-> p, said |-> said, added |-> 0, full |-> FALSE]
           N  == Len(Items)
           F  == [x \in Nat \X V |-> IF x[1] \in 1 .. N THEN Say(x[2], Items[x[1]], due) ELSE x[2]]
           Step(f) == [n \in 0 .. N |->
                         IF n = 0 THEN v ELSE Say(f[n - 1], Items[n], due)]
           at == SaidUpTo(p, due, said)
<1>1. v \in V
  <2>1. p \in Compounds BY DEF Fits, Begun
  <2> QED BY <2>1 DEF SayStates
<1>2. N \in Nat /\ \A n \in 1 .. N : Items[n] \in ItemNames BY BuilderAssumption
<1> HIDE DEF N, v
<1>3. F \in [Nat \X V -> V]
  <2>1. \A x \in Nat \X V : (IF x[1] \in 1 .. N THEN Say(x[2], Items[x[1]], due) ELSE x[2]) \in V
    <3> TAKE x \in Nat \X V
    <3>1. x[2] \in V OBVIOUS
    <3>2. CASE x[1] \in 1 .. N
      <4>1. Items[x[1]] \in ItemNames BY <1>2, <3>2
      <4> QED BY <3>1, <3>2, <4>1, SayKeeps
    <3> HIDE DEF V
    <3> QED BY <3>1, <3>2
  <2> HIDE DEF V
  <2> QED BY <2>1
<1> HIDE DEF V
<1>4. PICK g \in [0 .. N -> V] : g[0] = v /\ \A n \in 1 .. N : g[n] = Say(g[n - 1], Items[n], due)
  <2>1. PICK f \in [0 .. N -> V] : Steps(f, v, F, N)
    <3> HIDE DEF F
    <3>1. \A M \in Nat : \E f \in [0 .. M -> V] : Steps(f, v, F, M) BY <1>1, <1>3, StepByStep
    <3> QED BY <1>2, <3>1
  <2>2. f[0] = v BY <2>1 DEF Steps
  <2>3. ASSUME NEW n \in 1 .. N PROVE f[n] = Say(f[n - 1], Items[n], due)
    <3>1. n \in Nat /\ f[n - 1] \in V BY <1>2
    <3>2. f[n] = F[<<n, f[n - 1]>>]
      <4> HIDE DEF F
      <4> QED BY <2>1 DEF Steps
    <3>3. <<n, f[n - 1]>> \in Nat \X V BY <3>1
    <3>4. F[<<n, f[n - 1]>>] = Say(f[n - 1], Items[n], due) BY <3>3
    <3> QED BY <3>2, <3>4
  <2> QED BY <2>2, <2>3
<1>5. g = Step(g)
  <2>1. \A n \in 0 .. N : n = 0 \/ n \in 1 .. N BY <1>2
  <2>2. \A n \in 0 .. N : g[n] = Step(g)[n] BY <1>4, <2>1
  <2> QED BY <2>2
<1>6. at = CHOOSE f : f = Step(f) BY Zenon DEF SaidUpTo, v, N
<1>7. at = Step(at)
  <2> HIDE DEF at, Step
  <2> QED BY <1>5, <1>6, Zenon
<1> HIDE DEF at
<1>8. at[0] = v /\ \A n \in 1 .. N : at[n] = Say(at[n - 1], Items[n], due) BY <1>2, <1>7
<1> DEFINE Bad == {n \in 0 .. N : at[n] \notin V}
<1>9. Bad = {}
  <2> SUFFICES ASSUME Bad # {} PROVE FALSE OBVIOUS
  <2>1. PICK n \in Bad : \A m \in Bad : n <= m
    <3>1. Bad \in SUBSET Nat BY <1>2
    <3> HIDE DEF Bad
    <3> QED BY <3>1, SmallestExists
  <2>2. n \in 1 .. N /\ n - 1 \in 0 .. N BY <1>1, <1>2, <1>8
  <2>3. n - 1 \notin Bad BY <1>2, <2>1, <2>2
  <2>4. at[n - 1] \in V BY <2>2, <2>3
  <2>5. Say(at[n - 1], Items[n], due) \in V BY <1>2, <2>2, <2>4, SayKeeps DEF V
  <2>6. at[n] \in V BY <1>8, <2>2, <2>5
  <2> QED BY <2>6
<1>10. at[N] \in V BY <1>2, <1>9
<1> QED BY <1>10 DEF FillInSDES, at, V, N

-----------------------------------------------------------------------------
(* The invariant of the builder, and what filling a packet does to it.       *)

ListInv == list \in Seq(Sources) /\ Distinct(list)

(* What is new of a source was counted, and so was all it sent before the    *)
(* first packet.                                                             *)
SourceInv ==
  /\ src \in [Sources -> SourceState] /\ firstpacket \in BOOLEAN
  /\ \A s \in Sources : src[s].fresh \/ (firstpacket /\ src[s].sentdata) => src[s].num = 1

RestInv ==
  /\ sender \in BOOLEAN /\ processingsdes \in BOOLEAN /\ wanted \in SUBSET ItemNames
  /\ doitems \in SUBSET ItemNames /\ processed \in SUBSET ItemNames
  /\ sdesbuildcount \in 0 .. Period - 1

Complete == {"built", "bye", "app"}

OutInv ==
  /\ out.status \in {"none", "built", "bye", "app", "toosoon", "toobig"}
  /\ out.status \in Complete => Fits(out.packet)
  /\ FirstBlocksDefined

BuilderInv == ListInv /\ SourceInv /\ RestInv /\ OutInv

(* What a packet with blocks has done to the sources it reports on           *)
Reported(p, f) ==
  /\ Fits(p) /\ f \in [Sources -> SourceState]
  /\ \A k \in DOMAIN p.blocks :
       p.blocks[k].num > 0 \/ \E j \in 1 .. k - 1 : p.blocks[j].ssrc = p.blocks[k].ssrc
  /\ \A s \in Sources :
       src[s].num > 0 /\ f[s].num = 0 =>
         \E k \in DOMAIN p.blocks : p.blocks[k] = [ssrc |-> s, num |-> src[s].num]

IntervalsStep ==
  \A s \in ToSet(list) \intersect ToSet(list') :
    src[s].num > 0 /\ src'[s].num = 0 =>
      \E k \in DOMAIN out'.packet.blocks :
         out'.packet.blocks[k] = [ssrc |-> s, num |-> src[s].num]

AdvanceStep ==
  out'.status = "built" =>
    LET Done(f) == {s \in ToSet(list) : f[s].done}
    IN IF processingsdes THEN processingsdes' => processed # processed'
       ELSE \/ sdesbuildcount # sdesbuildcount'
            \/ Done(src) # Done(src') /\ Done(src) \subseteq Done(src')

WaitingStep ==
  out'.status = "built" /\ (\E s \in Sources : Due(s) /\ ~ReportedIn(out'.packet, s))
    => \A r \in ToSet(list) :
         /\ ReportedIn(out'.packet, r) => Due(r)
         /\ src[r].done \/ ReportedIn(out'.packet, r) => src'[r].done

(* Only sources that are due are reported on, and those covered stay so.     *)
Waits(p, f) ==
  \A r \in ToSet(list) :
    /\ ReportedIn(p, r) => Due(r)
    /\ src[r].done \/ ReportedIn(p, r) => f[r].done

NoneWaits(p) == \A s \in Sources : Due(s) => ReportedIn(p, s)

LEMMA FillWaits ==
  ASSUME BuilderInv, NEW p, p.blocks = << >>, NEW r, Filled(r, p, src)
  PROVE  Waits(r.p, r.src) /\ (r.atend => NoneWaits(r.p))
<1> DEFINE b == r.p.blocks
<1>1. src \in [Sources -> SourceState] /\ list \in Seq(Sources)
  BY DEF BuilderInv, SourceInv, ListInv
<1>2. Len(p.blocks) = 0 OBVIOUS
<1>3. /\ Fits(r.p) /\ r.added \in Nat /\ Len(b) = 0 + r.added
      /\ \A k \in 0 + 1 .. 0 + r.added : NewBlock(r, src, b[k])
      /\ \A s \in Sources : r.src[s] = src[s] \/ r.src[s] = Covered(src[s])
      /\ r.atend => \A s \in ToSet(list) :
           ShouldProcess(src, s) /\ ~src[s].done => \E k \in 0 + 1 .. 0 + r.added : b[k].ssrc = s
  BY <1>2 DEF Filled
<1>4. b \in Seq(Block) BY <1>3 DEF Fits, Begun, Compounds
<1>5. DOMAIN b = 0 + 1 .. 0 + r.added
  <2> HIDE DEF b
  <2> QED BY <1>3, <1>4
<1>6. ASSUME NEW s \in ToSet(list)
      PROVE  /\ ReportedIn(r.p, s) => Due(s)
             /\ src[s].done \/ ReportedIn(r.p, s) => r.src[s].done
  <2>1. ASSUME ReportedIn(r.p, s) PROVE Due(s) /\ r.src[s].done
    <3>1. PICK k \in DOMAIN b : b[k].ssrc = s BY <2>1 DEF ReportedIn
    <3>2. NewBlock(r, src, b[k]) BY <1>3, <1>5, <3>1
    <3> QED BY <3>1, <3>2 DEF NewBlock, Due
  <2>2. ASSUME src[s].done PROVE r.src[s].done
    <3>1. s \in Sources BY <1>1 DEF ToSet
    <3>2. src[s] \in SourceState BY <1>1, <3>1
    <3>3. Covered(src[s]).done BY <3>2 DEF Covered, SourceState
    <3> QED BY <1>3, <2>2, <3>1, <3>3
  <2> QED BY <2>1, <2>2
<1>7. ASSUME r.atend, NEW s \in Sources, Due(s) PROVE ReportedIn(r.p, s)
  BY <1>3, <1>5, <1>7 DEF Due, ReportedIn
<1> QED BY <1>6, <1>7 DEF Waits, NoneWaits

LEMMA StaysReported ==
  ASSUME NEW p, Fits(p), NEW f, NEW r, Filled(r, p, f), NEW s, ReportedIn(p, s)
  PROVE  ReportedIn(r.p, s)
<1> DEFINE n == Len(p.blocks)  b == r.p.blocks
<1>1. /\ Fits(r.p) /\ r.added \in Nat /\ n \in Nat /\ Len(b) = n + r.added
      /\ \A k \in 1 .. n : b[k] = p.blocks[k]
  BY DEF Filled
<1>2. b \in Seq(Block) /\ p.blocks \in Seq(Block) BY <1>1 DEF Fits, Begun, Compounds
<1>3. PICK k \in DOMAIN p.blocks : p.blocks[k].ssrc = s BY DEF ReportedIn
<1>4. k \in 1 .. n BY <1>2, <1>3
<1>5. b[k].ssrc = s BY <1>1, <1>3, <1>4
<1> HIDE DEF b, n
<1>6. k \in DOMAIN b BY <1>1, <1>2, <1>4
<1> QED BY <1>5, <1>6 DEF b, ReportedIn

LEMMA WaitingBuilt ==
  ASSUME BuilderInv, NEW p, NEW f, Reported(p, f), NEW items, Built(p, f, items),
         NoneWaits(p) \/ Waits(p, f)
  PROVE  WaitingStep
<1>1. /\ out'.packet = p /\ src' = [s \in Sources |-> [f[s] EXCEPT !.fresh = FALSE]]
  BY DEF Built
<1>2. ASSUME NEW s \in Sources PROVE src'[s].done = f[s].done
  <2>1. f[s] \in SourceState BY DEF Reported
  <2>2. src'[s] = [f[s] EXCEPT !.fresh = FALSE] BY <1>1
  <2> QED BY <2>1, <2>2 DEF SourceState
<1>3. ToSet(list) \subseteq Sources BY DEF BuilderInv, ListInv, ToSet
<1> QED BY <1>1, <1>2, <1>3 DEF WaitingStep, NoneWaits, Waits

LEMMA CountedIs ==
  ASSUME BuilderInv, NEW s \in Sources, ShouldProcess(src, s)
  PROVE  src[s].num = 1
BY DEF BuilderInv, SourceInv, ShouldProcess

LEMMA FirstFill ==
  ASSUME BuilderInv, NEW p, Fits(p), p.blocks = << >>, NEW max \in Nat
  PROVE  LET r == FillInReportBlocks(p, src, max) IN Reported(r.p, r.src)
<1> DEFINE r == FillInReportBlocks(p, src, max)  b == r.p.blocks
<1>1. src \in [Sources -> SourceState] /\ list \in Seq(Sources)
  BY DEF BuilderInv, SourceInv, ListInv
<1>2. Len(p.blocks) = 0 OBVIOUS
<1>3. Filled(r, p, src)
  <2> HIDE DEF r
  <2> QED BY <1>1, FillIs DEF r
<1> HIDE DEF r
<1>31. Fits(r.p) /\ r.added \in Nat /\ Len(b) = r.added /\ r.src \in [Sources -> SourceState]
  BY <1>2, <1>3 DEF Filled
<1>32. \A k \in 1 .. r.added : NewBlock(r, src, b[k]) BY <1>2, <1>3 DEF Filled
<1>33. \A s \in Sources : r.src[s] = src[s] \/ \E k \in 1 .. r.added : b[k].ssrc = s
  BY <1>2, <1>3 DEF Filled
<1>4. b \in Seq(Block) BY <1>31 DEF Fits, Begun, Compounds
<1> HIDE DEF b
<1>5. DOMAIN b = 1 .. r.added BY <1>31, <1>4
<1>6. \A k \in 1 .. r.added : /\ b[k].ssrc \in Sources /\ ShouldProcess(src, b[k].ssrc)
                              /\ b[k] = [ssrc |-> b[k].ssrc, num |-> src[b[k].ssrc].num]
  BY <1>32 DEF NewBlock
<1>7. ASSUME NEW k \in DOMAIN b PROVE b[k].num > 0
  <2>1. b[k].ssrc \in Sources /\ ShouldProcess(src, b[k].ssrc)
        /\ b[k] = [ssrc |-> b[k].ssrc, num |-> src[b[k].ssrc].num]
    BY <1>5, <1>6
  <2>2. src[b[k].ssrc].num = 1 BY <2>1, CountedIs
  <2>3. b[k].num = 1 BY <2>1, <2>2
  <2> QED BY <2>3
<1>8. ASSUME NEW s \in Sources, src[s].num > 0, r.src[s].num = 0
      PROVE  \E k \in DOMAIN b : b[k] = [ssrc |-> s, num |-> src[s].num]
  <2>1. r.src[s] # src[s] BY <1>8
  <2>2. PICK k \in 1 .. r.added : b[k].ssrc = s BY <1>33, <2>1
  <2>3. k \in DOMAIN b BY <1>5
  <2>4. b[k] = [ssrc |-> s, num |-> src[s].num] BY <1>6, <2>2
  <2> QED BY <2>3, <2>4
<1> QED BY <1>31, <1>7, <1>8 DEF Reported, b, r

(* The second time every flag is cleared: who was reported on just now, and  *)
(* counts nothing any more, may come again.                                  *)
LEMMA SecondFill ==
  ASSUME BuilderInv, NEW p, Fits(p), NEW f, NEW q, Reported(q, f), p.blocks = q.blocks,
         \A s \in Sources :
           \/ f[s] = src[s]
           \/ /\ f[s] = Covered(src[s])
              /\ \E k \in DOMAIN q.blocks : q.blocks[k].ssrc = s,
         NEW max \in Nat
  PROVE  LET r == FillInReportBlocks(p, ClearAllSourceFlags(f), max) IN Reported(r.p, r.src)
<1> DEFINE c == ClearAllSourceFlags(f)  r == FillInReportBlocks(p, c, max)
           b == r.p.blocks  n == Len(p.blocks)
<1>1. src \in [Sources -> SourceState] /\ list \in Seq(Sources)
  BY DEF BuilderInv, SourceInv, ListInv
<1>2. f \in [Sources -> SourceState] BY DEF Reported
<1>3. c \in [Sources -> SourceState] /\ \A s \in Sources : c[s] = [f[s] EXCEPT !.done = FALSE]
  <2>1. \A s \in Sources : [f[s] EXCEPT !.done = FALSE] \in SourceState
    <3> TAKE s \in Sources
    <3>1. f[s] \in SourceState BY <1>2
    <3> QED BY <3>1 DEF SourceState
  <2> QED BY <2>1 DEF ClearAllSourceFlags
<1> HIDE DEF c
<1>4. Filled(r, p, c)
  <2> HIDE DEF r
  <2> QED BY <1>1, <1>3, FillIs DEF r
<1> HIDE DEF r
<1> DEFINE m == r.added
<1>41. Fits(r.p) /\ m \in Nat /\ n \in Nat /\ Len(b) = n + m /\ r.src \in [Sources -> SourceState]
  BY <1>4 DEF Filled
<1>42. \A k \in 1 .. n : b[k] = q.blocks[k] BY <1>4 DEF Filled
<1>43. \A k \in n + 1 .. n + m : NewBlock(r, c, b[k]) BY <1>4 DEF Filled
<1>44. \A s \in Sources : r.src[s] = c[s] \/ \E k \in n + 1 .. n + m : b[k].ssrc = s
  BY <1>4 DEF Filled
<1>5. b \in Seq(Block) /\ p.blocks \in Seq(Block) BY <1>41 DEF Fits, Begun, Compounds
<1>6. DOMAIN b = 1 .. n + m /\ DOMAIN p.blocks = 1 .. n /\ DOMAIN q.blocks = 1 .. n
  BY <1>41, <1>5
<1> HIDE DEF b, n, m
<1>7. \A k \in 1 .. n : k \in 1 .. n + m /\ b[k] = q.blocks[k] BY <1>41, <1>42
(* A source whose count is still there is one as it was; any other has a     *)
(* block already.                                                            *)
<1>8. ASSUME NEW s \in Sources
      PROVE  /\ c[s].num = f[s].num
             /\ \/ /\ f[s] = src[s] /\ c[s].csrc = src[s].csrc
                   /\ c[s].sentdata = src[s].sentdata /\ c[s].fresh = src[s].fresh
                \/ f[s].num = 0 /\ \E k \in 1 .. n : b[k].ssrc = s
  <2>1. f[s] \in SourceState /\ src[s] \in SourceState /\ c[s] = [f[s] EXCEPT !.done = FALSE]
    BY <1>1, <1>2, <1>3
  <2>2. /\ c[s].num = f[s].num /\ c[s].csrc = f[s].csrc /\ c[s].sentdata = f[s].sentdata
        /\ c[s].fresh = f[s].fresh
    BY <2>1 DEF SourceState
  <2>3. CASE f[s] = src[s] BY <2>2, <2>3
  <2>4. CASE f[s] # src[s]
    <3>1. f[s] = Covered(src[s])
          /\ \E k \in DOMAIN q.blocks : q.blocks[k].ssrc = s
      BY <2>4
    <3>2. f[s].num = 0 BY <2>1, <3>1 DEF SourceState, Covered
    <3>3. \E k \in 1 .. n : b[k].ssrc = s BY <1>6, <1>7, <3>1
    <3> QED BY <2>2, <3>2, <3>3
  <2> QED BY <2>3, <2>4
<1>9. ASSUME NEW k \in DOMAIN b
      PROVE  b[k].num > 0 \/ \E j \in 1 .. k - 1 : b[j].ssrc = b[k].ssrc
  <2>1. CASE k \in 1 .. n
    <3>1. q.blocks[k].num > 0 \/ \E j \in 1 .. k - 1 : q.blocks[j].ssrc = q.blocks[k].ssrc
      BY <1>6, <2>1 DEF Reported
    <3>2. \A j \in 1 .. k - 1 : j \in 1 .. n BY <1>41, <2>1
    <3> QED BY <1>7, <2>1, <3>1, <3>2
  <2>2. CASE k \notin 1 .. n
    <3>1. k \in n + 1 .. n + m BY <1>41, <1>6, <2>2
    <3> DEFINE s == b[k].ssrc
    <3>2. s \in Sources /\ ShouldProcess(c, s) /\ b[k] = [ssrc |-> s, num |-> c[s].num]
      BY <1>43, <3>1 DEF NewBlock
    <3>3. b[k].num = c[s].num BY <3>2
    <3> HIDE DEF s
    <3>4. CASE f[s] = src[s] /\ c[s].csrc = src[s].csrc
               /\ c[s].sentdata = src[s].sentdata /\ c[s].fresh = src[s].fresh
      <4>1. ShouldProcess(src, s) BY <3>2, <3>4 DEF ShouldProcess
      <4>2. src[s].num = 1 BY <3>2, <4>1, CountedIs
      <4> QED BY <1>8, <3>2, <3>3, <3>4, <4>2
    <3>5. CASE \E j \in 1 .. n : b[j].ssrc = s
      <4>1. \A j \in 1 .. n : j \in 1 .. k - 1 BY <1>41, <3>1
      <4> QED BY <3>5, <4>1 DEF s
    <3> QED BY <1>8, <3>2, <3>4, <3>5
  <2> QED BY <2>1, <2>2
<1>10. ASSUME NEW s \in Sources, src[s].num > 0, r.src[s].num = 0
       PROVE  \E k \in DOMAIN b : b[k] = [ssrc |-> s, num |-> src[s].num]
  <2>1. CASE f[s].num = 0
    <3>1. \E k \in DOMAIN q.blocks : q.blocks[k] = [ssrc |-> s, num |-> src[s].num]
      BY <1>10, <2>1 DEF Reported
    <3> QED BY <1>6, <1>7, <3>1
  <2>2. CASE f[s].num # 0
    <3>1. f[s] = src[s] /\ c[s].num = src[s].num BY <1>8, <2>2
    <3>2. r.src[s] # c[s] BY <1>10, <3>1
    <3>3. PICK k \in n + 1 .. n + m : b[k].ssrc = s BY <1>44, <3>2
    <3>4. k \in DOMAIN b BY <1>41, <1>6, <3>3
    <3>5. b[k] = [ssrc |-> s, num |-> c[s].num] BY <1>43, <3>3 DEF NewBlock
    <3> QED BY <3>1, <3>4, <3>5
  <2> QED BY <2>1, <2>2
<1> QED BY <1>41, <1>9, <1>10 DEF Reported, b, r, c

-----------------------------------------------------------------------------
(* BuildNextPacket.                                                          *)

LEMMA NoFill ==
  ASSUME NEW p, Fits(p), NEW f, NEW q, Reported(q, f), p.blocks = q.blocks
  PROVE  Reported(p, f) /\ Reported(p, ClearAllSourceFlags(f))
<1> DEFINE c == ClearAllSourceFlags(f)
<1>1. f \in [Sources -> SourceState] BY DEF Reported
<1>2. ASSUME NEW s \in Sources
      PROVE  [f[s] EXCEPT !.done = FALSE] \in SourceState /\ c[s] = [f[s] EXCEPT !.done = FALSE]
             /\ c[s].num = f[s].num
  <2>1. f[s] \in SourceState BY <1>1
  <2>2. c[s] = [f[s] EXCEPT !.done = FALSE] BY DEF ClearAllSourceFlags
  <2> HIDE DEF c
  <2> QED BY <2>1, <2>2 DEF SourceState
<1>3. c \in [Sources -> SourceState] BY <1>2 DEF ClearAllSourceFlags
<1>4. Reported(p, f) BY DEF Reported
<1> HIDE DEF c
<1>5. Reported(p, c) BY <1>2, <1>3, <1>4 DEF Reported
<1> QED BY <1>4, <1>5 DEF c

(* What is built keeps the invariant and drops no count unreported.          *)
LEMMA BuiltKeeps ==
  ASSUME BuilderInv, NEW p, NEW f, Reported(p, f), NEW items, Built(p, f, items), RestInv'
  PROVE  BuilderInv' /\ IntervalsStep
<1>1. /\ out'.status = "built" /\ out'.packet = p /\ list' = list /\ firstpacket' = FALSE
      /\ src' = [s \in Sources |-> [f[s] EXCEPT !.fresh = FALSE]]
  BY DEF Built
<1>2. Fits(p) /\ f \in [Sources -> SourceState] BY DEF Reported
<1>3. ASSUME NEW s \in Sources
      PROVE  /\ [f[s] EXCEPT !.fresh = FALSE] \in SourceState
             /\ src'[s] = [f[s] EXCEPT !.fresh = FALSE]
             /\ src'[s].fresh = FALSE /\ src'[s].num = f[s].num
  <2>1. f[s] \in SourceState BY <1>2
  <2>2. src'[s] = [f[s] EXCEPT !.fresh = FALSE] BY <1>1
  <2> QED BY <2>1, <2>2 DEF SourceState
<1>4. SourceInv'
  <2>1. src' \in [Sources -> SourceState] BY <1>1, <1>3
  <2> QED BY <1>1, <1>3, <2>1 DEF SourceInv
<1>5. ListInv' BY <1>1 DEF BuilderInv, ListInv
<1>6. FirstBlocksDefined' BY <1>1 DEF Reported, FirstBlocksDefined
<1>7. OutInv' BY <1>1, <1>2, <1>6 DEF OutInv
<1>8. IntervalsStep
  <2>1. ToSet(list) \subseteq Sources BY DEF BuilderInv, ListInv, ToSet
  <2>2. ASSUME NEW s \in Sources, src[s].num > 0, src'[s].num = 0
        PROVE  \E k \in DOMAIN p.blocks : p.blocks[k] = [ssrc |-> s, num |-> src[s].num]
    <3>1. f[s].num = 0 BY <1>3, <2>2
    <3> QED BY <2>2, <3>1 DEF Reported
  <2> QED BY <1>1, <2>1, <2>2 DEF IntervalsStep
<1> QED BY <1>4, <1>5, <1>7, <1>8 DEF BuilderInv

(* A packet that was not built, or that has no blocks, changes nothing but   *)
(* itself.                                                                   *)
LEMMA OtherKeeps ==
  ASSUME BuilderInv, src' = src, list' = list, firstpacket' = firstpacket, RestInv',
         out'.status \in {"none", "bye", "app", "toosoon", "toobig"},
         out'.status \in Complete => Fits(out'.packet), out'.packet.blocks = << >>
  PROVE  BuilderInv' /\ IntervalsStep /\ AdvanceStep /\ WaitingStep
<1>1. SourceInv' /\ ListInv' BY DEF BuilderInv, SourceInv, ListInv
<1>2. FirstBlocksDefined'
  <2>1. DOMAIN (<< >>) = {} OBVIOUS
  <2> QED BY <2>1 DEF FirstBlocksDefined
<1>3. OutInv' BY <1>2 DEF OutInv
<1>4. IntervalsStep
  <2> SUFFICES ASSUME NEW s \in ToSet(list), src[s].num > 0, src'[s].num = 0 PROVE FALSE
    BY DEF IntervalsStep
  <2> QED OBVIOUS
<1> QED BY <1>1, <1>3, <1>4 DEF BuilderInv, AdvanceStep, WaitingStep

LEMMA NothingIs ==
  ASSUME NEW status
  PROVE  /\ Nothing.status = "none" /\ Nothing.packet.blocks = << >>
         /\ [Nothing EXCEPT !.status = status].status = status
         /\ [Nothing EXCEPT !.status = status].packet.blocks = << >>
BY DEF Nothing, NewPacket

LEMMA TooSoonKeeps ==
  ASSUME BuilderInv, TooSoon
  PROVE  BuilderInv' /\ IntervalsStep /\ AdvanceStep /\ WaitingStep
<1>1. out'.status = "toosoon" /\ out'.packet.blocks = << >> BY NothingIs DEF TooSoon
<1>2. RestInv' BY DEF TooSoon, BuilderInv, RestInv
<1> QED BY <1>1, <1>2, OtherKeeps DEF TooSoon, Complete

LEMMA KindIs == ASSUME BuilderInv PROVE Kind \in {"SR", "RR"}
BY DEF Kind

LEMMA ReportsKeep ==
  ASSUME BuilderInv, BeginFits(Kind), ~processingsdes, BuildReports
  PROVE  BuilderInv' /\ IntervalsStep /\ AdvanceStep /\ WaitingStep
<1> DEFINE fill  == FillInReportBlocks(Begin(Kind), src, Len(list) + 1)
           count == (sdesbuildcount + 1) % Period
           due   == {i \in wanted : count % Interval[i] = 0}
           sdes  == FillInSDES(fill.p, due, processed)
           clear == ClearAllSourceFlags(fill.src)
           twice == FillInReportBlocks(sdes.p, clear, fill.skipped)
           again == IF fill.skipped > 0 /\ ~sdes.full THEN twice
                    ELSE [p |-> sdes.p, src |-> clear]
<1>1. \/ TooSoon
      \/ /\ fill.full /\ fill.added # 0 /\ Built(fill.p, fill.src, {})
         /\ UNCHANGED <<sdesbuildcount, processingsdes, doitems, processed>>
      \/ /\ sdesbuildcount' = count /\ doitems' = due /\ processingsdes' = sdes.full
         /\ processed' = (IF sdes.full THEN sdes.said ELSE {})
         /\ Built(again.p, again.src, sdes.said \ processed) /\ ~fill.full
  BY Zenon DEF BuildReports
<1>2. Fits(Begin(Kind)) /\ Begin(Kind).blocks = << >> BY KindIs, BeginIs
<1>3. src \in [Sources -> SourceState] /\ list \in Seq(Sources) /\ Len(list) + 1 \in Nat
  BY DEF BuilderInv, SourceInv, ListInv
<1>4. Reported(fill.p, fill.src) BY <1>2, <1>3, FirstFill
<1>5. Filled(fill, Begin(Kind), src) BY <1>2, <1>3, FillIs
<1>51. ~fill.full => fill.atend
  <2>1. Len(list) < Len(list) + 1 BY <1>3
  <2> QED BY <1>3, <2>1, FillsAll
<1> HIDE DEF fill
<1>6. processed \in SUBSET ItemNames /\ wanted \in SUBSET ItemNames
      /\ sdesbuildcount \in 0 .. Period - 1 /\ Period \in Nat /\ Period > 1
  BY BuilderAssumption DEF BuilderInv, RestInv
<1>7. CASE TooSoon BY <1>7, TooSoonKeeps
<1>8. CASE /\ fill.full /\ fill.added # 0 /\ Built(fill.p, fill.src, {})
           /\ UNCHANGED <<sdesbuildcount, processingsdes, doitems, processed>>
  <2>1. RestInv' BY <1>8 DEF Built, BuilderInv, RestInv
  <2>2. BuilderInv' /\ IntervalsStep BY <1>4, <1>8, <2>1, BuiltKeeps
  <2> DEFINE Done(f) == {s \in ToSet(list) : f[s].done}
  <2>3. ToSet(list) \subseteq Sources BY <1>3 DEF ToSet
  <2>4. fill.src \in [Sources -> SourceState] BY <1>4 DEF Reported
  <2>5. ASSUME NEW s \in Sources PROVE src'[s].done = fill.src[s].done
    <3>1. fill.src[s] \in SourceState BY <2>4
    <3>2. src'[s] = [fill.src[s] EXCEPT !.fresh = FALSE] BY <1>8 DEF Built
    <3> QED BY <3>1, <3>2 DEF SourceState
  <2>6. ASSUME NEW s \in Sources, src[s].done PROVE src'[s].done
    <3>1. src[s] \in SourceState BY <1>3
    <3>2. fill.src[s] = src[s] \/ fill.src[s] = Covered(src[s]) BY <1>5 DEF Filled
    <3>3. Covered(src[s]).done BY <3>1 DEF Covered, SourceState
    <3> QED BY <2>5, <2>6, <3>2, <3>3
  <2>7. \E s \in ToSet(list) : ~src[s].done /\ src'[s].done
    <3> DEFINE b == fill.p.blocks[1]
    <3>1. Len(Begin(Kind).blocks) = 0 BY <1>2
    <3>2. fill.added \in Nat /\ \A k \in 0 + 1 .. 0 + fill.added : NewBlock(fill, src, fill.p.blocks[k])
      BY <1>5, <3>1 DEF Filled
    <3>3. 1 \in 0 + 1 .. 0 + fill.added BY <1>8, <3>2
    <3>4. NewBlock(fill, src, b) BY <3>2, <3>3
    <3> HIDE DEF b
    <3> QED BY <2>5, <3>4 DEF NewBlock
  <2>8. Done(src) # Done(src') /\ Done(src) \subseteq Done(src') BY <2>3, <2>6, <2>7
  <2>9. AdvanceStep BY <2>8 DEF AdvanceStep
  <2>10. WaitingStep
    <3>1. Waits(fill.p, fill.src) BY <1>2, <1>5, FillWaits
    <3> QED BY <1>4, <1>8, <3>1, WaitingBuilt
  <2> QED BY <2>2, <2>9, <2>10
<1>9. CASE /\ sdesbuildcount' = count /\ doitems' = due /\ processingsdes' = sdes.full
           /\ processed' = (IF sdes.full THEN sdes.said ELSE {})
           /\ Built(again.p, again.src, sdes.said \ processed) /\ ~fill.full
  <2>1. Fits(fill.p) BY <1>4 DEF Reported
  <2>2. sdes \in SayStates(fill.p, processed) BY <1>6, <2>1, SDESIs
  <2> HIDE DEF sdes
  <2>3. Fits(sdes.p) /\ sdes.p.blocks = fill.p.blocks /\ sdes.said \in SUBSET ItemNames
        /\ sdes.full \in BOOLEAN
    BY <2>2 DEF SayStates
  <2>4. count \in 0 .. Period - 1 /\ count # sdesbuildcount
    <3>1. CASE sdesbuildcount = Period - 1
      <4>1. sdesbuildcount + 1 = Period /\ Period % Period = 0 BY <1>6, <3>1
      <4> QED BY <1>6, <3>1, <4>1
    <3>2. CASE sdesbuildcount # Period - 1
      <4>1. sdesbuildcount + 1 \in 0 .. Period - 1 BY <1>6, <3>2
      <4>2. (sdesbuildcount + 1) % Period = sdesbuildcount + 1 BY <1>6, <4>1
      <4> QED BY <1>6, <4>1, <4>2
    <3> QED BY <3>1, <3>2
  <2>5. due \in SUBSET ItemNames BY <1>6
  <2> HIDE DEF count, due
  <2>6. RestInv' BY <1>9, <2>3, <2>4, <2>5 DEF Built, BuilderInv, RestInv
  <2>12. NoneWaits(fill.p) /\ NoneWaits(sdes.p)
    <3>1. NoneWaits(fill.p) BY <1>2, <1>5, <1>51, <1>9, FillWaits
    <3> QED BY <2>3, <3>1 DEF NoneWaits, ReportedIn
  <2>7. Reported(again.p, again.src) /\ NoneWaits(again.p)
    <3>1. CASE fill.skipped > 0 /\ ~sdes.full
      <4>1. fill.skipped \in Nat BY <1>5 DEF Filled
      <4>2. DOMAIN fill.p.blocks = 1 .. fill.added
        <5>1. Len(Begin(Kind).blocks) = 0 BY <1>2
        <5>2. fill.added \in Nat /\ Len(fill.p.blocks) = 0 + fill.added BY <1>5, <5>1 DEF Filled
        <5>3. fill.p.blocks \in Seq(Block) BY <2>1 DEF Fits, Begun, Compounds
        <5> DEFINE b == fill.p.blocks
        <5> HIDE DEF b
        <5> QED BY <5>2, <5>3 DEF b
      <4>3. \A s \in Sources :
              \/ fill.src[s] = src[s]
              \/ /\ fill.src[s] = Covered(src[s])
                 /\ \E k \in DOMAIN fill.p.blocks : fill.p.blocks[k].ssrc = s
        <5>1. Len(Begin(Kind).blocks) = 0 BY <1>2
        <5>2. fill.added \in Nat /\ \A s \in Sources :
                \/ fill.src[s] = src[s]
                \/ fill.src[s] = Covered(src[s])
                   /\ \E k \in 0 + 1 .. 0 + fill.added : fill.p.blocks[k].ssrc = s
          BY <1>5, <5>1 DEF Filled
        <5>3. 0 + 1 .. 0 + fill.added = DOMAIN fill.p.blocks BY <4>2, <5>2
        <5> QED BY <5>2, <5>3
      <4>4. Reported(twice.p, twice.src) BY <1>4, <2>3, <4>1, <4>3, SecondFill
      <4>5. again = twice BY <3>1
      <4>6. Filled(twice, sdes.p, clear)
        <5>1. clear \in [Sources -> SourceState]
          <6>1. Reported(sdes.p, clear) BY <1>4, <2>3, NoFill
          <6> HIDE DEF clear
          <6> QED BY <6>1 DEF Reported
        <5> HIDE DEF clear
        <5> QED BY <1>3, <2>3, <4>1, <5>1, FillIs
      <4> HIDE DEF again, twice, clear
      <4>7. NoneWaits(twice.p) BY <2>3, <2>12, <4>6, StaysReported DEF NoneWaits
      <4> QED BY <4>4, <4>5, <4>7
    <3>2. CASE ~(fill.skipped > 0 /\ ~sdes.full)
      <4>1. again.p = sdes.p /\ again.src = clear BY <3>2
      <4>2. Reported(sdes.p, clear) BY <1>4, <2>3, NoFill
      <4> HIDE DEF again, clear
      <4> QED BY <2>12, <4>1, <4>2
    <3> QED BY <3>1, <3>2
  <2> HIDE DEF again
  <2>8. BuilderInv' /\ IntervalsStep BY <1>9, <2>6, <2>7, BuiltKeeps
  <2>9. AdvanceStep BY <1>9, <2>4 DEF AdvanceStep
  <2>11. WaitingStep BY <1>9, <2>7, WaitingBuilt
  <2> QED BY <2>8, <2>9, <2>11
<1> QED BY <1>1, <1>7, <1>8, <1>9

LEMMA SDESKeeps ==
  ASSUME BuilderInv, BeginFits(Kind), processingsdes, ContinueSDES
  PROVE  BuilderInv' /\ IntervalsStep /\ AdvanceStep /\ WaitingStep
<1> DEFINE sdes  == FillInSDES(Begin(Kind), doitems, processed)
           more  == FillInReportBlocks(sdes.p, src, Len(list) + 1)
           fill  == IF sdes.full THEN [p |-> sdes.p, src |-> src, atend |-> FALSE] ELSE more
           after == IF fill.atend THEN ClearAllSourceFlags(fill.src) ELSE fill.src
<1>1. \/ TooSoon
      \/ /\ sdes.added # 0 /\ processingsdes' = sdes.full
         /\ processed' = (IF sdes.full THEN sdes.said ELSE {})
         /\ UNCHANGED <<sdesbuildcount, doitems>>
         /\ Built(fill.p, after, sdes.said \ processed)
  BY Zenon DEF ContinueSDES
<1>2. Fits(Begin(Kind)) /\ Begin(Kind).blocks = << >> BY KindIs, BeginIs
<1>3. src \in [Sources -> SourceState] /\ list \in Seq(Sources) /\ Len(list) + 1 \in Nat
      /\ processed \in SUBSET ItemNames
  BY DEF BuilderInv, SourceInv, ListInv, RestInv
<1>4. sdes \in SayStates(Begin(Kind), processed) BY <1>2, <1>3, SDESIs
<1> HIDE DEF sdes
<1>5. Fits(sdes.p) /\ sdes.p.blocks = << >> /\ sdes.said \in SUBSET ItemNames
      /\ sdes.full \in BOOLEAN /\ sdes.added \in Nat /\ (sdes.added > 0 => sdes.said # processed)
  BY <1>2, <1>4 DEF SayStates
<1>6. CASE TooSoon BY <1>6, TooSoonKeeps
<1>7. CASE /\ sdes.added # 0 /\ processingsdes' = sdes.full
           /\ processed' = (IF sdes.full THEN sdes.said ELSE {})
           /\ UNCHANGED <<sdesbuildcount, doitems>>
           /\ Built(fill.p, after, sdes.said \ processed)
  <2>1. RestInv' BY <1>5, <1>7 DEF Built, BuilderInv, RestInv
  <2>2. Reported(fill.p, fill.src)
    <3>1. CASE sdes.full
      <4>1. fill.p = sdes.p /\ fill.src = src BY <3>1
      <4>2. DOMAIN sdes.p.blocks = {} BY <1>5
      <4>3. Reported(sdes.p, src)
        <5>1. \A s \in Sources : ~(src[s].num > 0 /\ src[s].num = 0) OBVIOUS
        <5> QED BY <1>3, <1>5, <4>2, <5>1 DEF Reported
      <4> HIDE DEF fill
      <4> QED BY <4>1, <4>3
    <3>2. CASE ~sdes.full
      <4>1. fill = more BY <3>2
      <4>2. Reported(more.p, more.src) BY <1>3, <1>5, FirstFill
      <4> HIDE DEF fill, more
      <4> QED BY <4>1, <4>2
    <3> QED BY <3>1, <3>2
  <2>3. Fits(fill.p)
    <3> HIDE DEF fill
    <3> QED BY <2>2 DEF Reported
  <2>4. Reported(fill.p, after)
    <3> HIDE DEF fill
    <3> QED BY <2>2, <2>3, NoFill
  <2>41. NoneWaits(fill.p) \/ Waits(fill.p, after)
    <3>1. CASE sdes.full
      <4>1. fill.p = sdes.p /\ fill.src = src /\ ~fill.atend BY <3>1
      <4> HIDE DEF fill
      <4>2. after = src BY <4>1
      <4> HIDE DEF after
      <4>3. DOMAIN fill.p.blocks = {} BY <1>5, <4>1
      <4> QED BY <4>2, <4>3 DEF Waits, ReportedIn
    <3>2. CASE ~sdes.full
      <4>1. fill = more BY <3>2
      <4>2. Filled(more, sdes.p, src) BY <1>3, <1>5, FillIs
      <4> HIDE DEF fill, more
      <4>3. Waits(fill.p, fill.src) /\ (fill.atend => NoneWaits(fill.p))
        BY <1>5, <4>1, <4>2, FillWaits
      <4> QED BY <4>3
    <3> QED BY <3>1, <3>2
  <2> HIDE DEF fill, after
  <2>5. BuilderInv' /\ IntervalsStep BY <1>7, <2>1, <2>4, BuiltKeeps
  <2>6. processingsdes' => processed # processed' BY <1>5, <1>7
  <2>7. AdvanceStep BY <2>6 DEF AdvanceStep
  <2>8. WaitingStep BY <1>7, <2>4, <2>41, WaitingBuilt
  <2> QED BY <2>5, <2>7, <2>8
<1> QED BY <1>1, <1>6, <1>7

-----------------------------------------------------------------------------
(* The other calls, and the theorems.                                        *)

LEMMA ByeKeeps ==
  ASSUME BuilderInv, NEW useSR \in BOOLEAN, NEW reason \in {0, 5}, BuildBYEPacket(useSR, reason)
  PROVE  BuilderInv' /\ IntervalsStep /\ AdvanceStep /\ WaitingStep
<1> DEFINE kind == IF useSR THEN Kind ELSE "RR"  p == AddBYEPacket(Begin(kind), 1, reason)
<1>1. CASE ~BeginFits(kind) \/ ~ByeFits(Begin(kind), 1, reason)
  <2>1. TooSoon BY <1>1 DEF BuildBYEPacket
  <2> QED BY <2>1, TooSoonKeeps
<1>2. CASE BeginFits(kind) /\ ByeFits(Begin(kind), 1, reason)
  <2>1. kind \in {"SR", "RR"} BY KindIs
  <2> HIDE DEF kind
  <2>2. Fits(Begin(kind)) /\ Begin(kind).blocks = << >> BY <1>2, <2>1, BeginIs
  <2>3. Fits(p) /\ p.blocks = << >> BY <1>2, <2>2, ByeAdded
  <2>4. /\ out' = [status |-> "bye", items |-> {}, packet |-> p]
        /\ UNCHANGED <<list, src, sender, firstpacket, wanted, sdesbuildcount,
                       processingsdes, doitems, processed>>
    BY <1>2 DEF BuildBYEPacket, kind
  <2> HIDE DEF p
  <2>5. out'.status = "bye" /\ out'.packet = p BY <2>4
  <2>6. RestInv' BY <2>4 DEF BuilderInv, RestInv
  <2> QED BY <2>3, <2>4, <2>5, <2>6, OtherKeeps
<1> QED BY <1>1, <1>2

LEMMA AppKeeps ==
  ASSUME BuilderInv, SendRTCPAPPPacket
  PROVE  BuilderInv' /\ IntervalsStep /\ AdvanceStep /\ WaitingStep
<1> DEFINE p == AddAPPPacket(Begin("RR"), AppData)
           fits == BeginFits("RR") /\ AppFits(Begin("RR"), AppData)
<1>1. /\ out' = (IF fits THEN [status |-> "app", items |-> {}, packet |-> p]
                 ELSE [Nothing EXCEPT !.status = "toobig"])
      /\ UNCHANGED <<list, src, sender, firstpacket, wanted, sdesbuildcount,
                     processingsdes, doitems, processed>>
  BY DEF SendRTCPAPPPacket
<1>2. RestInv' BY <1>1 DEF BuilderInv, RestInv
<1>3. CASE fits
  <2>1. Fits(Begin("RR")) /\ Begin("RR").blocks = << >> BY <1>3, BeginIs
  <2>2. AppData \in Nat BY BuilderAssumption
  <2>3. Fits(p) /\ p.blocks = << >> BY <1>3, <2>1, <2>2, AppAdded
  <2> HIDE DEF p
  <2>4. out'.status = "app" /\ out'.packet = p BY <1>1, <1>3
  <2> QED BY <1>1, <1>2, <2>3, <2>4, OtherKeeps
<1>4. CASE ~fits
  <2>1. out'.status = "toobig" /\ out'.packet.blocks = << >>
    <3>1. out' = [Nothing EXCEPT !.status = "toobig"] BY <1>1, <1>4
    <3> QED BY <3>1, NothingIs
  <2> QED BY <1>1, <1>2, <2>1, OtherKeeps DEF Complete
<1> QED BY <1>3, <1>4

LEMMA TableKeeps ==
  ASSUME BuilderInv, NEW s \in Sources, Join(s) \/ Leave(s) \/ Receive(s) \/ BecomeCSRC(s)
  PROVE  BuilderInv' /\ IntervalsStep /\ AdvanceStep /\ WaitingStep
<1>1. /\ list \in Seq(Sources) /\ Distinct(list) /\ src \in [Sources -> SourceState]
      /\ firstpacket \in BOOLEAN
      /\ \A x \in Sources : src[x].fresh \/ (firstpacket /\ src[x].sentdata) => src[x].num = 1
  BY DEF BuilderInv, ListInv, SourceInv
<1>2. /\ out' = Nothing /\ firstpacket' = firstpacket
      /\ UNCHANGED <<sender, wanted, sdesbuildcount, processingsdes, doitems, processed>>
  BY DEF Join, Leave, Receive, BecomeCSRC
<1>3. RestInv' BY <1>2 DEF BuilderInv, RestInv
<1>4. out'.status = "none" /\ out'.packet.blocks = << >> BY <1>2, NothingIs
<1>5. FirstBlocksDefined'
  <2>1. DOMAIN (<< >>) = {} OBVIOUS
  <2> QED BY <1>4, <2>1 DEF FirstBlocksDefined
<1>6. OutInv' /\ AdvanceStep /\ WaitingStep
  BY <1>4, <1>5 DEF OutInv, Complete, AdvanceStep, WaitingStep
<1>7. src[s] \in SourceState /\ NewSource \in SourceState /\ NewSource.num = 0
      /\ NewSource.fresh = FALSE /\ NewSource.sentdata = FALSE
  BY <1>1 DEF NewSource, SourceState
<1>8. CASE Join(s)
  <2>1. s \notin ToSet(list) /\ list' = Append(list, s) /\ src' = [src EXCEPT ![s] = NewSource]
    BY <1>8 DEF Join
  <2>2. SourceInv'
    <3>1. src' \in [Sources -> SourceState] BY <1>1, <1>7, <2>1
    <3>2. \A x \in Sources : src'[x] = IF x = s THEN NewSource ELSE src[x] BY <1>1, <2>1
    <3> QED BY <1>1, <1>2, <1>7, <3>1, <3>2 DEF SourceInv
  <2>3. \A k \in 1 .. Len(list) : list[k] # s BY <1>1, <2>1 DEF ToSet
  <2>4. ListInv'
    <3> DEFINE new == list'
    <3>1. new \in Seq(Sources) /\ Len(new) = Len(list) + 1 /\ new[Len(list) + 1] = s
          /\ Len(list) \in Nat /\ \A k \in 1 .. Len(list) : new[k] = list[k]
      BY <1>1, <2>1
    <3>2. \A k \in 1 .. Len(new) : k \in 1 .. Len(list) \/ k = Len(list) + 1 BY <3>1
    <3> HIDE DEF new
    <3>3. Distinct(new)
      <4> SUFFICES ASSUME NEW j \in 1 .. Len(new), NEW k \in 1 .. Len(new), new[j] = new[k]
                   PROVE  j = k
        BY DEF Distinct
      <4> QED BY <1>1, <2>3, <3>1, <3>2 DEF Distinct
    <3> QED BY <3>1, <3>3 DEF ListInv, new
  <2>5. IntervalsStep
    <3> SUFFICES ASSUME NEW x \in ToSet(list), src[x].num > 0, src'[x].num = 0 PROVE FALSE
      BY DEF IntervalsStep
    <3>1. x \in Sources /\ x # s BY <1>1, <2>1 DEF ToSet
    <3>2. src'[x] = src[x] BY <1>1, <2>1, <3>1
    <3> QED BY <3>2
  <2> QED BY <1>3, <1>6, <2>2, <2>4, <2>5 DEF BuilderInv
<1>9. CASE Leave(s)
  <2>1. list' = Picked(list, Sources \ {s}) /\ src' = [src EXCEPT ![s] = NewSource]
    BY <1>9 DEF Leave
  <2>2. SourceInv'
    <3>1. src' \in [Sources -> SourceState] BY <1>1, <1>7, <2>1
    <3>2. \A x \in Sources : src'[x] = IF x = s THEN NewSource ELSE src[x] BY <1>1, <2>1
    <3> QED BY <1>1, <1>2, <1>7, <3>1, <3>2 DEF SourceInv
  <2>3. ListInv' /\ list' \in Seq(Sources \cap (Sources \ {s}))
    <3>1. list' \in Seq(Sources) /\ list' \in Seq(Sources \cap (Sources \ {s}))
      BY <1>1, <2>1, PickedIs
    <3>2. Distinct(Picked(list, Sources \ {s})) BY <1>1, PickedDistinct
    <3> QED BY <2>1, <3>1, <3>2 DEF ListInv
  <2>4. IntervalsStep
    <3> SUFFICES ASSUME NEW x \in ToSet(list'), src[x].num > 0, src'[x].num = 0 PROVE FALSE
      BY DEF IntervalsStep
    <3>1. x \in Sources /\ x # s BY <2>3 DEF ToSet
    <3>2. src'[x] = src[x] BY <1>1, <2>1, <3>1
    <3> QED BY <3>2
  <2> QED BY <1>3, <1>6, <2>2, <2>3, <2>4 DEF BuilderInv
<1>10. ASSUME NEW new \in SourceState, src' = [src EXCEPT ![s] = new], list' = list,
              new.fresh \/ (firstpacket /\ new.sentdata) => new.num = 1,
              src[s].num > 0 => new.num # 0
       PROVE  BuilderInv' /\ IntervalsStep /\ AdvanceStep /\ WaitingStep
  <2>1. src' \in [Sources -> SourceState] BY <1>1, <1>10
  <2>2. \A x \in Sources : src'[x] = IF x = s THEN new ELSE src[x] BY <1>1, <1>10
  <2>3. SourceInv' BY <1>1, <1>2, <1>10, <2>1, <2>2 DEF SourceInv
  <2>4. ListInv' BY <1>1, <1>10 DEF ListInv
  <2>5. IntervalsStep
    <3> SUFFICES ASSUME NEW x \in ToSet(list), src[x].num > 0, src'[x].num = 0 PROVE FALSE
      BY DEF IntervalsStep
    <3>1. x \in Sources BY <1>1 DEF ToSet
    <3> QED BY <1>10, <2>2, <3>1
  <2> QED BY <1>3, <1>6, <2>3, <2>4, <2>5 DEF BuilderInv
<1>11. CASE Receive(s)
  <2> DEFINE new == [src[s] EXCEPT !.sentdata = TRUE, !.fresh = TRUE, !.num = 1]
  <2>1. new \in SourceState /\ new.num = 1 BY <1>7 DEF SourceState
  <2>2. src' = [src EXCEPT ![s] = new] /\ list' = list BY <1>1, <1>11 DEF Receive
  <2> HIDE DEF new
  <2>3. (new.fresh \/ (firstpacket /\ new.sentdata) => new.num = 1)
        /\ (src[s].num > 0 => new.num # 0)
    BY <2>1
  <2> QED BY <1>10, <2>1, <2>2, <2>3, Zenon
<1>12. CASE BecomeCSRC(s)
  <2> DEFINE new == [src[s] EXCEPT !.csrc = TRUE]
  <2>1. new \in SourceState /\ new.num = src[s].num /\ new.fresh = src[s].fresh
        /\ new.sentdata = src[s].sentdata
    BY <1>7 DEF SourceState
  <2>2. src' = [src EXCEPT ![s] = new] /\ list' = list BY <1>1, <1>12 DEF BecomeCSRC
  <2> HIDE DEF new
  <2>3. new.fresh \/ (firstpacket /\ new.sentdata) => new.num = 1 BY <1>1, <2>1
  <2>4. src[s].num > 0 => new.num # 0 BY <2>1
  <2> QED BY <1>10, <2>1, <2>2, <2>3, <2>4, Zenon
<1> QED BY <1>8, <1>9, <1>11, <1>12

LEMMA BuilderStep ==
  ASSUME BuilderInv, BuilderNext
  PROVE  BuilderInv' /\ IntervalsStep /\ AdvanceStep /\ WaitingStep
<1>1. CASE \E s \in Sources : Join(s) \/ Leave(s) \/ Receive(s) \/ BecomeCSRC(s)
  BY <1>1, TableKeeps
<1>2. ASSUME out' = Nothing, UNCHANGED <<list, src, firstpacket>>, RestInv'
      PROVE  BuilderInv' /\ IntervalsStep /\ AdvanceStep /\ WaitingStep
  <2>1. out'.status = "none" /\ out'.packet.blocks = << >> BY <1>2, NothingIs
  <2> QED BY <1>2, <2>1, OtherKeeps DEF Complete
<1>3. ASSUME NEW b \in BOOLEAN, OwnSender(b) PROVE BuilderInv' /\ IntervalsStep /\ AdvanceStep /\ WaitingStep
  <2>1. RestInv' BY <1>3 DEF OwnSender, BuilderInv, RestInv
  <2> QED BY <1>2, <1>3, <2>1 DEF OwnSender
<1>4. ASSUME NEW i \in ItemNames, SetInterval(i)
      PROVE  BuilderInv' /\ IntervalsStep /\ AdvanceStep /\ WaitingStep
  <2>1. RestInv' BY <1>4 DEF SetInterval, BuilderInv, RestInv
  <2> QED BY <1>2, <1>4, <2>1 DEF SetInterval
<1>5. CASE BuildNextPacket
  <2>1. CASE ~BeginFits(Kind) BY <1>5, <2>1, TooSoonKeeps DEF BuildNextPacket
  <2>2. CASE BeginFits(Kind) /\ processingsdes BY <1>5, <2>2, SDESKeeps DEF BuildNextPacket
  <2>3. CASE BeginFits(Kind) /\ ~processingsdes BY <1>5, <2>3, ReportsKeep DEF BuildNextPacket
  <2> QED BY <2>1, <2>2, <2>3
<1>6. CASE \E useSR \in BOOLEAN, reason \in {0, 5} : BuildBYEPacket(useSR, reason)
  BY <1>6, ByeKeeps
<1>7. CASE SendRTCPAPPPacket BY <1>7, AppKeeps
<1> QED BY <1>1, <1>3, <1>4, <1>5, <1>6, <1>7 DEF BuilderNext

LEMMA BuilderInitIs == ASSUME BuilderInit PROVE BuilderInv
<1>1. ListInv BY DEF BuilderInit, ListInv, Distinct
<1>2. SourceInv
  <2>1. NewSource \in SourceState /\ NewSource.fresh = FALSE /\ NewSource.sentdata = FALSE
    BY DEF NewSource, SourceState
  <2>2. src = [s \in Sources |-> NewSource] /\ firstpacket = TRUE BY DEF BuilderInit
  <2> QED BY <2>1, <2>2 DEF SourceInv
<1>3. RestInv
  <2>1. Period \in Nat /\ Period > 1 BY BuilderAssumption
  <2>2. 0 \in 0 .. Period - 1 BY <2>1
  <2> QED BY <2>2 DEF BuilderInit, RestInv
<1>4. OutInv
  <2>1. out = Nothing BY DEF BuilderInit
  <2>2. out.status = "none" /\ out.packet.blocks = << >> BY <2>1, NothingIs
  <2>3. DOMAIN (<< >>) = {} OBVIOUS
  <2>4. FirstBlocksDefined BY <2>2, <2>3 DEF FirstBlocksDefined
  <2> QED BY <2>2, <2>4 DEF OutInv, Complete
<1> QED BY <1>1, <1>2, <1>3, <1>4 DEF BuilderInv

LEMMA BuilderImplies == ASSUME BuilderInv PROVE RtcpReportsInv
<1>1. BuilderTypeOK
  <2>1. list \in UNION {[1 .. n -> Sources] : n \in 0 .. Cardinality(Sources)}
    <3>1. IsFiniteSet(Sources) /\ list \in Seq(Sources) /\ Distinct(list)
      BY BuilderAssumption DEF BuilderInv, ListInv
    <3>2. Len(list) <= Cardinality(Sources) /\ Cardinality(Sources) \in Nat /\ Len(list) \in Nat
      BY <3>1, DistinctLength
    <3>3. Len(list) \in 0 .. Cardinality(Sources) /\ list \in [1 .. Len(list) -> Sources]
      BY <3>1, <3>2
    <3> QED BY <3>3
  <2>2. src \in [Sources -> [sentdata : BOOLEAN, fresh : BOOLEAN, num : {0, 1},
                             csrc : BOOLEAN, done : BOOLEAN]]
    BY DEF BuilderInv, SourceInv, SourceState
  <2> QED BY <2>1, <2>2 DEF BuilderTypeOK, BuilderInv, SourceInv, RestInv, OutInv
<1>2. BuiltPacketParses
  <2> SUFFICES ASSUME out.status \in Complete
               PROVE  LET written == EndBuild(out.packet)
                      IN /\ NeededBytes(out.packet) <= MaxPacketSize
                         /\ SizeOf([k \in DOMAIN written |-> written[k].length])
                              = NeededBytes(out.packet)
                         /\ ParseData(written, NeededBytes(out.packet))
                         /\ \A k \in DOMAIN written : KnownFormat(written[k])
    BY Zenon DEF BuiltPacketParses, Complete
  <2>1. Begun(out.packet) /\ NeededBytes(out.packet) <= MaxPacketSize
    BY DEF BuilderInv, OutInv, Fits
  <2> QED BY <2>1, BegunParses
<1> QED BY <1>1, <1>2 DEF RtcpReportsInv, BuilderInv, OutInv

(* What the builder of RTCP packets makes is within the maximum size, as     *)
(* long as was reckoned, and taken by the library's own parser, whatever     *)
(* sources and items there are and however much fits into a packet; and no   *)
(* block is of an interval in which nothing came, but for repetitions.       *)
THEOREM ReportsCorrect == SSpec => []RtcpReportsInv
<1>1. SInit => BuilderInv BY BuilderInitIs DEF SInit
<1>2. BuilderInv /\ [SNext]_svars => BuilderInv'
  <2> SUFFICES ASSUME BuilderInv, [SNext]_svars PROVE BuilderInv' OBVIOUS
  <2>1. CASE BuilderNext BY <2>1, BuilderStep
  <2>2. CASE UNCHANGED builder
    BY <2>2 DEF builder, BuilderInv, ListInv, SourceInv, RestInv, OutInv, FirstBlocksDefined,
                ShouldProcess
  <2> QED BY <2>1, <2>2 DEF SNext, svars
<1>3. BuilderInv => RtcpReportsInv BY BuilderImplies
<1> QED BY <1>1, <1>2, <1>3, PTL DEF SSpec

(* What was counted of a source is dropped only into a report on it; every   *)
(* packet that does not end its round covers one source more or says one     *)
(* item more; and none is reported on twice while another waits.             *)
THEOREM RoundsOfReports == SSpec => RoundsGetOn
<1>1. SInit => BuilderInv BY BuilderInitIs DEF SInit
<1>2. BuilderInv /\ [SNext]_svars =>
        /\ BuilderInv' /\ [IntervalsStep]_builder /\ [AdvanceStep]_builder
        /\ [WaitingStep]_builder
  <2> SUFFICES ASSUME BuilderInv, [SNext]_svars
               PROVE  /\ BuilderInv' /\ [IntervalsStep]_builder /\ [AdvanceStep]_builder
                      /\ [WaitingStep]_builder
    OBVIOUS
  <2>1. CASE BuilderNext BY <2>1, BuilderStep
  <2>2. CASE UNCHANGED builder
    <3>1. BuilderInv'
      BY <2>2 DEF builder, BuilderInv, ListInv, SourceInv, RestInv, OutInv, FirstBlocksDefined,
                  ShouldProcess
    <3> QED BY <2>2, <3>1
  <2> QED BY <2>1, <2>2 DEF SNext, svars
<1>3. SSpec => [][IntervalsStep]_builder /\ [][AdvanceStep]_builder /\ [][WaitingStep]_builder
  BY <1>1, <1>2, PTL DEF SSpec
<1> QED
  BY <1>3, PTL DEF RoundsGetOn, IntervalsAreReported, EveryPacketAdvances, WaitingComeFirst,
                   IntervalsStep, AdvanceStep, WaitingStep
=============================================================================
