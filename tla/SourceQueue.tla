---------------------------- MODULE SourceQueue ----------------------------
(* The packets of one source on their way through the jrtp library: its      *)
(* probation, the extended number a packet gets (RTPSourceStats), the list   *)
(* it is put in by that number (RTPInternalSourceData) and the poll thread's *)
(* step, which empties it.  A packet is the index it was sent with; numbers  *)
(* on the wire wrap at SeqMod.                                               *)
(*                                                                           *)
(* RtpSources has the same packets without their numbers, for all sources    *)
(* and hosts; nothing is shared: `seen.part` says which is looked at.        *)
EXTENDS RtpSources

CONSTANTS SeqMod,               \* 0x10000
          MaxProbationPackets,  \* RTPINTERNALSOURCEDATA_MAXPROBATIONPACKETS (32)
          MaxGap, MaxLate,      \* bounds: how far a packet is ahead of, behind those before
          MaxArrivals           \* bound: packets

ASSUME QueueAssumption ==
  /\ SeqMod \in Nat /\ MaxGap \in Nat \ {0} /\ MaxLate \in Nat
  /\ 2 * (MaxGap + MaxLate) < SeqMod
  /\ MaxProbationPackets \in Nat \ {0, 1} /\ MaxArrivals \in Nat

VARIABLES probationtype,  \* "Store", "Discard" or "None"
          stats,          \* RTPSourceStats
          validated,
          packetlist,
          seen            \* what the network did: the last index, the last one
                          \* accepted, whether rounds came one after another,
                          \* and whether a wrap has split the probation

queue == <<probationtype, stats, validated, packetlist>>
qvars == <<vars, queue, seen>>

Round(i) == i \div SeqMod
Seq16(i) == i % SeqMod

QInit ==
  /\ Init
  /\ \E part \in {"table", "queue"}, i \in SeqMod .. 2 * SeqMod - 1 :
       seen = [part |-> part, arrivals |-> 0, highest |-> i, top |-> 0, offset |-> 0,
               orderly |-> TRUE, split |-> FALSE]
  /\ probationtype \in {"Store", "Discard", "None"}
  /\ seen.part = "table" => probationtype = "Store" /\ seen.highest = SeqMod
  /\ stats = [sentdata |-> FALSE, numcycles |-> 0, baseseqnr |-> 0, exthighseqnr |-> 0,
              probation |-> 0, prevseqnr |-> 0]
  /\ validated = FALSE
  /\ packetlist = << >>
-----------------------------------------------------------------------------
(* RTPSourceStats                                                            *)

(* Mutant: a stream may begin with extended number 0. *)
FirstAcceptedAsIs(s, seq) ==
  [s EXCEPT !.sentdata = TRUE, !.probation = 0,
            !.baseseqnr = seq - 1, !.exthighseqnr = seq]

(* ACCEPTPACKETCODE. Number 0 begins the second round, not the first: there  *)
(* is a number before it, and the packets on probation are before it.        *)
FirstAccepted(s, seq) ==
  LET ext == IF seq = 0 THEN SeqMod ELSE seq
  IN [s EXCEPT !.sentdata = TRUE, !.probation = 0,
               !.numcycles = IF seq = 0 THEN SeqMod ELSE @,
               !.baseseqnr = ext - 1, !.exthighseqnr = ext]

InSequence(s, seq) == s.probation > 0 /\ seq = (s.prevseqnr + 1) % SeqMod

OnProbation(s, seq) ==
  [s EXCEPT !.probation = IF InSequence(s, seq) THEN @ - 1 ELSE Probation,
            !.prevseqnr = seq]

(* Whether a number less than the highest is of the next round: it is the    *)
(* shorter way round.                                                        *)
Wrapped(max, seq) == seq < max /\ (seq - max) % SeqMod < max - seq

(* What number a packet gets once the first has been accepted, *)
Extended(s, seq) ==
  seq + s.numcycles + IF Wrapped(s.exthighseqnr % SeqMod, seq) THEN SeqMod ELSE 0

(* and what becomes of the highest. *)
Advanced(s, seq) ==
  LET max == s.exthighseqnr % SeqMod
  IN IF seq < max /\ ~Wrapped(max, seq) THEN s
     ELSE [s EXCEPT !.numcycles = IF Wrapped(max, seq) THEN @ + SeqMod ELSE @,
                    !.exthighseqnr = Extended(s, seq)]

(* ProcessPacket: the statistics after it, and the number the packet leaves  *)
(* with, which on probation is the one it came with.                         *)
Processed(s, seq, applyprobation) ==
  IF s.sentdata THEN [stats |-> Advanced(s, seq), accept |-> TRUE, ext |-> Extended(s, seq)]
  ELSE IF applyprobation /\ ~(InSequence(s, seq) /\ s.probation = 1)
  THEN [stats |-> OnProbation(s, seq), accept |-> FALSE, ext |-> seq]
  ELSE [stats |-> FirstAccepted(s, seq), accept |-> TRUE,
        ext |-> FirstAccepted(s, seq).exthighseqnr]
-----------------------------------------------------------------------------
(* RTPInternalSourceData                                                     *)

(* The place is searched from the end: behind the first packet whose number  *)
(* is not greater. A packet whose number is there already is dropped.        *)
Place(list, p) ==
  CHOOSE k \in 0 .. Len(list) :
    /\ k # 0 => list[k].ext <= p.ext
    /\ \A j \in k + 1 .. Len(list) : list[j].ext > p.ext

Inserted(list, p) ==
  LET k == Place(list, p)
  IN IF k # 0 /\ list[k].ext = p.ext THEN list
     ELSE SubSeq(list, 1, k) \o <<p>> \o SubSeq(list, k + 1, Len(list))

(* A source on probation does not fill the memory. *)
Trimmed(list, valid) ==
  IF ~valid /\ Len(list) = MaxProbationPackets THEN Tail(list) ELSE list

Later(i, j) == IF i > j THEN i ELSE j

(* Rounds come one after another: no packet comes after one of a later       *)
(* round.                                                                    *)
Orderly(i) == seen.arrivals = 0 \/ Round(i) >= Round(seen.highest)

(* What is kept on probation stays in the list under the number it came      *)
(* with, and the only first packet accepted in a second round is number 0.   *)
(* Neither fits when numbers wrap on probation, but with the packet that     *)
(* ends it, nor when number 0 is accepted late, after a CNAME has validated  *)
(* the source.                                                               *)
Split(i, accepted) ==
  /\ ~stats.sentdata /\ packetlist # << >>
  /\ ~(accepted /\ Seq16(i) = 0 <=> Round(i) > Round(seen.highest))

Seen(i, r) ==
  [seen EXCEPT !.arrivals = @ + 1,
               !.highest = IF seen.arrivals = 0 THEN i ELSE Later(@, i),
               !.top = IF r.accept THEN Later(@, i) ELSE @,
               !.offset = IF r.accept /\ ~stats.sentdata THEN i - r.ext ELSE @,
               !.orderly = @ /\ Orderly(i),
               !.split = @ \/ Split(i, r.accept)]

(* ProcessRTPPacket for the packet of index i, of any of the last ones and   *)
(* after any loss.                                                           *)
Arrive(i) ==
  LET r == Processed(stats, Seq16(i), ~validated /\ probationtype # "None")
      valid == validated \/ r.accept
  IN /\ seen.arrivals < MaxArrivals
     /\ stats' = r.stats
     /\ validated' = valid
     /\ packetlist' = IF r.accept \/ probationtype = "Store"
                      THEN Inserted(Trimmed(packetlist, valid), [index |-> i, ext |-> r.ext])
                      ELSE packetlist
     /\ seen' = Seen(i, r)
     /\ UNCHANGED probationtype

(* ProcessSDESItem with a CNAME validates the source at once. *)
Named ==
  /\ ~validated
  /\ validated' = TRUE
  /\ UNCHANGED <<probationtype, stats, packetlist, seen>>

(* RTPSessionEx::OnPollThreadStep: GetNextPacket until there is none left,   *)
(* of a source that has been validated.                                      *)
HasData == validated /\ packetlist # << >>

OnPollThreadStep ==
  /\ HasData
  /\ packetlist' = << >>
  /\ UNCHANGED <<probationtype, stats, validated, seen>>

QueueNext ==
  \/ \E i \in seen.highest - MaxLate .. seen.highest + MaxGap : Arrive(i)
  \/ Named
  \/ OnPollThreadStep

QNext ==
  \/ seen.part = "table" /\ Next /\ UNCHANGED <<queue, seen>>
  \/ seen.part = "queue" /\ QueueNext /\ UNCHANGED vars

QSpec == QInit /\ [][QNext]_qvars
-----------------------------------------------------------------------------
QueueTypeOK ==
  /\ stats.numcycles \in {k * SeqMod : k \in 0 .. MaxArrivals}
  /\ stats.exthighseqnr - stats.numcycles \in 0 .. SeqMod - 1
  /\ stats.probation \in 0 .. Probation
  /\ validated \in BOOLEAN
  /\ Len(packetlist) <= MaxArrivals
  /\ ~validated => Len(packetlist) <= MaxProbationPackets

(* The list is sorted by numbers, none is in it twice, and none is above the *)
(* highest the reports will give but those that came on probation; a number  *)
(* is the one on the wire and full rounds.                                   *)
ListIsSorted ==
  /\ \A j, k \in DOMAIN packetlist : j < k => packetlist[j].ext < packetlist[k].ext
  /\ \A j \in DOMAIN packetlist :
       LET p == packetlist[j]
       IN /\ p.ext % SeqMod = Seq16(p.index)
          /\ stats.sentdata => p.ext <= stats.exthighseqnr \/ p.ext < SeqMod
  /\ stats.sentdata => stats.baseseqnr < stats.exthighseqnr

(* While rounds come one after another, numbers are indices but for a        *)
(* constant, also across any wrap-around after probation and for the packets *)
(* that came on probation, unless the wrap fell among those that are kept    *)
(* (Split): the poll thread is handed what there is in the order it was      *)
(* sent, no two packets are taken for one, and the highest number of the     *)
(* reports is that of the last packet.                                       *)
NumbersFit ==
  seen.orderly /\ ~seen.split /\ stats.sentdata =>
    /\ \A j \in DOMAIN packetlist : packetlist[j].index = packetlist[j].ext + seen.offset
    /\ seen.top = stats.exthighseqnr + seen.offset

(* Does not hold: numbers fit whenever packets are late. One of the old      *)
(* round that comes after the new one has begun is taken for one of the new  *)
(* round, nearly a full round ahead, and what follows for the round after.   *)
LateNumbersFit == stats.sentdata => seen.top = stats.exthighseqnr + seen.offset

(* Does not hold: rtpsourcedata.cpp:55, the first number accepted is extended *)
(* so that those before it are below it. Of 65535, 0, 1 on a probation of    *)
(* two, none lost or late, 1 is extended to 1 and the poll thread is handed  *)
(* 0, 1, 65535.                                                              *)
ProbationFits ==
  seen.orderly /\ stats.sentdata =>
    \A j, k \in DOMAIN packetlist : j < k => packetlist[j].index < packetlist[k].index

(* The counters fit the table, and the numbers of packets their order.       *)
SourcesInv == CountsAgree /\ QueueTypeOK /\ ListIsSorted /\ NumbersFit
=============================================================================
