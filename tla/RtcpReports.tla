----------------------------- MODULE RtcpReports -----------------------------
(* RTCPPacketBuilder of the jrtp library (rtcppacketbuilder.cpp): which      *)
(* sources the next RTCP packet reports on, and which items it says about    *)
(* ourselves. Reports and items that do not fit go into later packets: a     *)
(* flag per source, and one per item, remembers what is already covered.     *)
EXTENDS RtcpCompound, Selection

CONSTANTS Sources,         \* SSRCs of the other participants
          Items,           \* the SDES items besides CNAME, in the order FillInSDES takes them
          ItemLength,      \* [Range(Items) -> Nat], their lengths
          Interval,        \* [Range(Items) -> Nat \ {0}]: sent every so many rounds
          Period,          \* a multiple of every interval: the round counter turns here
          CNameLength,
          AppData          \* length of the data of an APP packet

ItemNames == ToSet(Items)

ASSUME BuilderAssumption ==
  /\ IsFiniteSet(Sources) /\ Items \in Seq(ItemNames)
  /\ CNameLength \in Nat /\ AppData \in Nat /\ Period \in Nat /\ Period > 1
  /\ \A i \in ItemNames : /\ ItemLength[i] \in Nat /\ Interval[i] \in Nat \ {0}
                         /\ Period % Interval[i] = 0

VARIABLES
  list,          \* the source table's list, in the order sources were added
  src,           \* what the builder reads of each source
  sender,        \* IsSender() of our own source
  firstpacket,
  wanted,        \* items whose interval was set (SetNameInterval, ...)
  sdesbuildcount, processingsdes,
  doitems,       \* doname, doemail, ...
  processed,     \* ProcessedName(), ProcessedEMail(), ...
  out            \* the last packet built, and the result of building it

builder == <<list, src, sender, firstpacket, wanted, sdesbuildcount,
          processingsdes, doitems, processed, out>>

(* sentdata: INF_HasSentData(). fresh: a packet came in since prevbuildtime.  *)
(* num: INF_GetNumPacketsReceivedInInterval() is not 0. done: processedinrtcp *)
NewSource == [sentdata |-> FALSE, fresh |-> FALSE, num |-> 0, csrc |-> FALSE,
              done |-> FALSE]

Nothing == [status |-> "none", packet |-> NewPacket, items |-> {}]

BuilderInit ==
  /\ list = << >>
  /\ src = [s \in Sources |-> NewSource]
  /\ sender = FALSE
  /\ firstpacket = TRUE
  /\ wanted = {}
  /\ sdesbuildcount = 0
  /\ processingsdes = FALSE
  /\ doitems = {}
  /\ processed = {}
  /\ out = Nothing
-----------------------------------------------------------------------------
(* The source table under the builder. *)
Join(s) ==
  /\ s \notin ToSet(list)
  /\ list' = Append(list, s)
  /\ src' = [src EXCEPT ![s] = NewSource]
  /\ out' = Nothing
  /\ UNCHANGED <<sender, firstpacket, wanted, sdesbuildcount, processingsdes,
                 doitems, processed>>

Leave(s) ==
  /\ s \in ToSet(list)
  /\ list' = Picked(list, Sources \ {s})
  /\ src' = [src EXCEPT ![s] = NewSource]
  /\ out' = Nothing
  /\ UNCHANGED <<sender, firstpacket, wanted, sdesbuildcount, processingsdes,
                 doitems, processed>>

Receive(s) ==
  /\ s \in ToSet(list)
  /\ src' = [src EXCEPT ![s].sentdata = TRUE, ![s].fresh = TRUE, ![s].num = 1]
  /\ out' = Nothing
  /\ UNCHANGED <<list, sender, firstpacket, wanted, sdesbuildcount,
                 processingsdes, doitems, processed>>

BecomeCSRC(s) ==
  /\ s \in ToSet(list)
  /\ src' = [src EXCEPT ![s].csrc = TRUE]
  /\ out' = Nothing
  /\ UNCHANGED <<list, sender, firstpacket, wanted, sdesbuildcount,
                 processingsdes, doitems, processed>>

OwnSender(b) ==
  /\ sender' = b
  /\ out' = Nothing
  /\ UNCHANGED <<list, src, firstpacket, wanted, sdesbuildcount,
                 processingsdes, doitems, processed>>

SetInterval(i) ==
  /\ wanted' = wanted \union {i}
  /\ out' = Nothing
  /\ UNCHANGED <<list, src, sender, firstpacket, sdesbuildcount,
                 processingsdes, doitems, processed>>
-----------------------------------------------------------------------------
(* Every packet begins with a report and with our own CNAME. *)
BeginFits(kind) ==
  LET p == StartReport(NewPacket, kind)
  IN /\ ReportFits(NewPacket, kind)
     /\ SourceFits(p)
     /\ ItemFits(AddSDESSource(p), CNameLength)

Begin(kind) ==
  AddSDESItem(AddSDESSource(StartReport(NewPacket, kind)), CNameLength)

ClearAllSourceFlags(f) == [s \in Sources |-> [f[s] EXCEPT !.done = FALSE]]

(* shouldprocess of FillInReportBlocks *)
ShouldProcess(f, s) ==
  ~f[s].csrc /\ f[s].sentdata /\ (firstpacket \/ f[s].fresh)

(* FillInReportBlocks: from the first source of the list on, a block for     *)
(* every source not covered yet, at most max of them and as many as fit.     *)
FillInReportBlocks(p, f, max) ==
  LET todo  == Picked(list, {s \in Sources : ShouldProcess(f, s) /\ ~f[s].done})
      most  == IF Len(todo) < max THEN Len(todo) ELSE max
      added == Max({k \in 0 .. most : k = 0 \/ BlocksFit(p, k)})
      stop  == IF added < most THEN todo[added + 1]
               ELSE IF added = max THEN todo[max] ELSE Last(list)
      upto  == {list[k] : k \in {n \in DOMAIN list : \A j \in 1 .. n - 1 : list[j] # stop}}
      now   == {todo[k] : k \in 1 .. added}
  IN [p |-> AddReportBlocks(p, [k \in 1 .. added |-> [ssrc |-> todo[k], num |-> f[todo[k]].num]]),
      src |-> [s \in Sources |-> IF s \in now
                 THEN [f[s] EXCEPT !.num = 0, !.done = TRUE] ELSE f[s]],
      added |-> added,
      full |-> added < most,
      skipped |-> Cardinality({s \in upto : ShouldProcess(f, s) /\ f[s].done}),
      atend |-> added = Len(todo)]

(* Mutant: does not remember what it said. *)
SayForgets(r, i, due) ==
  IF r.full \/ i \notin due \/ i \in r.said THEN r
  ELSE IF ItemFits(r.p, ItemLength[i])
  THEN [r EXCEPT !.p = AddSDESItem(@, ItemLength[i]), !.added = @ + 1]
  ELSE [r EXCEPT !.full = TRUE]

(* An item that is due and not said yet is said, unless it is too big. *)
Say(r, i, due) ==
  IF r.full \/ i \notin due \/ i \in r.said THEN r
  ELSE IF ItemFits(r.p, ItemLength[i])
  THEN [r EXCEPT !.p = AddSDESItem(@, ItemLength[i]), !.said = @ \union {i}, !.added = @ + 1]
  ELSE [r EXCEPT !.full = TRUE]

SaidUpTo(p, due, said) ==
  LET at[n \in 0 .. Len(Items)] ==
        IF n = 0 THEN [p |-> p, said |-> said, added |-> 0, full |-> FALSE]
        ELSE Say(at[n - 1], Items[n], due)
  IN at

(* FillInSDES: item after item, until one is too big *)
FillInSDES(p, due, said) == SaidUpTo(p, due, said)[Len(Items)]
-----------------------------------------------------------------------------
Kind == IF sender THEN "SR" ELSE "RR"

(* ERR_RTP_RTCPPACKETBUILDER_PACKETFILLEDTOOSOON *)
TooSoon ==
  /\ out' = [Nothing EXCEPT !.status = "toosoon"]
  /\ UNCHANGED <<list, src, sender, firstpacket, wanted, sdesbuildcount,
                 processingsdes, doitems, processed>>

(* EndBuild and what follows it: prevbuildtime becomes the present *)
Built(p, f, items) ==
  /\ out' = [status |-> "built", packet |-> p, items |-> items]
  /\ src' = [s \in Sources |-> [f[s] EXCEPT !.fresh = FALSE]]
  /\ firstpacket' = FALSE
  /\ UNCHANGED <<list, sender, wanted>>

(* Reports first; when every source is covered, a new round of items begins. *)
BuildReports ==
  LET fill  == FillInReportBlocks(Begin(Kind), src, Len(list) + 1)
      count == (sdesbuildcount + 1) % Period
      due   == {i \in wanted : count % Interval[i] = 0}
      sdes  == FillInSDES(fill.p, due, processed)
      clear == ClearAllSourceFlags(fill.src)
      again == IF fill.skipped > 0 /\ ~sdes.full
               THEN FillInReportBlocks(sdes.p, clear, fill.skipped)
               ELSE [p |-> sdes.p, src |-> clear]
  IN IF fill.full /\ fill.added = 0 THEN TooSoon
     ELSE IF fill.full
     THEN /\ Built(fill.p, fill.src, {})
          /\ UNCHANGED <<sdesbuildcount, processingsdes, doitems, processed>>
     ELSE /\ sdesbuildcount' = count
          /\ doitems' = due
          /\ processingsdes' = sdes.full
          /\ processed' = IF sdes.full THEN sdes.said ELSE {}
          /\ Built(again.p, again.src, sdes.said \ processed)

(* Items that did not fit before; reports again once they are all said. *)
ContinueSDES ==
  LET sdes == FillInSDES(Begin(Kind), doitems, processed)
      fill == IF sdes.full THEN [p |-> sdes.p, src |-> src, atend |-> FALSE]
              ELSE FillInReportBlocks(sdes.p, src, Len(list) + 1)
  IN IF sdes.added = 0 THEN TooSoon
     ELSE /\ processingsdes' = sdes.full
          /\ processed' = IF sdes.full THEN sdes.said ELSE {}
          /\ UNCHANGED <<sdesbuildcount, doitems>>
          /\ Built(fill.p, IF fill.atend THEN ClearAllSourceFlags(fill.src) ELSE fill.src,
                   sdes.said \ processed)

BuildNextPacket ==
  IF ~BeginFits(Kind) THEN TooSoon
  ELSE IF processingsdes THEN ContinueSDES ELSE BuildReports

(* BuildBYEPacket: our SSRC leaves; a sender report only if it is asked for. *)
BuildBYEPacket(useSR, reason) ==
  LET kind == IF useSR THEN Kind ELSE "RR"
  IN IF ~BeginFits(kind) \/ ~ByeFits(Begin(kind), 1, reason) THEN TooSoon
     ELSE /\ out' = [status |-> "bye", items |-> {},
                     packet |-> AddBYEPacket(Begin(kind), 1, reason)]
          /\ UNCHANGED <<list, src, sender, firstpacket, wanted, sdesbuildcount,
                         processingsdes, doitems, processed>>

(* SendRTCPAPPPacket: a receiver report, our CNAME and the caller's data *)
SendRTCPAPPPacket ==
  LET fits == BeginFits("RR") /\ AppFits(Begin("RR"), AppData)
  IN /\ out' = IF fits
               THEN [status |-> "app", items |-> {},
                     packet |-> AddAPPPacket(Begin("RR"), AppData)]
               ELSE [Nothing EXCEPT !.status = "toobig"]
     /\ UNCHANGED <<list, src, sender, firstpacket, wanted, sdesbuildcount,
                    processingsdes, doitems, processed>>

BuilderNext ==
  \/ \E s \in Sources : Join(s) \/ Leave(s) \/ Receive(s) \/ BecomeCSRC(s)
  \/ \E b \in BOOLEAN : OwnSender(b)
  \/ \E i \in ItemNames : SetInterval(i)
  \/ BuildNextPacket
  \/ \E useSR \in BOOLEAN, reason \in {0, 5} : BuildBYEPacket(useSR, reason)
  \/ SendRTCPAPPPacket

BuilderSpec == BuilderInit /\ [][BuilderNext]_builder
-----------------------------------------------------------------------------
BuilderTypeOK ==
  /\ list \in UNION {[1 .. n -> Sources] : n \in 0 .. Cardinality(Sources)}
  /\ src \in [Sources -> [sentdata : BOOLEAN, fresh : BOOLEAN, num : {0, 1},
                          csrc : BOOLEAN, done : BOOLEAN]]
  /\ sender \in BOOLEAN /\ firstpacket \in BOOLEAN /\ processingsdes \in BOOLEAN
  /\ wanted \subseteq ItemNames /\ doitems \subseteq ItemNames
  /\ processed \subseteq ItemNames
  /\ sdesbuildcount \in 0 .. Period - 1
  /\ out.status \in {"none", "built", "bye", "app", "toosoon", "toobig"}

(* A packet that was built is within the maximum size; the bytes EndBuild    *)
(* writes are the bytes it allocated (NeededBytes), and the library's own    *)
(* parser takes the result: the two computations of the size, made in        *)
(* different places and with different roundings, agree.                     *)
BuiltPacketParses ==
  out.status \in {"built", "bye", "app"} =>
    LET written == EndBuild(out.packet)
    IN /\ NeededBytes(out.packet) <= MaxPacketSize
       /\ SizeOf([k \in DOMAIN written |-> written[k].length]) = NeededBytes(out.packet)
       /\ ParseData(written, NeededBytes(out.packet))
       /\ \A k \in DOMAIN written : KnownFormat(written[k])

(* The first block on a source in a packet is over an interval in which      *)
(* packets of it came in, so that its fraction lost is one of some packets.  *)
(* Of further blocks on it this does not hold, see LossIsDefined.            *)
FirstBlocksDefined ==
  LET b == out.packet.blocks
  IN \A k \in DOMAIN b : b[k].num > 0 \/ \E j \in 1 .. k - 1 : b[j].ssrc = b[k].ssrc

(* The packets counted for a source's interval are dropped only by reporting *)
(* them: an interval starts anew when, and only when, its block is in the    *)
(* packet built (or the source has left the table).                          *)
IntervalsAreReported ==
  [][\A s \in ToSet(list) \intersect ToSet(list') :
       src[s].num > 0 /\ src'[s].num = 0 =>
         \E k \in DOMAIN out'.packet.blocks :
            out'.packet.blocks[k] = [ssrc |-> s, num |-> src[s].num]]_builder

(* A packet that does not end the current round (of reports, or of items     *)
(* that did not fit) covers one more source or says one more item, so that a *)
(* round takes at most as many packets as there is to say.                   *)
EveryPacketAdvances ==
  [][out'.status = "built" =>
       LET Done(f) == {s \in ToSet(list) : f[s].done}
       IN IF processingsdes THEN processingsdes' => processed # processed'
          ELSE \/ sdesbuildcount # sdesbuildcount'
               \/ Done(src) # Done(src') /\ Done(src) \subseteq Done(src')]_builder

Due(s) == s \in ToSet(list) /\ ShouldProcess(src, s) /\ ~src[s].done

ReportedIn(p, s) == \E k \in DOMAIN p.blocks : p.blocks[k].ssrc = s

(* While a source that is due is left out of a packet, no other comes twice: *)
(* the packet reports only on sources not covered in this round, and those   *)
(* covered stay so. With EveryPacketAdvances: a source that goes on sending  *)
(* is reported on after at most as many packets as there are sources and     *)
(* items to say. Of one that falls silent this does not hold, see            *)
(* PutOffIsReported.                                                         *)
WaitingComeFirst ==
  [][out'.status = "built" /\ (\E s \in Sources : Due(s) /\ ~ReportedIn(out'.packet, s))
       => \A r \in ToSet(list) :
            /\ ReportedIn(out'.packet, r) => Due(r)
            /\ src[r].done \/ ReportedIn(out'.packet, r) => src'[r].done]_builder

(* Does not hold: rtcppacketbuilder.cpp:376-382, a fraction lost is computed *)
(* over an interval in which packets came in. The second call of             *)
(* FillInReportBlocks may come to a source whose interval the first has just *)
(* started anew (line 434): none expected and none lost, 0/0.                *)
LossIsDefined == \A k \in DOMAIN out.packet.blocks : out.packet.blocks[k].num > 0

(* Does not hold: rtcppacketbuilder.cpp:349-350, a source heard since the    *)
(* last report gets a block. What counts is the last packet built (line      *)
(* 306), whether or not it had room for all that had been heard before it: a *)
(* source that was left out and falls silent is never reported on for what   *)
(* it sent last.                                                             *)
PutOffIsReported ==
  [][out'.status = "built" =>
       \A s \in Sources : Due(s) /\ ~ReportedIn(out'.packet, s) => ShouldProcess(src, s)']_builder

(* Does not hold: a source is covered once per packet. The second call of    *)
(* FillInReportBlocks is meant for sources covered by an earlier packet, and *)
(* starts from the first source with every flag cleared.                     *)
NoSourceTwice ==
  \A j, k \in DOMAIN out.packet.blocks :
    out.packet.blocks[j].ssrc = out.packet.blocks[k].ssrc => j = k

(* What was counted stays counted until it is reported, and rounds of        *)
(* reports and items get on, in an order in which all have their turn.       *)
RoundsGetOn == IntervalsAreReported /\ EveryPacketAdvances /\ WaitingComeFirst

(* What is built is what is parsed, whatever it had to leave out, and the    *)
(* first block on a source is of an interval with packets in it.             *)
RtcpReportsInv == BuilderTypeOK /\ BuiltPacketParses /\ FirstBlocksDefined
=============================================================================
