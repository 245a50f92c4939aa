---------------------------- MODULE RtcpCompound ----------------------------
(* The arithmetic of an RTCP compound packet: what the builder of the jrtp   *)
(* library (rtcpcompoundpacketbuilder.cpp) lets into a packet, how many      *)
(* bytes it reserves for it, how EndBuild lays it out as a list of RTCP      *)
(* packets, and what the parser (rtcpcompoundpacket.cpp) accepts.            *)
(*                                                                           *)
(* A packet under construction is a record; the contents of a block or an    *)
(* item are whatever the caller puts there, only lengths matter here.        *)
EXTENDS Naturals, Sequences, SequencesExt, FiniteSetsExt

CONSTANTS MaxPacketSize,   \* maximumpacketsize, in bytes
          MaxCount         \* what the five bits of a header's count hold: 31

ASSUME SizeAssumption == MaxPacketSize \in Nat /\ MaxCount \in Nat \ {0}

(* rtpstructs.h *)
CommonHeader   == 4
Word           == 4
SenderReport   == 20
ReceiverReport == 24
SDESHeader     == 2

Aligned(n) == n + ((Word - (n % Word)) % Word)

(* d = n / 31, plus one for a remainder *)
Packets(n) == (n + MaxCount - 1) \div MaxCount

(* Lengths are added up buffer by buffer. *)
SizeUpTo(buffers) ==
  LET sum[n \in 0 .. Len(buffers)] == IF n = 0 THEN 0 ELSE sum[n - 1] + buffers[n]
  IN sum

SizeOf(buffers) == SizeUpTo(buffers)[Len(buffers)]
-----------------------------------------------------------------------------
(* A packet after InitBuild. `report` is "none" until a report is started;   *)
(* sdes is a sequence of sources, each the sequence of its item lengths.     *)
NewPacket == [report |-> "none", blocks |-> << >>, sdes |-> << >>,
              app |-> << >>, bye |-> << >>]

(* NeededBytes and NeededBytesWithExtraReportBlock of Report, for n blocks *)
BlockBytes(p, n) ==
  n * ReceiverReport + Packets(n) * (CommonHeader + Word)
    + (IF p.report = "SR" THEN SenderReport ELSE 0)

ReportBytes(p) ==
  IF p.blocks # << >> THEN BlockBytes(p, Len(p.blocks))
  ELSE CASE p.report = "none" -> 0
         [] p.report = "RR"   -> CommonHeader + Word
         [] p.report = "SR"   -> CommonHeader + Word + SenderReport

(* Mutant: no room for the zero that ends the items. *)
SourceBytesNoEnd(items) ==
  Word + Aligned(SizeOf([i \in DOMAIN items |-> SDESHeader + items[i]]))

(* NeededBytes of SDESSource: the SSRC and the items with their final zero *)
SourceBytes(items) ==
  Word + Aligned(SizeOf([i \in DOMAIN items |-> SDESHeader + items[i]]) + 1)

SourcesBytes(srcs) == SizeOf([i \in DOMAIN srcs |-> SourceBytes(srcs[i])])

(* NeededBytes, NeededBytesWithExtraItem and NeededBytesWithExtraSource of   *)
(* SDES. With no source yet the last of them answers 0.                      *)
SdesBytes(srcs) == SourcesBytes(srcs) + Packets(Len(srcs)) * CommonHeader

WithItem(srcs, len) ==
  IF srcs = << >> THEN << >> ELSE Append(Front(srcs), Append(Last(srcs), len))

ExtraSourceBytes(srcs) ==
  IF srcs = << >> THEN 0
  ELSE SourcesBytes(srcs) + 2 * Word + Packets(Len(srcs) + 1) * CommonHeader

OtherBytes(p)  == SizeOf(p.app) + SizeOf(p.bye)
NeededBytes(p) == ReportBytes(p) + SdesBytes(p.sdes) + OtherBytes(p)
-----------------------------------------------------------------------------
(* What each call checks against the size, and what it adds. *)
ReportFits(p, kind) ==
  SdesBytes(p.sdes) + OtherBytes(p) + CommonHeader + Word
    + (IF kind = "SR" THEN SenderReport ELSE 0) <= MaxPacketSize
StartReport(p, kind) == [p EXCEPT !.report = kind]

(* As many blocks are asked for one by one *)
BlocksFit(p, n) ==
  BlockBytes(p, Len(p.blocks) + n) + SdesBytes(p.sdes) + OtherBytes(p)
    <= MaxPacketSize
AddReportBlocks(p, bs) == [p EXCEPT !.blocks = @ \o bs]

SourceFits(p) ==
  ExtraSourceBytes(p.sdes) + ReportBytes(p) + OtherBytes(p) <= MaxPacketSize
AddSDESSource(p) == [p EXCEPT !.sdes = Append(@, << >>)]

ItemFits(p, len) ==
  /\ p.sdes # << >>
  /\ SdesBytes(WithItem(p.sdes, len)) + ReportBytes(p) + OtherBytes(p)
       <= MaxPacketSize
AddSDESItem(p, len) == [p EXCEPT !.sdes = WithItem(@, len)]

(* A BYE for `ssrcs` sources, with the text of a reason or without *)
ByeSize(ssrcs, reason) ==
  LET head == CommonHeader + Word * ssrcs
  IN IF reason = 0 THEN head ELSE Aligned(head + 1 + reason)
ByeFits(p, ssrcs, reason) ==
  /\ ssrcs <= MaxCount
  /\ NeededBytes(p) + ByeSize(ssrcs, reason) <= MaxPacketSize
AddBYEPacket(p, ssrcs, reason) ==
  [p EXCEPT !.bye = Append(@, ByeSize(ssrcs, reason))]

AppSize(data) == CommonHeader + 2 * Word + data
AppFits(p, data) ==
  (data % Word) = 0 /\ NeededBytes(p) + AppSize(data) <= MaxPacketSize
AddAPPPacket(p, data) == [p EXCEPT !.app = Append(@, AppSize(data))]
-----------------------------------------------------------------------------
(* EndBuild lays the packet out. A chunk of the list is what goes under one  *)
(* header: at most MaxCount elements.                                        *)
Chunk(s, k) ==
  SubSeq(s, (k - 1) * MaxCount + 1, IF k * MaxCount < Len(s) THEN k * MaxCount ELSE Len(s))

Max1(n) == IF n = 0 THEN 1 ELSE n

ReportPackets(p) ==
  [k \in 1 .. Max1(Packets(Len(p.blocks))) |->
     LET kind == IF k = 1 THEN p.report ELSE "RR"
         some == Chunk(p.blocks, k)
     IN [type |-> kind, count |-> Len(some),
         length |-> CommonHeader + Word
                      + (IF kind = "SR" THEN SenderReport ELSE 0)
                      + Len(some) * ReceiverReport]]

(* Every source is written item by item from `offset`, closed with a zero    *)
(* and filled up to a word counted from the start of the SDES packet.        *)
SdesUpTo(srcs) ==
  LET offset[n \in 0 .. Len(srcs)] ==
        IF n = 0 THEN CommonHeader
        ELSE Aligned(offset[n - 1] + Word
                       + SizeOf([i \in DOMAIN srcs[n] |-> SDESHeader + srcs[n][i]]) + 1)
  IN offset

SdesEnd(srcs) == SdesUpTo(srcs)[Len(srcs)]

SdesPackets(p) ==
  [k \in 1 .. Packets(Len(p.sdes)) |->
     LET some == Chunk(p.sdes, k)
     IN [type |-> "SDES", count |-> Len(some), length |-> SdesEnd(some)]]

Buffers(kind, sizes) ==
  [i \in DOMAIN sizes |-> [type |-> kind, count |-> 1, length |-> sizes[i]]]

EndBuild(p) ==
  ReportPackets(p) \o SdesPackets(p) \o Buffers("APP", p.app)
    \o Buffers("BYE", p.bye)
-----------------------------------------------------------------------------
(* ParseData on such a list in `datalen` bytes: the first packet is a        *)
(* report, no length passes the end and nothing is left over. The length     *)
(* field counts words, so that an unaligned length is cut.                   *)
ParseData(list, datalen) ==
  LET Cut(l) == l - (l % Word)
      End(k) == SizeOf([i \in 1 .. k |-> Cut(list[i].length)])
  IN /\ list # << >>
     /\ list[1].type \in {"SR", "RR"}
     /\ \A k \in DOMAIN list : End(k) <= datalen
     /\ End(Len(list)) = datalen

(* IsKnownFormat: what RTCPSRPacket and RTCPRRPacket expect of the length,   *)
(* and that the count fits its field.                                        *)
KnownFormat(r) ==
  /\ r.count <= MaxCount
  /\ r.type \in {"SR", "RR"} =>
       r.length = CommonHeader + Word
                    + (IF r.type = "SR" THEN SenderReport ELSE 0)
                    + ReceiverReport * r.count
=============================================================================
