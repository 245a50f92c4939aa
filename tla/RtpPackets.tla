----------------------------- MODULE RtpPackets -----------------------------
(* RTP packets of the jrtp library, built and parsed (rtppacketbuilder.cpp,  *)
(* rtppacket.cpp). A packet is its fixed header and a body of cells of four  *)
(* bytes: CSRCs, the header of an extension, its words, the payload and the  *)
(* padding. The builder keeps what one packet has in common with the next.   *)
EXTENDS Integers, Sequences, SequencesExt, FiniteSets

CONSTANTS CSRCs, MaxCSRCs,            \* RTP_MAXCSRCS
          PayloadTypes, Reserved,     \* 72 and 73, which with the marker look like RTCP
          Incs, TsMod, Numbers,        \* increments; timestamps and numbers wrap
          Sizes,                      \* maximum packet sizes
          None,                       \* no default, no packet, no extension
          DefaultMarks,               \* bound: markers set as defaults
          MaxBuilds                   \* bound: packets built

NoDefault   == None
Refused     == None
NoExtension == None
HeaderLength == 3

VARIABLES
  init, maxpacksize,
  csrcs,                              \* the first numcsrcs elements of the array
  timestamp, seqnr, numpackets,
  defaultpayloadtype, defaultmark, defaulttimestampinc,    \* or NoDefault
  lastwallclocktime, lastrtptimestamp, prevrtptimestamp,
  now,                                \* packets built so far, for a clock
  asked,                              \* history: the CSRCs added and not deleted since
  sent                                \* history: the packets with this SSRC

defaults == <<defaultpayloadtype, defaultmark, defaulttimestampinc>>
times    == <<lastwallclocktime, lastrtptimestamp, prevrtptimestamp, now>>
stream   == <<timestamp, seqnr, numpackets, sent>>
vars     == <<init, maxpacksize, csrcs, asked, stream, defaults, times>>

Init ==
  /\ init = FALSE /\ maxpacksize = CHOOSE s \in Sizes : TRUE
  /\ csrcs = << >> /\ asked = {}
  /\ timestamp = 0 /\ seqnr = 0 /\ numpackets = 0 /\ sent = << >>
  /\ defaultpayloadtype = NoDefault /\ defaultmark = NoDefault /\ defaulttimestampinc = NoDefault
  /\ lastwallclocktime = 0 /\ lastrtptimestamp = 0 /\ prevrtptimestamp = 0 /\ now = 0
-----------------------------------------------------------------------------
(* RTPPacket::BuildPacket *)
Word(i) == <<"word", i>>
Data(i) == <<"data", i>>
Cells(kind(_), n) == [i \in 1 .. n |-> kind(i)]

Extension(ext) == IF ext = NoExtension THEN << >> ELSE << <<"ext", ext>> >> \o Cells(Word, ext)

BuildPacket(p, c, number, time, maxsize) ==
  LET body == [i \in DOMAIN c |-> <<"csrc", c[i]>>] \o Extension(p.ext) \o Cells(Data, p.len)
  IN IF Len(c) > MaxCSRCs \/ p.payloadtype \in Reserved \/ HeaderLength + Len(body) > maxsize
     THEN Refused
     ELSE [header |-> [padding |-> FALSE, marker |-> p.mark, extension |-> p.ext # NoExtension,
                       csrccount |-> Len(c), payloadtype |-> p.payloadtype,
                       sequencenumber |-> number, timestamp |-> time],
           body |-> body]

(* RTPPacket::ParseRawPacket finds its way by offsets; the last byte of a    *)
(* padded packet is the number of padding bytes, itself included.            *)
ParseRawPacket(packet) ==
  LET h      == packet.header
      body   == packet.body
      pad    == IF h.padding THEN Last(body)[2] ELSE 0
      offset == IF h.extension THEN h.csrccount + 1 + body[h.csrccount + 1][2]
                               ELSE h.csrccount
      payloadlength == Len(body) - pad - offset
  IN IF \/ h.marker /\ h.payloadtype \in Reserved
        \/ h.padding /\ pad <= 0
        \/ payloadlength < 0
     THEN Refused
     ELSE [csrcs |-> [i \in 1 .. h.csrccount |-> body[i][2]],
           ext |-> IF h.extension THEN SubSeq(body, h.csrccount + 2, offset) ELSE NoExtension,
           payload |-> SubSeq(body, offset + 1, offset + payloadlength),
           mark |-> h.marker, payloadtype |-> h.payloadtype,
           number |-> h.sequencenumber, time |-> h.timestamp]

(* Not this library's: another sender may pad its packets. *)
Padded(packet, n) ==
  IF n = 0 THEN packet
  ELSE [header |-> [packet.header EXCEPT !.padding = TRUE],
        body |-> packet.body \o [i \in 1 .. n |-> <<"pad", n>>]]
-----------------------------------------------------------------------------
(* The builder. *)
NewStream ==
  /\ timestamp' \in 0 .. TsMod - 1 /\ seqnr' \in 0 .. Numbers - 1
  /\ numpackets' = 0 /\ sent' = << >>

(* Without `init` the builder was never initialised, or has been destroyed.  *)
InitBuilder(max) ==
  /\ ~init /\ init' = TRUE
  /\ maxpacksize' = max
  /\ NewStream
  /\ defaultpayloadtype' = NoDefault /\ defaultmark' = NoDefault
  /\ defaulttimestampinc' = NoDefault
  /\ csrcs' = << >> /\ asked' = {}
  /\ UNCHANGED times

Destroy ==
  /\ init /\ init' = FALSE
  /\ UNCHANGED <<maxpacksize, csrcs, asked, stream, defaults, times>>

SetMaximumPacketSize(max) ==
  /\ init
  /\ maxpacksize' = max
  /\ UNCHANGED <<init, csrcs, asked, stream, defaults, times>>

OnCSRCs(list, set) ==
  /\ init
  /\ csrcs' = list /\ asked' = set
  /\ UNCHANGED <<init, maxpacksize, stream, defaults, times>>

AddCSRC(c) ==
  /\ Len(csrcs) < MaxCSRCs /\ c \notin ToSet(csrcs)
  /\ OnCSRCs(Append(csrcs, c), asked \union {c})

(* Mutant: the last is not moved to the place of the one deleted. *)
DeleteCSRCFromEnd(c) ==
  \E i \in DOMAIN csrcs :
    /\ csrcs[i] = c
    /\ OnCSRCs(Front(csrcs), asked \ {c})

DeleteCSRC(c) ==
  \E i \in DOMAIN csrcs :
    /\ csrcs[i] = c
    /\ OnCSRCs(Front([csrcs EXCEPT ![i] = Last(csrcs)]), asked \ {c})

ClearCSRCList == OnCSRCs(<< >>, {})

(* CreateNewSSRC, with which everything about a stream begins anew *)
CreateNewSSRC ==
  /\ init
  /\ NewStream
  /\ UNCHANGED <<init, maxpacksize, csrcs, asked, defaults, times>>

OnDefaults == init /\ UNCHANGED <<init, maxpacksize, csrcs, asked, stream, times>>

SetDefaultPayloadType(pt) ==
  /\ defaultpayloadtype' = pt
  /\ UNCHANGED <<defaultmark, defaulttimestampinc>> /\ OnDefaults

SetDefaultMark(mark) ==
  /\ defaultmark' = mark
  /\ UNCHANGED <<defaultpayloadtype, defaulttimestampinc>> /\ OnDefaults

SetDefaultTimestampIncrement(inc) ==
  /\ defaulttimestampinc' = inc
  /\ UNCHANGED <<defaultpayloadtype, defaultmark>> /\ OnDefaults

(* IncrementTimestamp, and IncrementTimestampDefault with the default *)
IncrementTimestamp(inc) ==
  /\ init /\ inc # NoDefault
  /\ timestamp' = (timestamp + inc) % TsMod
  /\ UNCHANGED <<init, maxpacksize, csrcs, asked, seqnr, numpackets, sent, defaults, times>>

Built(p) == BuildPacket(p, csrcs, seqnr, timestamp, maxpacksize)

(* PrivateBuildPacket. A packet that is refused changes nothing. The time is *)
(* taken when the timestamp is a new one: sender reports name both together. *)
PrivateBuildPacket(p, inc) ==
  /\ init /\ now < MaxBuilds /\ Built(p) # Refused
  /\ now' = now + 1
  /\ IF numpackets = 0 \/ timestamp # prevrtptimestamp
     THEN /\ lastwallclocktime' = now'
          /\ lastrtptimestamp' = timestamp /\ prevrtptimestamp' = timestamp
     ELSE UNCHANGED <<lastwallclocktime, lastrtptimestamp, prevrtptimestamp>>
  /\ numpackets' = numpackets + 1
  /\ timestamp' = (timestamp + inc) % TsMod
  /\ seqnr' = (seqnr + 1) % Numbers
  /\ sent' = Append(sent, [number |-> seqnr, time |-> timestamp, at |-> now'])
  /\ UNCHANGED <<init, maxpacksize, csrcs, asked, defaults>>

Packets ==
  [payloadtype : PayloadTypes, mark : BOOLEAN, ext : {NoExtension, 0, 2}, len : 0 .. 2]

(* BuildPacket and BuildPacketEx without the values that have defaults *)
BuildWithDefaults(p) ==
  /\ NoDefault \notin {defaultpayloadtype, defaultmark, defaulttimestampinc}
  /\ p.payloadtype = defaultpayloadtype /\ p.mark = defaultmark
  /\ PrivateBuildPacket(p, defaulttimestampinc)

(* Of the packets built only what is remembered of them differs, so that one *)
(* payload and no extension are enough here; BuiltIsParsed looks at all.     *)
Sample == {p \in Packets : p.ext = NoExtension /\ p.len = 1}

Next ==
  \/ \E max \in Sizes : InitBuilder(max) \/ SetMaximumPacketSize(max)
  \/ Destroy
  \/ \E c \in CSRCs : AddCSRC(c) \/ DeleteCSRC(c)
  \/ ClearCSRCList \/ CreateNewSSRC
  \/ \E pt \in PayloadTypes : SetDefaultPayloadType(pt)
  \/ \E mark \in DefaultMarks : SetDefaultMark(mark)
  \/ \E inc \in Incs : SetDefaultTimestampIncrement(inc)
  \/ \E inc \in Incs \union {defaulttimestampinc} : IncrementTimestamp(inc)
  \/ \E p \in Sample : (\E inc \in Incs : PrivateBuildPacket(p, inc)) \/ BuildWithDefaults(p)

Spec == Init /\ [][Next]_vars
-----------------------------------------------------------------------------
TypeOK ==
  /\ init \in BOOLEAN /\ maxpacksize \in Sizes
  /\ csrcs \in Seq(CSRCs) /\ asked \subseteq CSRCs
  /\ {timestamp, lastrtptimestamp, prevrtptimestamp} \subseteq 0 .. TsMod - 1
  /\ seqnr \in 0 .. Numbers - 1
  /\ {now, numpackets, lastwallclocktime} \subseteq 0 .. MaxBuilds
  /\ defaultpayloadtype \in PayloadTypes \union {NoDefault}
  /\ defaultmark \in DefaultMarks \union {NoDefault}
  /\ defaulttimestampinc \in Incs \union {NoDefault}
  /\ Len(sent) <= now

(* The list holds the CSRCs that were added and not deleted since, each once *)
(* and no more than a packet has room for.                                   *)
CSRCsAsAsked == ToSet(csrcs) = asked /\ Len(csrcs) = Cardinality(asked) /\ Len(csrcs) <= MaxCSRCs

(* What is built is taken by the parser and read as what it was built from,  *)
(* also when another sender pads it.                                         *)
BuiltIsParsed ==
  \A p \in Packets, pad \in 0 .. 2 :
    init /\ Built(p) # Refused =>
      ParseRawPacket(Padded(Built(p), pad)) =
        [csrcs |-> csrcs, ext |-> IF p.ext = NoExtension THEN NoExtension ELSE Cells(Word, p.ext),
         payload |-> Cells(Data, p.len), mark |-> p.mark, payloadtype |-> p.payloadtype,
         number |-> seqnr, time |-> timestamp]

(* Packets of an SSRC have consecutive numbers, from its first on.           *)
SentConsecutively ==
  /\ numpackets = Len(sent)
  /\ \A i \in DOMAIN sent :
       sent[i].number = (seqnr + Numbers * Len(sent) - (Len(sent) + 1 - i)) % Numbers

(* The time and the timestamp that a sender report names belong together: at *)
(* that time the first packet of the latest timestamp was built.             *)
TimesBelongTogether ==
  sent # << >> =>
    \E i \in DOMAIN sent :
      /\ sent[i].time = lastrtptimestamp /\ sent[i].at = lastwallclocktime
      /\ \A j \in i .. Len(sent) : sent[j].time = lastrtptimestamp
      /\ i > 1 => sent[i - 1].time # lastrtptimestamp

(* Does not hold: with defaults that were accepted a packet can be built.    *)
(* SetDefaultPayloadType takes types that BuildPacket refuses.               *)
DefaultsCanBeUsed == defaultpayloadtype \notin Reserved

(* CSRCs, layout, numbers and times of the packets built. *)
RtpPacketsInv ==
  TypeOK /\ CSRCsAsAsked /\ BuiltIsParsed /\ SentConsecutively /\ TimesBelongTogether
=============================================================================
