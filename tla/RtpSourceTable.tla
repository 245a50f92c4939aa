--------------------------- MODULE RtpSourceTable ---------------------------
(* The source table of the jrtp library: RTPSources (rtpsources.cpp) with    *)
(* what it keeps of each source (RTPInternalSourceData, RTPSourceStats). The *)
(* operators are the methods, functions from a table to a table; RtpSources  *)
(* runs them one raw packet at a time, RtpSession among threads.             *)
EXTENDS Integers, Sequences, FiniteSets

CONSTANTS SSRCs,         \* the identifiers in use, ours and other people's
          Addresses,     \* senders: records [host, port]
          Local,         \* the addresses of our own transmitter
          Names,         \* CNAMEs
          AcceptOwn,     \* acceptownpackets
          Probation,     \* RTP_PROBATIONCOUNT
          NoSSRC, Self, Unset, NoName   \* no SSRC; a null address; none set; no CNAME

ASSUME SourcesAssumption ==
  /\ Local \subseteq Addresses
  /\ \A a \in Addresses : a = [host |-> a.host, port |-> a.port]
  /\ AcceptOwn \in BOOLEAN /\ Probation \in Nat \ {0}
  /\ NoSSRC \notin SSRCs /\ NoName \notin Names
  /\ Self # Unset /\ {Self, Unset} \intersect Addresses = {}
  /\ IsFiniteSet(SSRCs)

(* What the table keeps of a source. data: HasSentData(), its packets are    *)
(* counted; probation: packets in sequence still wanted, 0 before the first. *)
NewSource == [rtp |-> Unset, rtcp |-> Unset, own |-> FALSE, validated |-> FALSE,
              data |-> FALSE, probation |-> 0, sender |-> FALSE,
              bye |-> FALSE, cname |-> NoName]

OwnSource == [NewSource EXCEPT !.own = TRUE, !.validated = TRUE,
                               !.rtp = Self, !.rtcp = Self]

IsActive(s) == s.validated /\ ~s.bye

(* A table: the sources by SSRC, our own SSRC and the three counters. *)
EmptyTable == [src |-> [x \in {} |-> NewSource], own |-> NoSSRC,
               total |-> 0, senders |-> 0, active |-> 0]

Entries(t) == DOMAIN t.src

Put(f, x, s) == [y \in DOMAIN f \union {x} |-> IF y = x THEN s ELSE f[y]]
Without(f, gone) == [y \in DOMAIN f \ gone |-> f[y]]
One(b) == IF b THEN 1 ELSE 0
-----------------------------------------------------------------------------
CreateOwnSSRC(t, x) ==
  IF t.own # NoSSRC \/ x \in Entries(t) THEN t
  ELSE [t EXCEPT !.src = Put(t.src, x, OwnSource), !.own = x,
                 !.total = t.total + 1, !.active = t.active + 1]

DeleteOwnSSRC(t) ==
  IF t.own = NoSSRC THEN t
  ELSE [t EXCEPT !.src = Without(t.src, {t.own}), !.own = NoSSRC,
                 !.total = t.total - 1,
                 !.senders = t.senders - One(t.src[t.own].sender),
                 !.active = t.active - One(IsActive(t.src[t.own]))]

SentRTPPacket(t) ==
  IF t.own = NoSSRC THEN t
  ELSE [t EXCEPT !.src = Put(t.src, t.own, [t.src[t.own] EXCEPT !.sender = TRUE]),
                 !.senders = t.senders + One(~t.src[t.own].sender)]

(* ObtainSourceDataInstance: the entry of an SSRC, made if there is none *)
Known(t, x) == IF x \in Entries(t) THEN t.src[x] ELSE NewSource

SameHost(a, b) == a \in Addresses /\ b \in Addresses /\ a.host = b.host

(* Mutant: the first RTP packet is believed wherever RTCP came from. *)
CheckCollisionSameKind(s, a, isrtp) ==
  LET addr == IF isrtp THEN s.rtp ELSE s.rtcp IN addr # Unset /\ addr # a

(* CheckCollision: whether a packet from `a` may be from the source s. The   *)
(* first RTP and the first RTCP address a source uses are its addresses from *)
(* then on, and both are on one host.                                        *)
CheckCollision(s, a, isrtp) ==
  LET addr  == IF isrtp THEN s.rtp ELSE s.rtcp
      other == IF isrtp THEN s.rtcp ELSE s.rtp
  IN IF addr # Unset THEN addr # a
     ELSE /\ other # Unset
          /\ IF other = Self THEN a # Self ELSE ~SameHost(other, a)

StoreAddress(s, a, isrtp) ==
  IF isrtp THEN [s EXCEPT !.rtp = IF @ = Unset THEN a ELSE @]
           ELSE [s EXCEPT !.rtcp = IF @ = Unset THEN a ELSE @]

(* A collision as the session sees it: the table, and whether it was ours *)
Collision(t, s) == [t |-> t, own |-> s.own]
NoCollision(t) == [t |-> t, own |-> FALSE]

(* An entry s stored under x in the place of what was there, and the counts *)
Store(t, x, s) ==
  LET old == Known(t, x)
  IN [t EXCEPT !.src = Put(t.src, x, s),
               !.total = t.total + One(x \notin Entries(t)),
               !.senders = t.senders + One(s.sender /\ ~old.sender),
               !.active = t.active + One(IsActive(s) /\ ~IsActive(old))
                            - One(IsActive(old) /\ ~IsActive(s))]
-----------------------------------------------------------------------------
(* ProcessRTPPacket of the source: probation, which ends with the packet     *)
(* that completes the sequence (`next`: it follows the one before).          *)
Accept(s) == [s EXCEPT !.data = TRUE, !.validated = TRUE, !.probation = 0,
                       !.sender = @ \/ ~s.own]

ProcessPacket(s, next) ==
  IF s.data \/ s.validated THEN Accept(s)
  ELSE IF s.probation = 0 \/ ~next THEN [s EXCEPT !.probation = Probation]
  ELSE IF s.probation = 1 THEN Accept(s)
  ELSE [s EXCEPT !.probation = @ - 1]

(* A contributing source. A new entry is counted as active at once; one that *)
(* was there is validated without being counted.                             *)
ProcessCSRC(r, x, a) ==
  LET t == r.t
      s == Known(t, x)
      marked == [s EXCEPT !.validated = TRUE]
  IN IF x \notin Entries(t) THEN [r EXCEPT !.t = Store(t, x, marked)]
     ELSE IF CheckCollision(s, a, TRUE) THEN [r EXCEPT !.own = @ \/ s.own]
     ELSE [r EXCEPT !.t.src = Put(t.src, x, StoreAddress(marked, a, TRUE))]

(* A packet has at most one contributing source here (NoSSRC: none). *)
ProcessRTPPacket(t, p, a) ==
  LET s   == Known(t, p.ssrc)
      new == ProcessPacket(StoreAddress(s, a, TRUE), p.next)
      r   == NoCollision(Store(t, p.ssrc, new))
  IN IF p.ssrc \in Entries(t) /\ CheckCollision(s, a, TRUE) THEN Collision(t, s)
     ELSE IF new.validated /\ p.csrc # NoSSRC THEN ProcessCSRC(r, p.csrc, a)
     ELSE r

(* The CNAME is only set once, and validates the source. *)
SetCNAME(s, name) ==
  IF s.cname = NoName THEN [s EXCEPT !.cname = name, !.validated = TRUE] ELSE s

(* Mutant: a BYE is taken for whichever source it names. *)
AfterOwnBYE(s, item) ==
  CASE item.kind = "report" -> s
    [] item.kind = "cname"  -> SetCNAME(s, item.name)
    [] item.kind = "bye"    -> [s EXCEPT !.bye = TRUE]

(* What an item of an RTCP packet does to its source. "report" stands for    *)
(* sender information, a report block and anything else that only refreshes  *)
(* the source (ProcessRTCPSenderInfo, UpdateReceiveTime ...).                *)
After(s, item) ==
  CASE item.kind = "report" -> s
    [] item.kind = "cname"  -> SetCNAME(s, item.name)
    [] item.kind = "bye"    -> IF s.own THEN s ELSE [s EXCEPT !.bye = TRUE]

(* Mutant: a BYE is believed whoever sends it. *)
ProcessItemTrusting(t, item, a) ==
  LET s == Known(t, item.ssrc)
  IN IF item.ssrc \in Entries(t) /\ item.kind # "bye" /\ CheckCollision(s, a, FALSE)
     THEN Collision(t, s)
     ELSE NoCollision(Store(t, item.ssrc, After(StoreAddress(s, a, FALSE), item)))

(* One item, with GetRTCPSourceData, which finds or makes the source. *)
ProcessItem(t, item, a) ==
  LET s == Known(t, item.ssrc)
  IN IF item.ssrc \in Entries(t) /\ CheckCollision(s, a, FALSE)
     THEN Collision(t, s)
     ELSE NoCollision(Store(t, item.ssrc, After(StoreAddress(s, a, FALSE), item)))

(* ProcessRawPacket: packets from our own transmitter are dropped, or taken  *)
(* as coming from a null address.                                            *)
Dropped(from) == from \in Local /\ ~AcceptOwn
SenderAddress(from) == IF from \in Local THEN Self ELSE from

(* MultipleTimeouts (Timeout, SenderTimeout and BYETimeout are its parts).   *)
(* Which sources were silent for long enough is a matter of time: `silent`   *)
(* of messages, `quiet` of RTP packets, `left` since their BYE.              *)
MultipleTimeouts(t, silent, quiet, left) ==
  LET gone == {x \in Entries(t) \ {t.own} :
                 x \in silent \/ (t.src[x].bye /\ x \in left)}
      kept == Entries(t) \ gone
      sends(x) == t.src[x].sender /\ x \notin quiet
  IN [t EXCEPT !.src = [x \in kept |-> [t.src[x] EXCEPT !.sender = sends(x)]],
               !.total = Cardinality(kept),
               !.senders = Cardinality({x \in kept : sends(x)}),
               !.active = Cardinality({x \in kept : IsActive(t.src[x])})]
=============================================================================
