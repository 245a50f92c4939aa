----------------------------- MODULE RtpSources -----------------------------
(* The source table at work: raw packets of any kind and origin, our own     *)
(* sending and the timeouts, one after another as the lock of the session    *)
(* makes them, with the session's reaction when a packet carries our own     *)
(* SSRC (ProcessPolledData of rtpsession.cpp, RTPCollisionList).             *)
EXTENDS RtpSourceTable

VARIABLES table,
          collisions,   \* RTPCollisionList: the addresses that collided with us
          incoming      \* the raw packet being processed: its sender, and
                        \* whether it has collided with us; NoPacket between packets

vars == <<table, collisions, incoming>>

NoPacket == [rtp |-> FALSE, from |-> Unset, own |-> FALSE]

Init ==
  /\ \E x \in SSRCs : table = CreateOwnSSRC(EmptyTable, x)
  /\ collisions = {}
  /\ incoming = NoPacket

(* CreateNewSSRC draws until it finds an SSRC that is not in the table. *)
Free(t) == SSRCs \ Entries(t)

ChangeOwnSSRC(t, x) == CreateOwnSSRC(DeleteOwnSSRC(t), x)

ReceiveRTP ==
  /\ incoming = NoPacket
  /\ \E from \in Addresses, x \in SSRCs, c \in SSRCs \union {NoSSRC}, next \in BOOLEAN :
       /\ ~Dropped(from)
       /\ LET p == [ssrc |-> x, csrc |-> c, next |-> next]
              r == ProcessRTPPacket(table, p, SenderAddress(from))
          IN table' = r.t /\ incoming' = [rtp |-> TRUE, from |-> from, own |-> r.own]
  /\ UNCHANGED collisions

(* ProcessRTCPCompoundPacket: a compound packet is its items, one by one, as *)
(* many as there are and of any sources.                                     *)
ReceiveRTCP ==
  /\ incoming = NoPacket
  /\ \E from \in Addresses :
       /\ ~Dropped(from)
       /\ incoming' = [rtp |-> FALSE, from |-> from, own |-> FALSE]
  /\ UNCHANGED <<table, collisions>>

Items == {[kind |-> k, ssrc |-> x, name |-> NoName] : k \in {"report", "bye"}, x \in SSRCs}
  \union {[kind |-> "cname", ssrc |-> x, name |-> n] : x \in SSRCs, n \in Names}

NextItem ==
  /\ incoming # NoPacket /\ ~incoming.rtp
  /\ \E item \in Items :
       LET r == ProcessItem(table, item, SenderAddress(incoming.from))
       IN /\ table' = r.t
          /\ incoming' = [incoming EXCEPT !.own = @ \/ r.own]
  /\ UNCHANGED collisions

(* The end of a raw packet in ProcessPolledData. The first time an address   *)
(* collides with us we change our SSRC; packets with our SSRC that come from *)
(* there again are only ignored.                                             *)
EndOfPacket ==
  /\ incoming # NoPacket
  /\ incoming' = NoPacket
  /\ IF incoming.own /\ incoming.from \notin collisions
     THEN /\ \E x \in Free(table) : table' = ChangeOwnSSRC(table, x)
          /\ collisions' = collisions \union {incoming.from}
     ELSE UNCHANGED <<table, collisions>>

Send ==
  /\ incoming = NoPacket
  /\ table' = SentRTPPacket(table)
  /\ UNCHANGED <<collisions, incoming>>

(* The timeouts of one round of ProcessPolledData, collisionlist.Timeout too *)
Timeouts ==
  /\ incoming = NoPacket
  /\ \E silent \in SUBSET (Entries(table) \ {table.own}),
        quiet \in SUBSET {x \in Entries(table) : table.src[x].sender},
        left \in SUBSET {x \in Entries(table) : table.src[x].bye},
        old \in SUBSET collisions :
       /\ table' = MultipleTimeouts(table, silent, quiet, left)
       /\ collisions' = collisions \ old
  /\ UNCHANGED incoming

Next == ReceiveRTP \/ ReceiveRTCP \/ NextItem \/ EndOfPacket \/ Send \/ Timeouts

Spec == Init /\ [][Next]_vars
-----------------------------------------------------------------------------
Source == [rtp : Addresses \union {Self, Unset}, rtcp : Addresses \union {Self, Unset},
           own : BOOLEAN, validated : BOOLEAN, data : BOOLEAN,
           probation : 0 .. Probation, sender : BOOLEAN,
           bye : BOOLEAN, cname : Names \union {NoName}]

TypeOK ==
  /\ Entries(table) \subseteq SSRCs
  /\ \A x \in Entries(table) : table.src[x] \in Source
  /\ table.own \in SSRCs
  /\ table.total \in Int /\ table.senders \in Int /\ table.active \in Int
  /\ collisions \subseteq Addresses
  /\ incoming \in [rtp : BOOLEAN, from : Addresses \union {Unset}, own : BOOLEAN]

(* The counters are kept by hand at every place an entry changes. Those of   *)
(* all sources and of senders are right; that of active members is never too *)
(* high (it may be too low, see ActiveCountExact); and only a validated      *)
(* source with an address to send from is among the senders.                 *)
CountsAgree ==
  LET src == table.src
  IN /\ table.total = Cardinality(Entries(table))
     /\ table.senders = Cardinality({x \in Entries(table) : src[x].sender})
     /\ table.active <= Cardinality({x \in Entries(table) : IsActive(src[x])})
     /\ \A x \in Entries(table) \ {table.own} :
          src[x].sender => src[x].validated /\ src[x].data /\ src[x].rtp # Unset

(* Does not hold: the count of active members is right. A source that was    *)
(* known but not validated, and then is named as a contributing source, is   *)
(* validated without being counted; its BYE is counted all the same, so that *)
(* the count can fall below what is there, and below zero.                   *)
ActiveCountExact ==
  table.active = Cardinality({x \in Entries(table) : IsActive(table.src[x])})

(* One source, one host: the two addresses of an entry never come from two   *)
(* machines, and our own entry never takes an address from the network.      *)
OneHostPerSource ==
  \A x \in Entries(table) :
    LET s == table.src[x]
    IN /\ s.own <=> x = table.own
       /\ s.own => s.rtp = Self /\ s.rtcp = Self
       /\ s.rtp \in Addresses /\ s.rtcp \in Addresses => SameHost(s.rtp, s.rtcp)
       /\ s.rtp = Self => s.rtcp \in {Self, Unset}
       /\ s.rtcp = Self => s.rtp \in {Self, Unset}

(* Whatever the network sends and however long it is silent, the session has *)
(* a source of its own, active: nobody can say goodbye in our name, and our  *)
(* entry does not time out.                                                  *)
OwnSurvives ==
  /\ table.own \in Entries(table)
  /\ IsActive(table.src[table.own])

(* A sender on another host than a source is known to be on. *)
Elsewhere(s, a) ==
  /\ {s.rtp, s.rtcp} # {Unset}
  /\ \A b \in {s.rtp, s.rtcp} \ {Unset} : b # a /\ ~SameHost(b, a)

(* Nobody takes over a source: once it is known where it is, an RTP packet,  *)
(* a contributing source, a name, a BYE or any other item that has its SSRC  *)
(* and comes from another host leaves its entry as it is; ours, too, which   *)
(* gives way only by a change of our SSRC.                                   *)
NoTakeover ==
  [][\A x \in Entries(table) :
       incoming' # NoPacket /\ Elsewhere(table.src[x], SenderAddress(incoming'.from))
         => x \in Entries(table') /\ table'.src[x] = table.src[x]]_vars
=============================================================================
