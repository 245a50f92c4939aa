--------------------------- MODULE UdpTransmitter ---------------------------
(* RTPUDPv4Transmitter of the jrtp library (rtpudpv4transmitter.cpp): the    *)
(* sockets, the packets polled from them, whom packets are accepted from and *)
(* sent to, and a thread that waits for data while others send, poll, abort  *)
(* its wait or destroy the transmitter. Every method holds mainmutex while   *)
(* it runs and is one step, but for the wait and for Destroy.                *)
EXTENDS KeyHashTable, Selection, SequencesExt

CONSTANTS IPs, Ports,      \* where packets come from
          AnyPort,         \* port 0
          Groups,          \* multicast groups
          Destinations,
          Room,            \* bound: objects allocated at a time
          PipeRoom         \* bound: bytes in the pipe

ASSUME TransmitterAssumption ==
  /\ Keys = IPs \union Groups \union Destinations /\ AnyPort \notin Ports
  /\ Room \in Nat /\ Room <= Cardinality(Heap)
  /\ PipeRoom \in Nat \ {0}

S == INSTANCE HashTable

VARIABLES
  created, receivemode,
  acceptignoreinfo,      \* hash table: IP -> [all, portlist]
  destinations, multicastgroups,
  membership,            \* the kernel's: socket -> the groups it has joined
  sockets,               \* the kernel's: socket -> packets received
  rawpacketlist,
  waiter,                \* the thread in WaitForIncomingData: "no", "select",
                         \* "returned" (select has, mainmutex not yet taken)
  aborted,               \* whether select found the pipe readable
  pipe,                  \* bytes in the abort pipe
  destroying,            \* Destroy waits for waitmutex
  asked                  \* history: the destinations added and not deleted since

tables == <<acceptignoreinfo, destinations, multicastgroups, asked>>
kernel == <<membership, sockets>>
waits  == <<waiter, aborted, pipe, destroying>>
vars   == <<created, receivemode, tables, kernel, rawpacketlist, waits>>

Sock == {"rtp", "rtcp"}

(* A datagram has data, and whom it is from tells it apart, or has none. *)
Empty     == << >>
Datagrams == (IPs \X Ports) \union {Empty}

Init ==
  /\ created = FALSE /\ destroying = FALSE
  /\ receivemode = "AcceptAll"
  /\ acceptignoreinfo = EmptyHashTable
  /\ destinations = S!EmptyTable
  /\ multicastgroups = S!EmptyTable
  /\ membership = [s \in Sock |-> {}]
  /\ sockets = [s \in Sock |-> << >>]
  /\ rawpacketlist = << >>
  /\ waiter = "no" /\ aborted = FALSE /\ pipe = 0
  /\ asked = << >>

Allocated ==
  Cardinality(DOMAIN acceptignoreinfo.elem) + Cardinality(DOMAIN destinations.elem)
    + Cardinality(DOMAIN multicastgroups.elem) + Len(rawpacketlist)
    + Len(sockets["rtp"]) + Len(sockets["rtcp"])
FlushPackets == rawpacketlist' = << >>
-----------------------------------------------------------------------------
Create ==
  /\ ~created /\ ~destroying
  /\ created' = TRUE
  /\ receivemode' = "AcceptAll"
  /\ pipe' = 0
  /\ UNCHANGED <<tables, kernel, rawpacketlist, waiter, aborted, destroying>>

(* Mutant: Destroy does not wait for the waiting thread. *)
DestroyAtOnce ==
  /\ created
  /\ created' = FALSE
  /\ membership' = [s \in Sock |-> {}] /\ sockets' = [s \in Sock |-> << >>]
  /\ destinations' = S!Clear(destinations) /\ asked' = << >>
  /\ multicastgroups' = S!Clear(multicastgroups)
  /\ acceptignoreinfo' = Clear(acceptignoreinfo)
  /\ FlushPackets
  /\ pipe' = IF waiter # "no" THEN pipe + 1 ELSE 0
  /\ UNCHANGED <<receivemode, waiter, aborted, destroying>>

(* Destroy closes the sockets, which leaves their groups, and frees all; a   *)
(* waiting thread it wakes, and waits for.                                   *)
Destroy ==
  /\ created
  /\ created' = FALSE
  /\ membership' = [s \in Sock |-> {}] /\ sockets' = [s \in Sock |-> << >>]
  /\ destinations' = S!Clear(destinations) /\ asked' = << >>
  /\ multicastgroups' = S!Clear(multicastgroups)
  /\ acceptignoreinfo' = Clear(acceptignoreinfo)
  /\ FlushPackets
  /\ destroying' = (waiter # "no")
  /\ pipe' = IF waiter # "no" THEN pipe + 1 ELSE 0
  /\ UNCHANGED <<receivemode, waiter, aborted>>

DestroyReturns ==
  /\ destroying /\ waiter = "no"
  /\ destroying' = FALSE
  /\ UNCHANGED <<created, receivemode, tables, kernel, rawpacketlist,
                 waiter, aborted, pipe>>
-----------------------------------------------------------------------------
WaitForIncomingData ==
  /\ created /\ waiter = "no"
  /\ waiter' = "select"
  /\ UNCHANGED <<created, receivemode, tables, kernel, rawpacketlist,
                 aborted, pipe, destroying>>

(* select returns when a descriptor is ready, or after the delay. *)
SelectReturns ==
  /\ waiter = "select"
  /\ waiter' = "returned"
  /\ aborted' = (pipe > 0)
  /\ UNCHANGED <<created, receivemode, tables, kernel, rawpacketlist,
                 pipe, destroying>>

(* The rest, with mainmutex. A transmitter destroyed meanwhile has no pipe   *)
(* to read from. The read would block if there were nothing to read.         *)
WaitReturns ==
  /\ waiter = "returned"
  /\ created /\ aborted => pipe > 0
  /\ waiter' = "no" /\ aborted' = FALSE
  /\ pipe' = IF created /\ aborted THEN pipe - 1 ELSE pipe
  /\ UNCHANGED <<created, receivemode, tables, kernel, rawpacketlist, destroying>>

AbortWait ==
  /\ created /\ waiter # "no" /\ pipe < PipeRoom
  /\ pipe' = pipe + 1
  /\ UNCHANGED <<created, receivemode, tables, kernel, rawpacketlist,
                 waiter, aborted, destroying>>
-----------------------------------------------------------------------------
(* Destinations and groups. *)
OnDestinations(h, now) ==
  /\ created
  /\ destinations' = h /\ asked' = now
  /\ UNCHANGED <<created, receivemode, acceptignoreinfo, multicastgroups,
                 kernel, rawpacketlist, waits>>

AddDestination(d) ==
  /\ Allocated < Room \/ S!HasElement(destinations, d)
  /\ OnDestinations(S!AddElement(destinations, d),
                    IF d \in ToSet(asked) THEN asked ELSE Append(asked, d))

(* The list without the destination. *)
Without(q, d) ==
  IF d \in ToSet(q) THEN RemoveAt(q, CHOOSE i \in DOMAIN q : q[i] = d) ELSE q

DeleteDestination(d) ==
  OnDestinations(S!DeleteElement(destinations, d), Without(asked, d))

ClearDestinations == OnDestinations(S!Clear(destinations), << >>)

(* SendRTPData, SendRTCPData: a datagram goes to every element the list      *)
(* leads to, in its order. Nothing changes.                                  *)
SentTo == S!Elements(destinations)

OnGroups(h, m) ==
  /\ multicastgroups' = h
  /\ membership' = m
  /\ UNCHANGED <<created, receivemode, acceptignoreinfo, destinations, asked, sockets,
                 rawpacketlist, waits>>

Joined(m, s, g) == [m EXCEPT ![s] = @ \union {g}]
Left(m, s, g)   == [m EXCEPT ![s] = @ \ {g}]

(* A group new to the table is joined by the RTP socket, then by the RTCP    *)
(* socket. When the first fails the table forgets the group; when the second *)
(* fails the first leaves again, which is taken to succeed, as leaving is    *)
(* everywhere: its status is not looked at.                                  *)
JoinMulticastGroup(g, ok) ==
  LET added == S!AddElement(multicastgroups, g)
      first == Joined(membership, "rtp", g)
  IN /\ created
     /\ \/ /\ S!HasElement(multicastgroups, g)
           /\ OnGroups(multicastgroups, membership)
        \/ /\ ~S!HasElement(multicastgroups, g) /\ Allocated < Room
           /\ \/ ~ok["rtp"] /\ OnGroups(S!DeleteElement(added, g), membership)
              \/ /\ ok["rtp"] /\ ~ok["rtcp"]
                 /\ OnGroups(S!DeleteElement(added, g), Left(first, "rtp", g))
              \/ ok["rtp"] /\ ok["rtcp"] /\ OnGroups(added, Joined(first, "rtcp", g))

LeaveMulticastGroup(g) ==
  /\ created
  /\ OnGroups(S!DeleteElement(multicastgroups, g),
              IF S!HasElement(multicastgroups, g)
              THEN [s \in Sock |-> membership[s] \ {g}] ELSE membership)

LeaveAllMulticastGroups ==
  LET left == ToSet(S!Elements(multicastgroups))
  IN /\ created
     /\ OnGroups(S!Clear(multicastgroups),
                 [s \in Sock |-> membership[s] \ left])
-----------------------------------------------------------------------------
(* Whom packets are accepted from. *)
OnFilter(m, h) ==
  /\ created
  /\ receivemode' = m /\ acceptignoreinfo' = h
  /\ UNCHANGED <<created, destinations, asked, multicastgroups, kernel, rawpacketlist, waits>>

SetReceiveMode(m) ==
  OnFilter(m, IF m = receivemode THEN acceptignoreinfo ELSE Clear(acceptignoreinfo))

PortInfo(port) == [all |-> port = AnyPort, portlist |-> {port} \ {AnyPort}]

(* An address added to the list. When all ports are selected already, the    *)
(* list is of the ports that are not, and is left as it is.                  *)
Added(inf, port) ==
  IF port = AnyPort THEN PortInfo(AnyPort)
  ELSE IF inf.all THEN inf
  ELSE [inf EXCEPT !.portlist = @ \union {port}]

ProcessAddAcceptIgnoreEntry(h, ip, port) ==
  IF HasElement(h, ip) THEN SetElement(h, ip, Added(Element(h, ip), port))
                       ELSE AddElement(h, ip, PortInfo(port))

(* Mutant: all ports of a host are deleted, but the ports that had been      *)
(* excepted from the selection stay, and are now selected.                   *)
DeletedKeepsList(inf, port) ==
  IF port = AnyPort THEN [inf EXCEPT !.all = FALSE]
  ELSE IF inf.all THEN [inf EXCEPT !.portlist = @ \union {port}]
  ELSE [inf EXCEPT !.portlist = @ \ {port}]

Deleted(inf, port) ==
  IF port = AnyPort THEN [all |-> FALSE, portlist |-> {}]
  ELSE IF inf.all THEN [inf EXCEPT !.portlist = @ \union {port}]
  ELSE [inf EXCEPT !.portlist = @ \ {port}]

ProcessDeleteAcceptIgnoreEntry(h, ip, port) ==
  IF HasElement(h, ip) THEN SetElement(h, ip, Deleted(Element(h, ip), port)) ELSE h

CanAdd(ip) == Allocated < Room \/ HasElement(acceptignoreinfo, ip)
ClearAcceptIgnoreInfo == Clear(acceptignoreinfo)

AddToIgnoreList(ip, port) ==
  /\ receivemode = "IgnoreSome" /\ CanAdd(ip)
  /\ OnFilter(receivemode, ProcessAddAcceptIgnoreEntry(acceptignoreinfo, ip, port))

DeleteFromIgnoreList(ip, port) ==
  /\ receivemode = "IgnoreSome"
  /\ OnFilter(receivemode, ProcessDeleteAcceptIgnoreEntry(acceptignoreinfo, ip, port))

ClearIgnoreList ==
  receivemode = "IgnoreSome" /\ OnFilter(receivemode, ClearAcceptIgnoreInfo)

AddToAcceptList(ip, port) ==
  /\ receivemode = "AcceptSome" /\ CanAdd(ip)
  /\ OnFilter(receivemode, ProcessAddAcceptIgnoreEntry(acceptignoreinfo, ip, port))

DeleteFromAcceptList(ip, port) ==
  /\ receivemode = "AcceptSome"
  /\ OnFilter(receivemode, ProcessDeleteAcceptIgnoreEntry(acceptignoreinfo, ip, port))

ClearAcceptList ==
  receivemode = "AcceptSome" /\ OnFilter(receivemode, ClearAcceptIgnoreInfo)
-----------------------------------------------------------------------------
(* Packets. *)
Arrives(s, datagram) ==
  /\ created
  /\ Allocated < Room
  /\ sockets' = [sockets EXCEPT ![s] = Append(@, datagram)]
  /\ UNCHANGED <<created, receivemode, tables, membership, rawpacketlist, waits>>

(* Whether a host's entry selects a port *)
Selects(inf, port) == IF inf.all THEN port \notin inf.portlist ELSE port \in inf.portlist

(* Mutant: ports excepted from an ignored host are ignored too. *)
ShouldAcceptDataAllIgnored(h, mode, ip, port) ==
  CASE mode = "AcceptAll"  -> TRUE
    [] mode = "AcceptSome" ->
         HasElement(h, ip) /\ Selects(Element(h, ip), port)
    [] mode = "IgnoreSome" ->
         HasElement(h, ip) => /\ ~Selects(Element(h, ip), port)
                              /\ ~Element(h, ip).all

ShouldAcceptData(h, mode, ip, port) ==
  CASE mode = "AcceptAll"  -> TRUE
    [] mode = "AcceptSome" ->
         HasElement(h, ip) /\ Selects(Element(h, ip), port)
    [] mode = "IgnoreSome" ->
         HasElement(h, ip) => ~Selects(Element(h, ip), port)

Acceptable(h, mode) == {a \in IPs \X Ports : ShouldAcceptData(h, mode, a[1], a[2])}

(* How a socket may be polled: how many datagrams are read, and how many of  *)
(* them are looked at and, if they are accepted, put in the list.            *)
(*  - All. Those without data are dropped.                                   *)
(*  - Where there is no data to come (the end, or a datagram without), select*)
(*    is asked whether there is a datagram, and may fail.                    *)
(*  - There is no memory for the packet just read, which is lost.            *)
PollSocket(s) ==
  LET q      == sockets[s]
      asks   == {n \in 0 .. Len(q) : n = Len(q) \/ q[n + 1] = Empty}
      wanted == {n \in DOMAIN q : q[n] \in Acceptable(acceptignoreinfo, receivemode)}
  IN {[read |-> Len(q), listed |-> Len(q), ok |-> TRUE]}
       \union {[read |-> n, listed |-> n, ok |-> FALSE] : n \in asks}
       \union {[read |-> n, listed |-> n - 1, ok |-> FALSE] : n \in wanted}

(* The packets of a socket that are accepted of the first n in it *)
Taken(s, n) ==
  LET taken == Picked(SubSeq(sockets[s], 1, n), Acceptable(acceptignoreinfo, receivemode))
  IN [i \in DOMAIN taken |-> <<s, taken[i]>>]

Rest(q, n) == SubSeq(q, n + 1, Len(q))

Unpolled == [read |-> 0, listed |-> 0, ok |-> FALSE]

(* The RTP socket is polled and, unless that has failed, the RTCP socket. *)
Poll ==
  /\ created
  /\ \E rtp \in PollSocket("rtp") : \E rtcp \in IF rtp.ok THEN PollSocket("rtcp") ELSE {Unpolled} :
       /\ rawpacketlist' = rawpacketlist \o Taken("rtp", rtp.listed) \o Taken("rtcp", rtcp.listed)
       /\ sockets' = [s \in Sock |-> Rest(sockets[s], IF s = "rtp" THEN rtp.read ELSE rtcp.read)]
  /\ UNCHANGED <<created, receivemode, tables, membership, waits>>

GetNextPacket ==
  /\ created /\ rawpacketlist # << >>
  /\ rawpacketlist' = Tail(rawpacketlist)
  /\ UNCHANGED <<created, receivemode, tables, kernel, waits>>

Next ==
  \/ Create \/ Destroy \/ DestroyReturns
  \/ WaitForIncomingData \/ SelectReturns \/ WaitReturns \/ AbortWait
  \/ \E d \in Destinations : AddDestination(d) \/ DeleteDestination(d)
  \/ ClearDestinations
  \/ \E g \in Groups : \/ \E ok \in [Sock -> BOOLEAN] : JoinMulticastGroup(g, ok)
                        \/ LeaveMulticastGroup(g)
  \/ LeaveAllMulticastGroups
  \/ \E m \in {"AcceptAll", "AcceptSome", "IgnoreSome"} : SetReceiveMode(m)
  \/ \E ip \in IPs, port \in Ports \union {AnyPort} :
       \/ AddToIgnoreList(ip, port) \/ DeleteFromIgnoreList(ip, port)
       \/ AddToAcceptList(ip, port) \/ DeleteFromAcceptList(ip, port)
  \/ ClearIgnoreList \/ ClearAcceptList
  \/ \E s \in Sock, datagram \in Datagrams : Arrives(s, datagram)
  \/ Poll \/ GetNextPacket

Spec == Init /\ [][Next]_vars
-----------------------------------------------------------------------------
PortInfos == [all : BOOLEAN, portlist : SUBSET Ports]

IsTable(h, keys, vals) ==
  /\ DOMAIN h.elem \subseteq Heap
  /\ \A e \in DOMAIN h.elem : h.elem[e].key \in keys /\ h.elem[e].val \in vals

TypeOK ==
  /\ created \in BOOLEAN /\ destroying \in BOOLEAN
  /\ receivemode \in {"AcceptAll", "AcceptSome", "IgnoreSome"}
  /\ IsTable(acceptignoreinfo, IPs, PortInfos)
  /\ IsTable(destinations, Destinations, Destinations)
  /\ IsTable(multicastgroups, Groups, Groups)
  /\ membership \in [Sock -> SUBSET Groups]
  /\ \A s \in Sock : sockets[s] \in Seq(Datagrams)
  /\ rawpacketlist \in Seq(Sock \X (IPs \X Ports))
  /\ waiter \in {"no", "select", "returned"}
  /\ aborted \in BOOLEAN
  /\ pipe \in 0 .. PipeRoom + 1
  /\ receivemode = "AcceptAll" \/ ~created => acceptignoreinfo.elem = EmptyHashTable.elem

(* The hash tables are what they look like from either side: what is in the  *)
(* list is what a lookup finds, whatever was added and deleted in any order. *)
TablesLinked ==
  Linked(acceptignoreinfo) /\ Linked(destinations) /\ Linked(multicastgroups)

(* Data goes to every destination that was added and not deleted since, and  *)
(* to each once.                                                             *)
SendReachesAll == SentTo = asked

(* The kernel and the table agree on the groups joined, and both sockets     *)
(* have joined the same, also after one of them failed to.                   *)
MembershipAgrees ==
  \A s \in Sock : membership[s] = {g \in Groups : S!HasElement(multicastgroups, g)}

(* The byte that ends an aborted wait is still there when the waiting thread *)
(* comes to read it, so that the read does not block with the lock held.     *)
AbortReadable == waiter = "returned" /\ created /\ aborted => pipe > 0

SelectedIn(h) ==
  {a \in IPs \X Ports : \E e \in DOMAIN h.elem :
     h.elem[e].key = a[1] /\ Selects(h.elem[e].val, a[2])}

Selected == SelectedIn(acceptignoreinfo)

Filter == INSTANCE SourceFilter WITH mode <- receivemode, selected <- Selected

(* The entries of the list, with their flag and their exceptions, stand for  *)
(* a set of addresses, and change as that set should.                        *)
FilterAsAsked == Filter!SSpec

AfterAdding(ip, port) ==
  SelectedIn(ProcessAddAcceptIgnoreEntry(acceptignoreinfo, ip, port))

AfterDeleting(ip, port) ==
  SelectedIn(ProcessDeleteAcceptIgnoreEntry(acceptignoreinfo, ip, port))

AskedFor(ip, port) == IF port = AnyPort THEN Filter!AllPorts(ip) ELSE {<<ip, port>>}

(* Adding an address to the list, or all ports of a host, selects that and   *)
(* nothing else, and deleting it deselects that and nothing else. One case   *)
(* is excepted, in which adding does nothing and AddSelects does not hold.   *)
AddedOrExcepted ==
  \A ip \in IPs, port \in Ports \union {AnyPort} :
    /\ AfterDeleting(ip, port) = Selected \ AskedFor(ip, port)
    /\ CanAdd(ip) =>
         IF port # AnyPort /\ HasElement(acceptignoreinfo, ip) /\ Element(acceptignoreinfo, ip).all
         THEN AfterAdding(ip, port) = Selected
         ELSE AfterAdding(ip, port) = Selected \union AskedFor(ip, port)

(* Does not hold: an address added is selected. When all ports of a host had *)
(* been added and this one deleted, adding it again has no effect, although  *)
(* the call succeeds.                                                        *)
AddSelects ==
  \A ip \in {x \in IPs : CanAdd(x)}, p \in Ports : <<ip, p>> \in AfterAdding(ip, p)

From(list, s) == Picked(list, {s} \X (IPs \X Ports))

AcceptedFrom == {a \in IPs \X Ports : Filter!Accepts(receivemode, Selected, a)}

(* Of the first n datagrams of a socket, the packets from addresses that are *)
(* accepted are put in the list, in their order and each once, and no others.*)
Stored(s, n) ==
  LET good == Picked(SubSeq(sockets[s], 1, n), AcceptedFrom)
  IN From(rawpacketlist', s) = From(rawpacketlist, s) \o [i \in DOMAIN good |-> <<s, good[i]>>]

TakenOff(s) == Len(sockets[s]) - Len(sockets'[s])

(* A packet leaves a socket only for the list, or because it comes from an   *)
(* address that is not accepted, or because there is no memory for it; this  *)
(* ends the poll, so that of both sockets a poll loses no more than one      *)
(* packet. Otherwise a socket is read to its end, or to a datagram without   *)
(* data, and the RTCP socket only when the RTP socket has been read to its   *)
(* end and nothing of it is lost. The packets of a socket stay in order.     *)
PolledIfAccepted ==
  [][\A s \in Sock : TakenOff(s) > 0 /\ created' =>
       LET n == TakenOff(s)
       IN /\ sockets'[s] = Rest(sockets[s], n)
          /\ s = "rtcp" => sockets'["rtp"] = << >> /\ Stored("rtp", TakenOff("rtp"))
          /\ \/ Stored(s, n) /\ (sockets'[s] = << >> \/ Head(sockets'[s]) = Empty)
             \/ Stored(s, n - 1) /\ sockets[s][n] \in AcceptedFrom]_vars

(* Does not hold: a poll "Checks for incoming data and stores it."           *)
(* (rtptransmitter.h:143). A packet read without memory to store it is lost. *)
PolledIsStored ==
  [][\A s \in Sock : TakenOff(s) > 0 /\ created' => Stored(s, TakenOff(s))]_vars

(* Does not hold: what is handed over is accepted now. Packets polled before *)
(* the list changed are handed over whoever they are from.                   *)
HandedOverIfAccepted ==
  [][Len(rawpacketlist') < Len(rawpacketlist) /\ created' =>
       Filter!Accepts(receivemode, Selected, Head(rawpacketlist)[2])]_vars

(* The tables are linked, hold what they may, agree with the kernel and with *)
(* what was asked for (but in the case excepted), and the byte that ends a   *)
(* wait is there to be read.                                                 *)
UdpTransmitterInv ==
  /\ TypeOK /\ TablesLinked /\ AddedOrExcepted
  /\ SendReachesAll /\ MembershipAgrees /\ AbortReadable
=============================================================================
