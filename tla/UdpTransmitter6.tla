-------------------------- MODULE UdpTransmitter6 --------------------------
(* RTPUDPv6Transmitter of the jrtp library (rtpudpv6transmitter.cpp): the    *)
(* methods of RTPUDPv4Transmitter written out once more. The addresses are   *)
(* of another type, and socket options and group requests are those of IPv6; *)
(* guards, order, error paths and tables are the same, so that a method here *)
(* is defined to be the one there.                                           *)
CONSTANTS Heap, Null, Keys, Buckets, Bucket,
          IPs, Ports, AnyPort, Groups, Destinations, Room, PipeRoom

VARIABLES created, receivemode, acceptignoreinfo, destinations, multicastgroups,
          membership, sockets, rawpacketlist, waiter, aborted, pipe, destroying, asked

V4 == INSTANCE UdpTransmitter

Init == V4!Init
-----------------------------------------------------------------------------
Create              == V4!Create
Destroy             == V4!Destroy
DestroyReturns      == V4!DestroyReturns
WaitForIncomingData == V4!WaitForIncomingData
SelectReturns       == V4!SelectReturns
WaitReturns         == V4!WaitReturns
AbortWait           == V4!AbortWait

AddDestination(d)    == V4!AddDestination(d)
DeleteDestination(d) == V4!DeleteDestination(d)
ClearDestinations    == V4!ClearDestinations
SentTo               == V4!SentTo

JoinMulticastGroup(g, ok) == V4!JoinMulticastGroup(g, ok)
LeaveMulticastGroup(g)    == V4!LeaveMulticastGroup(g)
LeaveAllMulticastGroups   == V4!LeaveAllMulticastGroups

SetReceiveMode(m)              == V4!SetReceiveMode(m)
AddToIgnoreList(ip, port)      == V4!AddToIgnoreList(ip, port)
DeleteFromIgnoreList(ip, port) == V4!DeleteFromIgnoreList(ip, port)
ClearIgnoreList                == V4!ClearIgnoreList
AddToAcceptList(ip, port)      == V4!AddToAcceptList(ip, port)
DeleteFromAcceptList(ip, port) == V4!DeleteFromAcceptList(ip, port)
ClearAcceptList                == V4!ClearAcceptList

Arrives(s, datagram) == V4!Arrives(s, datagram)
Poll                 == V4!Poll
GetNextPacket        == V4!GetNextPacket

FlushPackets                                   == V4!FlushPackets
PollSocket(s)                                  == V4!PollSocket(s)
ProcessAddAcceptIgnoreEntry(h, ip, port)       == V4!ProcessAddAcceptIgnoreEntry(h, ip, port)
ClearAcceptIgnoreInfo                          == V4!ClearAcceptIgnoreInfo
ProcessDeleteAcceptIgnoreEntry(h, ip, port)    == V4!ProcessDeleteAcceptIgnoreEntry(h, ip, port)
ShouldAcceptData(h, mode, ip, port)            == V4!ShouldAcceptData(h, mode, ip, port)

Next ==
  \/ Create \/ Destroy \/ DestroyReturns
  \/ WaitForIncomingData \/ SelectReturns \/ WaitReturns \/ AbortWait
  \/ \E d \in Destinations : AddDestination(d) \/ DeleteDestination(d)
  \/ ClearDestinations
  \/ \E g \in Groups : \/ \E ok \in [V4!Sock -> BOOLEAN] : JoinMulticastGroup(g, ok)
                        \/ LeaveMulticastGroup(g)
  \/ LeaveAllMulticastGroups
  \/ \E m \in {"AcceptAll", "AcceptSome", "IgnoreSome"} : SetReceiveMode(m)
  \/ \E ip \in IPs, port \in Ports \union {AnyPort} :
       \/ AddToIgnoreList(ip, port) \/ DeleteFromIgnoreList(ip, port)
       \/ AddToAcceptList(ip, port) \/ DeleteFromAcceptList(ip, port)
  \/ ClearIgnoreList \/ ClearAcceptList
  \/ \E s \in V4!Sock, datagram \in V4!Datagrams : Arrives(s, datagram)
  \/ Poll \/ GetNextPacket
=============================================================================
