-------------------------- MODULE FakeTransmitter --------------------------
(* RTPFakeTransmitter of the jrtp library (rtpfaketransmitter.cpp): nothing  *)
(* is sent or received. The application hands a packet in by setting it in   *)
(* the parameters it has given to Create, and polls; packets to be sent are  *)
(* given to a callback, once for each destination. Init refuses to be made   *)
(* safe for threads, waiting is not implemented, and joining a group fails.  *)
(* Destinations and lists are those of RTPUDPv4Transmitter written out again,*)
(* so that these methods are defined to be the ones there.                   *)
EXTENDS Naturals, Sequences

CONSTANTS Heap, Null, Keys, Buckets, Bucket,
          IPs, Ports, AnyPort, Groups, Destinations, Room, PipeRoom,
          NoData         \* NULL, no packet handed in

VARIABLES created, receivemode, acceptignoreinfo, destinations, multicastgroups,
          membership, sockets, rawpacketlist, waiter, aborted, pipe, destroying, asked,
          currentdata    \* the parameters': the packet handed in

V4 == INSTANCE UdpTransmitter

others == <<created, receivemode, acceptignoreinfo, destinations, multicastgroups,
            membership, sockets, waiter, aborted, pipe, destroying, asked>>

Init == V4!Init /\ currentdata = NoData
-----------------------------------------------------------------------------
(* The parameters are new, without a packet, or have one handed in after. *)
Create == V4!Create /\ UNCHANGED currentdata

(* Destroy deletes the parameters, too. Nobody can be waiting. *)
Destroy == V4!Destroy /\ currentdata' = NoData

SetCurrentData(s, ip, port) ==
  /\ created
  /\ currentdata' = <<s, <<ip, port>>>>
  /\ UNCHANGED <<others, rawpacketlist>>
-----------------------------------------------------------------------------
AddDestination(d)    == V4!AddDestination(d)
DeleteDestination(d) == V4!DeleteDestination(d)
ClearDestinations    == V4!ClearDestinations
SentTo               == V4!SentTo

SetReceiveMode(m)              == V4!SetReceiveMode(m)
AddToIgnoreList(ip, port)      == V4!AddToIgnoreList(ip, port)
DeleteFromIgnoreList(ip, port) == V4!DeleteFromIgnoreList(ip, port)
ClearIgnoreList                == V4!ClearIgnoreList
AddToAcceptList(ip, port)      == V4!AddToAcceptList(ip, port)
DeleteFromAcceptList(ip, port) == V4!DeleteFromAcceptList(ip, port)
ClearAcceptList                == V4!ClearAcceptList

FlushPackets                                == V4!FlushPackets
ProcessAddAcceptIgnoreEntry(h, ip, port)    == V4!ProcessAddAcceptIgnoreEntry(h, ip, port)
ClearAcceptIgnoreInfo                       == V4!ClearAcceptIgnoreInfo
ProcessDeleteAcceptIgnoreEntry(h, ip, port) == V4!ProcessDeleteAcceptIgnoreEntry(h, ip, port)
ShouldAcceptData(h, mode, ip, port)         == V4!ShouldAcceptData(h, mode, ip, port)
-----------------------------------------------------------------------------
Accepted(p) == ShouldAcceptData(acceptignoreinfo, receivemode, p[2][1], p[2][2])

(* What is handed in is copied to the list, if there is memory for it. *)
FakePoll(ok) ==
  rawpacketlist' = IF currentdata # NoData /\ ok /\ Accepted(currentdata)
                   THEN Append(rawpacketlist, currentdata) ELSE rawpacketlist

(* Whatever has become of it, it is no longer handed in then. *)
Poll ==
  /\ created
  /\ \E ok \in BOOLEAN : (ok => V4!Allocated < Room) /\ FakePoll(ok)
  /\ currentdata' = NoData
  /\ UNCHANGED others

GetNextPacket == V4!GetNextPacket

OnLists ==
  \/ \E d \in Destinations : AddDestination(d) \/ DeleteDestination(d)
  \/ ClearDestinations
  \/ \E m \in {"AcceptAll", "AcceptSome", "IgnoreSome"} : SetReceiveMode(m)
  \/ \E ip \in IPs, port \in Ports \union {AnyPort} :
       \/ AddToIgnoreList(ip, port) \/ DeleteFromIgnoreList(ip, port)
       \/ AddToAcceptList(ip, port) \/ DeleteFromAcceptList(ip, port)
  \/ ClearIgnoreList \/ ClearAcceptList
  \/ GetNextPacket

Next ==
  \/ Create \/ Destroy \/ Poll
  \/ \E s \in V4!Sock, ip \in IPs, port \in Ports : SetCurrentData(s, ip, port)
  \/ OnLists /\ UNCHANGED currentdata
-----------------------------------------------------------------------------
TypeOK ==
  /\ currentdata \in (V4!Sock \X (IPs \X Ports)) \union {NoData}
  /\ ~created => currentdata = NoData
  /\ waiter = "no" /\ \A s \in V4!Sock : sockets[s] = << >>

(* Does not hold: "The incoming messages are handed in to jrtp through the   *)
(* TransmissionParams and can be retreived from jrtp through the normal      *)
(* polling mecanisms" (rtpfaketransmitter.cpp:5). A packet is overwritten by *)
(* the next one handed in before a poll, and forgotten when there was no     *)
(* memory to copy it.                                                        *)
Retrieved ==
  [][(/\ currentdata # NoData /\ currentdata' # currentdata
      /\ created' /\ Accepted(currentdata))
        => rawpacketlist' = Append(rawpacketlist, currentdata)]_<<others, rawpacketlist, currentdata>>
=============================================================================
