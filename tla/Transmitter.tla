---------------------------- MODULE Transmitter ----------------------------
(* The transmitter of an RTPSession (jrtp library): the protocol given to    *)
(* RTPSession::Create decides which of the four it is, for good. What they   *)
(* have in common, a list of packets, tables, the wait and the pipe that     *)
(* ends it, is in variables of the same names.                               *)
EXTENDS UdpTransmitter

CONSTANT NoData

VARIABLES
  protocol,      \* "IPv4", "IPv6", "External" or "Fake"
  kept,          \* External only: mainmutex is never given back
  currentdata    \* Fake only: the packet handed in

V6   == INSTANCE UdpTransmitter6
Ext  == INSTANCE ExternalTransmitter
Fake == INSTANCE FakeTransmitter

tvars == <<vars, protocol, kept, currentdata>>

NewTransmitter == protocol \in {"IPv4", "IPv6", "External", "Fake"}

TInit == NewTransmitter /\ Fake!Init /\ kept = FALSE

TNext ==
  /\ UNCHANGED protocol
  /\ \/ protocol = "IPv4" /\ Next /\ UNCHANGED <<kept, currentdata>>
     \/ protocol = "IPv6" /\ V6!Next /\ UNCHANGED <<kept, currentdata>>
     \/ /\ protocol = "External" /\ Ext!Next
        /\ UNCHANGED <<receivemode, tables, kernel, currentdata>>
     \/ protocol = "Fake" /\ Fake!Next /\ UNCHANGED kept

TSpec == TInit /\ [][TNext]_tvars
-----------------------------------------------------------------------------
(* Each transmitter's own invariant: tables that are linked and take effect, *)
(* data that reaches its destinations, groups joined by both sockets, or no  *)
(* packet that waits unnoticed.                                              *)
TransmitterInv ==
  /\ protocol # "External" => UdpTransmitterInv
  /\ protocol = "External" => Ext!ExternalTransmitterInv /\ AbortReadable
  /\ protocol = "Fake" => Fake!TypeOK
=============================================================================
