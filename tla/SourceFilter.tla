---------------------------- MODULE SourceFilter ----------------------------
(* What a transmitter's list of addresses to accept or to ignore promises    *)
(* (rtptransmitter.h): a receive mode and a set of selected addresses, to    *)
(* which single addresses, or all ports of a host, are added and from which  *)
(* they are deleted. A change of the mode forgets them.                      *)
CONSTANTS IPs, Ports

VARIABLES mode, selected   \* selected: a set of <<ip, port>>

Modes == {"AcceptAll", "AcceptSome", "IgnoreSome"}

Accepts(m, s, a) ==
  CASE m = "AcceptAll"  -> TRUE
    [] m = "AcceptSome" -> a \in s
    [] m = "IgnoreSome" -> a \notin s

AllPorts(ip) == {ip} \X Ports

SInit == mode = "AcceptAll" /\ selected = {}

SetMode == mode' \in Modes /\ selected' = {}

Select ==
  /\ mode # "AcceptAll"
  /\ \/ \E a \in IPs \X Ports : selected' = selected \union {a}
     \/ \E ip \in IPs : selected' = selected \union AllPorts(ip)
  /\ UNCHANGED mode

Deselect ==
  /\ \/ \E a \in IPs \X Ports : selected' = selected \ {a}
     \/ \E ip \in IPs : selected' = selected \ AllPorts(ip)
     \/ selected' = {}
  /\ UNCHANGED mode

SNext == SetMode \/ Select \/ Deselect

SSpec == SInit /\ [][SNext]_<<mode, selected>>
=============================================================================
