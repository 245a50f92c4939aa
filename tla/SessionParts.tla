---------------------------- MODULE SessionParts ----------------------------
(* The parts of an RTPSession (jrtp library) that share no state in these    *)
(* models, looked at one at a time: its threads, how it is set up and        *)
(* resized, the packets it builds, and what it knows of its host. Each part  *)
(* is the specification of its module; the others stay as they begin.        *)
EXTENDS RtpSession

CONSTANTS
  Sizes, MinSize, MaxSize,                                        \* of SessionSetup
  CSRCs, MaxCSRCs, PayloadTypes, Reserved, Incs, TsMod, Numbers,  \* of RtpPackets
  PacketSizes, DefaultMarks, MaxBuilds,
  IPs, Loopback, HostNames, Dotted, Interfaces, DNSs,             \* of LocalHost
  None

ASSUME SetupAssumption ==
  /\ Sizes \subseteq Nat
  /\ {MinSize, MaxSize} \subseteq Sizes /\ MinSize < MaxSize

ASSUME PacketsAssumption ==
  /\ MaxCSRCs \in Nat \ {0} /\ TsMod \in Nat \ {0} /\ Numbers \in Nat \ {0}
  /\ Incs \subseteq Nat /\ PacketSizes \subseteq Nat \ {0} /\ PacketSizes # {}
  /\ MaxBuilds \in Nat

ASSUME HostAssumption ==
  /\ Loopback \in IPs /\ HostNames \subseteq Nat /\ Dotted \subseteq HostNames
  /\ Interfaces \subseteq Seq(IPs) /\ << >> \in Interfaces
  /\ DNSs \subseteq [IPs -> Seq(HostNames)] /\ DNSs # {}
  /\ None \notin {<<"gethostname">>} \union {<<"name", n>> : n \in HostNames}
                 \union {<<"ip", ip>> : ip \in IPs}

VARIABLES
  part,        \* "threads", "setup", "packets" or "host"
  held, created, deletetransmitter, step, askedsize, maxpacksize, transsize,
  buildersize, rtcpsize, pollthread, report, refused, lowered,
  init, packetsize, csrcs, timestamp, seqnr, numpackets, defaultpayloadtype,
  defaultmark, defaulttimestampinc, lastwallclocktime, lastrtptimestamp,
  prevrtptimestamp, now, askedcsrcs, sent,
  transmitter, interfaces, dns, listening, localIPs, localhostname, cname, told

Setup == INSTANCE SessionSetup WITH asked <- askedsize, poll <- pollthread

Packets == INSTANCE RtpPackets
             WITH Sizes <- PacketSizes, maxpacksize <- packetsize, asked <- askedcsrcs

Host == INSTANCE LocalHost WITH Names <- HostNames, created <- listening

setupvars ==
  <<held, created, deletetransmitter, step, askedsize, maxpacksize, transsize,
    buildersize, rtcpsize, pollthread, report, refused, lowered>>
packetvars ==
  <<init, packetsize, csrcs, timestamp, seqnr, numpackets, defaultpayloadtype,
    defaultmark, defaulttimestampinc, lastwallclocktime, lastrtptimestamp,
    prevrtptimestamp, now, askedcsrcs, sent>>
hostvars ==
  <<transmitter, interfaces, dns, listening, localIPs, localhostname, cname, told>>
pvars == <<vars, part, setupvars, packetvars, hostvars>>

PInit ==
  /\ part \in {"threads", "setup", "packets", "host"}
  /\ Init /\ Setup!Init /\ Packets!Init /\ Host!Init

PNext ==
  /\ UNCHANGED part
  /\ \/ part = "threads" /\ (Next \/ Over)
        /\ UNCHANGED <<setupvars, packetvars, hostvars>>
     \/ part = "setup" /\ Setup!Next
        /\ UNCHANGED <<vars, packetvars, hostvars>>
     \/ part = "packets" /\ Packets!Next
        /\ UNCHANGED <<vars, setupvars, hostvars>>
     \/ part = "host" /\ Host!Next
        /\ UNCHANGED <<vars, setupvars, packetvars>>

PSpec == PInit /\ [][PNext]_pvars
-----------------------------------------------------------------------------
(* Whichever step of setting up fails, nothing is left; sizes agree between  *)
(* calls; nothing is refused that was not too big when it was asked for.     *)
SetupInv == Setup!SessionSetupInv

(* Packets are read as what they were built from; CSRCs, numbers and times   *)
(* are those they should be.                                                 *)
PacketsInv == Packets!RtpPacketsInv

(* The host goes by one name, and by one with a dot if it can.               *)
HostInv == Host!LocalHostInv
=============================================================================
