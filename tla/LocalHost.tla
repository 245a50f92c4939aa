----------------------------- MODULE LocalHost ------------------------------
(* Which addresses and what name a session's host has, as the jrtp library   *)
(* finds out: the UDP transmitters' list of local addresses and host name,   *)
(* and the session's CNAME. The device meanwhile joins and leaves networks.  *)
(* Each of the four transmitters has methods of its own for this; those of   *)
(* IPv4 and IPv6 are the same but for the addresses.                         *)
EXTENDS Naturals, Sequences, SequencesExt, FiniteSets, FiniteSetsExt

CONSTANTS IPs, Loopback,
          Names,                 \* host names, as numbers in alphabetical order
          Dotted,                \* those with a dot in them
          Interfaces,            \* lists of addresses the interfaces may have
          DNSs,                  \* what may be known: [IPs -> sequences of a host's
                                 \* name and its aliases, empty if unknown]
          None

VARIABLES
  transmitter,              \* the one created: a member of Transmitters, or None
  interfaces, dns,          \* the world's
  created, localIPs, localhostname,
  cname,                    \* the session's: [login, host], or None
  told                      \* history: the names told since Create

vars == <<transmitter, interfaces, dns, created, localIPs, localhostname, cname, told>>

Init ==
  /\ transmitter = None
  /\ interfaces = << >> /\ dns = CHOOSE d \in DNSs : TRUE
  /\ created = FALSE /\ localIPs = << >> /\ localhostname = None
  /\ cname = None /\ told = {}

(* Not a call: the device changes its network, or names do. *)
NetworkChanges ==
  /\ interfaces' \in Interfaces /\ dns' \in DNSs
  /\ UNCHANGED <<transmitter, created, localIPs, localhostname, cname, told>>
-----------------------------------------------------------------------------
AddLoopbackAddress(ips) == IF Loopback \in ToSet(ips) THEN ips ELSE Append(ips, Loopback)

(* Without an address on an interface (GetLocalIPList_Interfaces, of which   *)
(* each platform has its own), those known for the own name                  *)
(* (GetLocalIPList_DNS).                                                     *)
CreateLocalIPList(byname) ==
  AddLoopbackAddress(IF interfaces # << >> THEN interfaces ELSE byname)

CreateLocalIPList6(byname) == CreateLocalIPList(byname)

(* The fake transmitter finds no interfaces. *)
CreateLocalIPListFake(byname) == AddLoopbackAddress(byname)

FoundIPs(t, byname) ==
  CASE t = "IPv4" -> CreateLocalIPList(byname)
    [] t = "IPv6" -> CreateLocalIPList6(byname)
    [] t = "Fake" -> CreateLocalIPListFake(byname)

(* The user may give a list of addresses, which is then taken as it is. The  *)
(* external transmitter has none.                                            *)
Create(t, given, byname) ==
  /\ ~created /\ created' = TRUE /\ transmitter' = t
  /\ localIPs' = IF t = "External" THEN << >>
                 ELSE IF given # << >> THEN given ELSE FoundIPs(t, byname)
  /\ UNCHANGED <<interfaces, dns, localhostname, cname, told>>

Destroy ==
  /\ created /\ created' = FALSE /\ transmitter' = None
  /\ localIPs' = << >> /\ localhostname' = None
  /\ cname' = None /\ told' = {}
  /\ UNCHANGED <<interfaces, dns>>

ComesFromThisTransmitter(ip) == created /\ ip \in ToSet(localIPs)     \* and from its ports
-----------------------------------------------------------------------------
(* Mutant: only an entry's name is looked for in the list. *)
UntilDoubleName(names, entry) ==
  IF entry # << >> /\ entry[1] \in ToSet(names) THEN names ELSE names \o entry

(* A host's name and aliases are added until one is there already. The code  *)
(* then asks for the address again, and again, until that happens.           *)
UntilDouble(names, entry) ==
  LET fits(n) == LET new == SubSeq(entry, 1, n)
                 IN IsInjective(new) /\ ToSet(new) \intersect ToSet(names) = {}
  IN names \o SubSeq(entry, 1, Max({n \in 0 .. Len(entry) : fits(n)}))

NamesUpTo(ips, d) ==
  LET names[n \in 0 .. Len(ips)] ==
        IF n = 0 THEN << >> ELSE UntilDouble(names[n - 1], d[ips[n]])
  IN names

Hostnames(ips, d) == NamesUpTo(ips, d)[Len(ips)]

(* The first name with a dot in it, or the first address *)
MostAppropriate(ips, d) ==
  LET dotted == ToSet(Hostnames(ips, d)) \intersect Dotted
  IN IF dotted # {} THEN <<"name", Min(dotted)>> ELSE <<"ip", ips[1]>>

MostAppropriate6(ips, d) == MostAppropriate(ips, d)

(* The fake transmitter asks for each address once, leaves the aliases, and  *)
(* does not sort the names.                                                  *)
MostAppropriateFake(ips, d) ==
  LET dotted == {i \in DOMAIN ips : d[ips[i]] # << >> /\ d[ips[i]][1] \in Dotted}
  IN IF dotted # {} THEN <<"name", d[ips[Min(dotted)]][1]>> ELSE <<"ip", ips[1]>>

(* The external transmitter takes the system's name. *)
SystemName == <<"gethostname">>

FoundName(ips, d) ==
  CASE transmitter = "IPv4" -> MostAppropriate(ips, d)
    [] transmitter = "IPv6" -> MostAppropriate6(ips, d)
    [] transmitter = "Fake" -> MostAppropriateFake(ips, d)
    [] transmitter = "External" -> SystemName

HostName == IF localhostname = None THEN FoundName(localIPs, dns) ELSE localhostname

(* The name is found out once. A buffer too short for it is told its length. *)
GetLocalHostName(fits) ==
  /\ created
  /\ localhostname' = HostName
  /\ told' = IF fits THEN told \union {HostName} ELSE told
  /\ UNCHANGED <<transmitter, interfaces, dns, created, localIPs, cname>>

(* The login name: of getlogin_r, else of getlogin, else of the environment. *)
(* A name that getlogin finds is written to the buffer but not noted as got. *)
Login(found) ==
  IF "getlogin_r" \in found THEN "getlogin_r"
  ELSE IF "LOGNAME" \in found THEN "LOGNAME" ELSE None

(* Create's CNAME: the host's name is resolved, or the system's is taken.    *)
CreateCNAME(found, resolve) ==
  /\ created /\ cname = None /\ Login(found) # None
  /\ IF resolve
     THEN /\ localhostname' = HostName /\ told' = told \union {HostName}
          /\ cname' = [login |-> Login(found), host |-> HostName]
     ELSE /\ UNCHANGED <<localhostname, told>>
          /\ cname' = [login |-> Login(found), host |-> SystemName]
  /\ UNCHANGED <<transmitter, interfaces, dns, created, localIPs>>

Transmitters == {"IPv4", "IPv6", "Fake", "External"}
Logins == {"getlogin_r", "getlogin", "LOGNAME"}

Next ==
  \/ NetworkChanges
  \/ \E t \in Transmitters, given, byname \in Interfaces : Create(t, given, byname)
  \/ Destroy
  \/ \E fits \in BOOLEAN : GetLocalHostName(fits)
  \/ \E found \in SUBSET Logins, resolve \in BOOLEAN : CreateCNAME(found, resolve)

Spec == Init /\ [][Next]_vars
-----------------------------------------------------------------------------
HostIDs ==
  IF transmitter = "External" THEN {SystemName}
  ELSE {<<"name", n>> : n \in Dotted} \union {<<"ip", ip>> : ip \in IPs}

TypeOK ==
  /\ transmitter \in IF created THEN Transmitters ELSE {None}
  /\ interfaces \in Interfaces /\ dns \in DNSs /\ created \in BOOLEAN
  /\ localIPs \in Seq(IPs)
  /\ localIPs # << >> <=> created /\ transmitter # "External"
  /\ localhostname \in HostIDs \union {None} /\ told \subseteq HostIDs
  /\ cname # None => created

(* The UDP transmitters collect no name twice, however addresses share names *)
(* and aliases.                                                              *)
NoNameTwice == IsInjective(Hostnames(localIPs, dns))

(* If the name of an address has a dot, a name with a dot is chosen.         *)
DottedIfAny ==
  created /\ (\E ip \in ToSet(localIPs) : dns[ip] # << >> /\ dns[ip][1] \in Dotted) =>
    FoundName(localIPs, dns)[1] = "name"

(* All who ask are told one name, the CNAME's if that was resolved, however  *)
(* often the network changes in between.                                     *)
OneName ==
  /\ told \subseteq {localhostname}
  /\ cname # None => cname.host \in {localhostname, SystemName}

(* Does not hold: a dot in an alias is as good. Aliases after one that is    *)
(* known already are skipped, and all of them if the name is.                *)
DottedIfAnyAlias ==
  created /\ (\E ip \in ToSet(localIPs) : ToSet(dns[ip]) \intersect Dotted # {}) =>
    FoundName(localIPs, dns)[1] = "name"

(* Does not hold: own packets are known by their address. After the network  *)
(* has changed they are not.                                                 *)
OwnPacketsKnown == created => \A ip \in ToSet(interfaces) : ComesFromThisTransmitter(ip)

(* Does not hold: whoever finds a login name uses it. *)
LoginIsEnough == \A found \in SUBSET Logins : found # {} => Login(found) # None

(* Names and addresses. *)
LocalHostInv == TypeOK /\ NoNameTwice /\ DottedIfAny /\ OneName
=============================================================================
