-------------------------- MODULE MCUdpTransmitter --------------------------
(* Transmitter with constants for TLC. All keys share a bucket, so that      *)
(* elements are deleted from every place of a chain.                         *)
EXTENDS Transmitter

CONSTANTS h1, h2, g1, d1, d2, d3, p1, p2

MCIPs          == {h1, h2}
MCPorts        == {p1, p2}
MCGroups       == {g1}
MCDestinations == {d1, d2, d3}
MCKeys         == MCIPs \union MCGroups \union MCDestinations
MCBucket       == [k \in MCKeys |-> 1]
MCSymmetry     == Permutations(MCIPs) \union Permutations(MCPorts)
                    \union Permutations(MCDestinations)
=============================================================================
