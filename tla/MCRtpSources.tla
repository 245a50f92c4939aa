---------------------------- MODULE MCRtpSources ----------------------------
(* Model checking RtpSources and SourceQueue: see RtpSources.cfg. *)
EXTENDS SourceQueue, TLC
CONSTANTS h1, h2
MCAddresses == {[host |-> h, port |-> 0] : h \in {h1, h2}}
MCLocal == {[host |-> h1, port |-> 0]}
Perms == Permutations(SSRCs)
=============================================================================
