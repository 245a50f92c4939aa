---------------------------- MODULE MCRtpSession ----------------------------
(* Model checking SessionParts: see RtpSession.cfg. *)
EXTENDS SessionParts, TLC
CONSTANTS h1, a, b, lo
MCAddresses == {[host |-> h1, port |-> 0]}
MCLocal == {}
MCRtpInputs == [ssrc : SSRCs, csrc : {NoSSRC}, next : {FALSE}]
MCRtcpItems == [kind : {"report"}, ssrc : SSRCs, name : {NoName}]
MCInterfaces == {<< >>, <<a>>, <<b, a>>, <<a, lo>>}
MCDNSs ==
  {[x \in {a, b, lo} |-> << >>],
   a :> <<1>> @@ b :> <<3, 1>> @@ lo :> <<1, 2>>,
   a :> <<1, 2>> @@ b :> <<1, 3>> @@ lo :> << >>,
   a :> <<2, 2>> @@ b :> <<2, 1>> @@ lo :> <<1>>,
   a :> <<1, 4, 2>> @@ b :> <<4, 3>> @@ lo :> <<1>>}
Perms == Permutations(SSRCs)
=============================================================================
