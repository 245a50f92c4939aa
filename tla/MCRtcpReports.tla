---------------------------- MODULE MCRtcpReports ----------------------------
(* Model checking RtcpReports and RtcpScheduler: see RtcpReports.cfg. *)
EXTENDS RtcpScheduler, TLC
MCItems == <<"name", "tool">>
MCItemLength == ("name" :> 40) @@ ("tool" :> 40)
MCInterval == ("name" :> 1) @@ ("tool" :> 2)
Perms == Permutations(Sources)
=============================================================================
