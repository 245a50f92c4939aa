------------------------ MODULE ExternalTransmitter ------------------------
(* RTPExternalTransmitter of the jrtp library (rtpexternaltransmitter.cpp):  *)
(* packets are injected by a thread of the application, handed over by the   *)
(* thread of the session, and a pipe wakes the latter. Every method holds    *)
(* mainmutex while it runs and is one step, but for the wait and Destroy.    *)
EXTENDS Naturals, Sequences

CONSTANTS Room,            \* bound: packets in the list
          PipeRoom         \* bytes the pipe holds

VARIABLES
  created, rawpacketlist,
  waiter,                  \* the thread in WaitForIncomingData: "no", "select",
                           \* "returned" (select has, mainmutex not yet taken)
  aborted,                 \* whether select found the pipe readable
  pipe,                    \* bytes in the abort pipe
  destroying,              \* Destroy waits for waitmutex
  kept                     \* mainmutex is never given back

vars == <<created, rawpacketlist, waiter, aborted, pipe, destroying, kept>>

Init ==
  /\ created = FALSE /\ destroying = FALSE /\ kept = FALSE
  /\ rawpacketlist = << >>
  /\ waiter = "no" /\ aborted = FALSE /\ pipe = 0

Locks == ~kept          \* of every method
-----------------------------------------------------------------------------
(* Parameters of another protocol, or a pipe that cannot be made, are        *)
(* refused before anything is kept.                                          *)
Create ==
  /\ Locks /\ ~created /\ ~destroying
  /\ created' = TRUE /\ pipe' = 0
  /\ UNCHANGED <<rawpacketlist, waiter, aborted, destroying, kept>>

FlushPackets == rawpacketlist' = << >>

(* AbortWaitInternal: the write blocks when the pipe is full, and so does    *)
(* its caller with mainmutex held; who would read has to take mainmutex.     *)
AbortWaitInternal ==
  IF pipe < PipeRoom THEN pipe' = pipe + 1 /\ kept' = FALSE
                     ELSE pipe' = pipe /\ kept' = TRUE

(* A waiting thread is woken before the pipe is closed.                      *)
Destroy ==
  /\ Locks /\ created
  /\ FlushPackets
  /\ created' = FALSE
  /\ destroying' = (waiter # "no")
  /\ IF waiter = "no" THEN pipe' = 0 /\ kept' = FALSE ELSE AbortWaitInternal
  /\ UNCHANGED <<waiter, aborted>>

DestroyReturns ==
  /\ destroying /\ waiter = "no"
  /\ destroying' = FALSE
  /\ UNCHANGED <<created, rawpacketlist, waiter, aborted, pipe, kept>>
-----------------------------------------------------------------------------
(* Mutant: the thread waits although there are packets. *)
WaitForIncomingDataAlways ==
  /\ Locks /\ created /\ waiter = "no"
  /\ waiter' = "select"
  /\ UNCHANGED <<created, rawpacketlist, aborted, pipe, destroying, kept>>

(* With packets in the list it returns at once, and leaves the pipe alone.   *)
WaitForIncomingData ==
  /\ Locks /\ created /\ waiter = "no"
  /\ waiter' = IF rawpacketlist = << >> THEN "select" ELSE "no"
  /\ UNCHANGED <<created, rawpacketlist, aborted, pipe, destroying, kept>>

(* select returns when the pipe is readable, or after the delay. *)
SelectReturns ==
  /\ waiter = "select"
  /\ waiter' = "returned" /\ aborted' = (pipe > 0)
  /\ UNCHANGED <<created, rawpacketlist, pipe, destroying, kept>>

(* The rest, with mainmutex: every byte is read, if select found one. *)
WaitReturns ==
  /\ Locks /\ waiter = "returned"
  /\ waiter' = "no" /\ aborted' = FALSE
  /\ pipe' = IF created /\ aborted THEN 0 ELSE pipe
  /\ UNCHANGED <<created, rawpacketlist, destroying, kept>>

AbortWait ==
  /\ Locks /\ created /\ waiter # "no"
  /\ AbortWaitInternal
  /\ UNCHANGED <<created, rawpacketlist, waiter, aborted, destroying>>
-----------------------------------------------------------------------------
(* InjectRTP, InjectRTCP and InjectRTPorRTCP, which looks at the packet type *)
(* to find out; the thread is woken whether or not it waits.                 *)
Inject(kind) ==
  /\ Locks /\ created /\ Len(rawpacketlist) < Room
  /\ rawpacketlist' = Append(rawpacketlist, kind)
  /\ AbortWaitInternal
  /\ UNCHANGED <<created, waiter, aborted, destroying>>

(* A copy, or the packet, cannot be allocated: the method returns without    *)
(* giving mainmutex back.                                                    *)
InjectFails ==
  /\ Locks /\ created
  /\ kept' = TRUE
  /\ UNCHANGED <<created, rawpacketlist, waiter, aborted, pipe, destroying>>

GetNextPacket ==
  /\ Locks /\ created /\ rawpacketlist # << >>
  /\ rawpacketlist' = Tail(rawpacketlist)
  /\ UNCHANGED <<created, waiter, aborted, pipe, destroying, kept>>

(* Sending only looks at the size and calls the sender, Poll does nothing;   *)
(* destinations, groups, lists and other receive modes are refused.          *)

(* Not a call: once mainmutex is kept every other call waits for it. *)
Stuck == kept /\ waiter # "select" /\ ~(destroying /\ waiter = "no") /\ UNCHANGED vars

Next ==
  \/ Create \/ Destroy \/ DestroyReturns
  \/ WaitForIncomingData \/ SelectReturns \/ WaitReturns \/ AbortWait
  \/ \E kind \in {"rtp", "rtcp"} : Inject(kind)
  \/ InjectFails \/ GetNextPacket \/ Stuck

Spec == Init /\ [][Next]_vars
-----------------------------------------------------------------------------
TypeOK ==
  /\ created \in BOOLEAN /\ destroying \in BOOLEAN /\ kept \in BOOLEAN
  /\ rawpacketlist \in Seq({"rtp", "rtcp"}) /\ Len(rawpacketlist) <= Room
  /\ waiter \in {"no", "select", "returned"} /\ aborted \in BOOLEAN
  /\ pipe \in 0 .. PipeRoom

(* No packet waits in the list while the thread sleeps: there is always a    *)
(* byte in the pipe that wakes it, however injecting, taking packets, and    *)
(* waits that time out follow each other.                                    *)
NothingWaitsUnnoticed ==
  waiter = "select" /\ created /\ rawpacketlist # << >> => pipe > 0

(* Does not hold: mainmutex is always given back. A session that only polls, *)
(* or whose thread always finds packets, never reads the bytes, until a      *)
(* write blocks; and a failed allocation returns with the lock held.         *)
AlwaysUnlocked == ~kept

(* The types, and no packet unnoticed. *)
ExternalTransmitterInv == TypeOK /\ NothingWaitsUnnoticed
=============================================================================
