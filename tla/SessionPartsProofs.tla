------------------------- MODULE SessionPartsProofs -------------------------
(* Proofs about SessionParts: about how the session is set up and resized    *)
(* (SessionSetup) for any sizes, about its threads (RtpSession) for any      *)
(* SSRCs, addresses and packets, about the packets it builds (RtpPackets)    *)
(* for any CSRCs, sizes and increments, and about the host's name            *)
(* (LocalHost) for any interfaces and names.                                 *)
EXTENDS SessionParts, SequenceTheorems, FiniteSetTheorems, WellFoundedInduction, TLAPS

(* How the session is set up.                                                *)

OwnParts == {"transmitter", "rtpsock", "rtcpsock", "pipe"}
Kept == IF deletetransmitter THEN OwnParts ELSE {}
Sending == {"packetbuilder", "ownssrc", "rtcpbuilder", "pollthread"}

(* What is held follows from how far Create has come.                        *)
HeldInv ==
  /\ step = "idle" /\ ~created => held = {}
  /\ step = "rtpsock" => held = {"transmitter"}
  /\ step = "rtcpsock" => held = {"transmitter", "rtpsock"}
  /\ step \in {"bind", "pipe"} => held = {"transmitter", "rtpsock", "rtcpsock"}
  /\ step = "size" => held = OwnParts
  /\ step = "packetbuilder" => held = Kept
  /\ step = "ownssrc" => held = Kept \union {"packetbuilder"}
  /\ step \in {"mode", "rtcpbuilder"} => held = Kept \union {"packetbuilder", "ownssrc"}
  /\ step \in {"scheduler", "pollthread"} =>
       held = Kept \union {"packetbuilder", "ownssrc", "rtcpbuilder"}
  /\ step = "created" \/ created => held = Kept \union Sending
  /\ created <=> step \in {"resize", "restore"} \/ (step = "idle" /\ created)

SizeKnown == {"packetbuilder", "ownssrc", "mode",
              "rtcpbuilder", "scheduler", "pollthread", "created"}

(* So do the sizes. While the size is changed the transmitter has the new    *)
(* one and the builders have the old; unless it is lowered, what the         *)
(* builders make and what the poll thread has built passes the transmitter.  *)
SizesInv ==
  /\ step \in {"rtpsock", "rtcpsock", "bind", "pipe", "size"} => maxpacksize = askedsize
  /\ step \in SizeKnown => maxpacksize = askedsize /\ transsize[Setup!trans] = askedsize
  /\ step \in SizeKnown \ {"packetbuilder"} => buildersize = maxpacksize
  /\ step \in {"scheduler", "pollthread", "created"} => rtcpsize = maxpacksize
  /\ created => buildersize = maxpacksize /\ rtcpsize = maxpacksize
  /\ created /\ step = "idle" => transsize[Setup!trans] = maxpacksize
  /\ step \in {"resize", "restore"} => transsize[Setup!trans] = askedsize
  /\ step \in {"resize", "restore"} /\ ~lowered => maxpacksize <= askedsize
  /\ pollthread # "no" => created \/ step = "created"
  /\ pollthread = "send" /\ ~lowered => report <= maxpacksize
  /\ refused => lowered

SetupIInv == Setup!TypeOK /\ HeldInv /\ SizesInv

LEMMA SetupInit == Setup!Init => SetupIInv
BY SetupAssumption DEF Setup!Init, SetupIInv, Setup!TypeOK, HeldInv, SizesInv, Setup!Parts,
   Setup!Transmitters, SizeKnown, Setup!trans

LEMMA SetupType == Setup!TypeOK /\ HeldInv /\ [Setup!Next]_(Setup!vars) => Setup!TypeOK'
<1> SUFFICES ASSUME Setup!TypeOK, HeldInv, [Setup!Next]_(Setup!vars) PROVE Setup!TypeOK' OBVIOUS
<1> USE DEF Setup!TypeOK, Setup!Parts, Setup!Transmitters, Setup!sizes, Setup!history,
            Setup!OnlyParts, Setup!Go, Setup!Fail
<1>1. ASSUME NEW size \in Sizes, Setup!CreateOwnTransmitter(size) PROVE Setup!TypeOK'
  BY <1>1 DEF Setup!CreateOwnTransmitter, Setup!trans
<1>2. ASSUME NEW size \in Sizes, Setup!UseUsersTransmitter(size) PROVE Setup!TypeOK'
  BY <1>2 DEF Setup!UseUsersTransmitter, Setup!trans
<1>3. ASSUME NEW size \in Sizes, Setup!SetMaximumPacketSize(size) PROVE Setup!TypeOK'
  BY <1>3 DEF Setup!SetMaximumPacketSize, Setup!trans
<1>4. ASSUME NEW size \in Sizes, Setup!SendPacket(size) PROVE Setup!TypeOK'
  BY <1>4 DEF Setup!SendPacket, Setup!trans
<1>5. CASE Setup!RTPSocket BY <1>5 DEF Setup!RTPSocket, Setup!trans
<1>6. CASE Setup!RTCPSocket BY <1>6 DEF Setup!RTCPSocket, Setup!trans
<1>7. CASE Setup!OptionsAndBind BY <1>7 DEF Setup!OptionsAndBind, Setup!trans
<1>8. CASE Setup!CreateAbortDescriptors BY <1>8 DEF Setup!CreateAbortDescriptors, Setup!trans
<1>9. CASE Setup!CheckSize BY <1>9 DEF Setup!CheckSize, Setup!trans
<1>10. CASE Setup!InitPacketBuilder BY <1>10 DEF Setup!InitPacketBuilder, Setup!trans
<1>11. CASE Setup!CreateOwnSSRC BY <1>11 DEF Setup!CreateOwnSSRC, Setup!trans
<1>12. CASE Setup!ReceiveModeAndCNAME BY <1>12 DEF Setup!ReceiveModeAndCNAME, Setup!trans
<1>13. CASE Setup!InitRTCPBuilder BY <1>13 DEF Setup!InitRTCPBuilder, Setup!trans
<1>14. CASE Setup!Scheduler BY <1>14 DEF Setup!Scheduler, Setup!trans
<1>15. CASE Setup!StartPollThread BY <1>15 DEF Setup!StartPollThread, Setup!trans
<1>16. CASE Setup!Created BY <1>16 DEF Setup!Created, Setup!trans
<1>17. CASE Setup!Destroy BY <1>17 DEF Setup!Destroy, Setup!trans
<1>18. CASE Setup!ResizeBuilders BY <1>18 DEF Setup!ResizeBuilders, Setup!trans
<1>19. CASE Setup!ResizeFails BY <1>19 DEF Setup!ResizeFails, Setup!trans
<1>20. CASE Setup!RestoreTransmitter BY <1>20 DEF Setup!RestoreTransmitter, Setup!trans
<1>21. CASE Setup!BuildReport BY <1>21 DEF Setup!BuildReport, Setup!trans
<1>22. CASE Setup!SendReport BY <1>22 DEF Setup!SendReport, Setup!trans
<1>23. CASE UNCHANGED Setup!vars BY <1>23 DEF Setup!vars
<1> QED BY <1>1, <1>2, <1>3, <1>4, <1>5, <1>6, <1>7, <1>8, <1>9, <1>10, <1>11, <1>12, <1>13,
           <1>14, <1>15, <1>16, <1>17, <1>18, <1>19, <1>20, <1>21, <1>22, <1>23 DEF Setup!Next

LEMMA SetupHeld == Setup!TypeOK /\ HeldInv /\ [Setup!Next]_(Setup!vars) => HeldInv'
<1> SUFFICES ASSUME Setup!TypeOK, HeldInv, [Setup!Next]_(Setup!vars) PROVE HeldInv' OBVIOUS
<1> USE SetupAssumption DEF Setup!TypeOK, Setup!Parts, Setup!Transmitters, Setup!sizes,
                            Setup!history,
            Setup!OnlyParts, Setup!Go, Setup!Fail, Setup!trans, HeldInv, Kept, OwnParts,
              Sending, Setup!OwnTransmitter
<1>1. ASSUME NEW size \in Sizes, Setup!CreateOwnTransmitter(size) PROVE HeldInv'
  BY <1>1 DEF Setup!CreateOwnTransmitter
<1>2. ASSUME NEW size \in Sizes, Setup!UseUsersTransmitter(size) PROVE HeldInv'
  BY <1>2 DEF Setup!UseUsersTransmitter
<1>3. ASSUME NEW size \in Sizes, Setup!SetMaximumPacketSize(size) PROVE HeldInv'
  BY <1>3 DEF Setup!SetMaximumPacketSize
<1>4. ASSUME NEW size \in Sizes, Setup!SendPacket(size) PROVE HeldInv'
  BY <1>4 DEF Setup!SendPacket
<1>5. CASE Setup!RTPSocket BY <1>5 DEF Setup!RTPSocket
<1>6. CASE Setup!RTCPSocket BY <1>6 DEF Setup!RTCPSocket
<1>7. CASE Setup!OptionsAndBind BY <1>7 DEF Setup!OptionsAndBind
<1>8. CASE Setup!CreateAbortDescriptors BY <1>8 DEF Setup!CreateAbortDescriptors
<1>9. CASE Setup!CheckSize BY <1>9 DEF Setup!CheckSize
<1>10. CASE Setup!InitPacketBuilder BY <1>10 DEF Setup!InitPacketBuilder
<1>11. CASE Setup!CreateOwnSSRC BY <1>11 DEF Setup!CreateOwnSSRC
<1>12. CASE Setup!ReceiveModeAndCNAME BY <1>12 DEF Setup!ReceiveModeAndCNAME
<1>13. CASE Setup!InitRTCPBuilder BY <1>13 DEF Setup!InitRTCPBuilder
<1>14. CASE Setup!Scheduler BY <1>14 DEF Setup!Scheduler
<1>15. CASE Setup!StartPollThread BY <1>15 DEF Setup!StartPollThread
<1>16. CASE Setup!Created BY <1>16 DEF Setup!Created
<1>17. CASE Setup!Destroy BY <1>17 DEF Setup!Destroy
<1>18. CASE Setup!ResizeBuilders BY <1>18 DEF Setup!ResizeBuilders
<1>19. CASE Setup!ResizeFails BY <1>19 DEF Setup!ResizeFails
<1>20. CASE Setup!RestoreTransmitter BY <1>20 DEF Setup!RestoreTransmitter
<1>21. CASE Setup!BuildReport BY <1>21 DEF Setup!BuildReport
<1>22. CASE Setup!SendReport BY <1>22 DEF Setup!SendReport
<1>23. CASE UNCHANGED Setup!vars BY <1>23 DEF Setup!vars
<1> QED BY <1>1, <1>2, <1>3, <1>4, <1>5, <1>6, <1>7, <1>8, <1>9, <1>10, <1>11, <1>12, <1>13,
           <1>14, <1>15, <1>16, <1>17, <1>18, <1>19, <1>20, <1>21, <1>22, <1>23 DEF Setup!Next

LEMMA SetupSizes == Setup!TypeOK /\ HeldInv /\ SizesInv /\ [Setup!Next]_(Setup!vars) => SizesInv'
<1> SUFFICES ASSUME Setup!TypeOK, HeldInv, SizesInv, [Setup!Next]_(Setup!vars)
               PROVE SizesInv' OBVIOUS
<1> USE SetupAssumption DEF Setup!TypeOK, Setup!Parts, Setup!Transmitters, Setup!sizes,
                            Setup!history,
            Setup!OnlyParts, Setup!Go, Setup!Fail, Setup!trans, HeldInv, SizesInv, SizeKnown
<1>0. /\ askedsize \in Nat /\ maxpacksize \in Nat /\ report \in Nat /\ buildersize \in Nat
      /\ transsize[Setup!trans] \in Nat /\ \A size \in Sizes : size \in Nat
      /\ MaxSize \in Nat /\ lowered \in BOOLEAN
  OBVIOUS
<1>1. ASSUME NEW size \in Sizes, Setup!CreateOwnTransmitter(size) PROVE SizesInv'
  BY <1>1 DEF Setup!CreateOwnTransmitter
<1>2. ASSUME NEW size \in Sizes, Setup!UseUsersTransmitter(size) PROVE SizesInv'
  BY <1>2 DEF Setup!UseUsersTransmitter
<1>3. ASSUME NEW size \in Sizes, Setup!SetMaximumPacketSize(size) PROVE SizesInv'
  <2>1. created /\ step = "idle" /\ askedsize' = size
        /\ UNCHANGED <<created, deletetransmitter, maxpacksize, buildersize, rtcpsize,
                       pollthread, report, refused>>
        /\ lowered' = (lowered \/ (size <= MaxSize /\ size < maxpacksize))
    BY <1>3 DEF Setup!SetMaximumPacketSize
  <2>2. CASE size > MaxSize
    <3>1. step' = step /\ transsize' = transsize /\ lowered' = lowered
      BY <1>0, <1>3, <2>1, <2>2 DEF Setup!SetMaximumPacketSize
    <3> QED BY <2>1, <3>1
  <2>3. CASE ~(size > MaxSize)
    <3>1. step' = "resize" /\ transsize'[Setup!trans] = size
      BY <1>3, <2>3 DEF Setup!SetMaximumPacketSize
    <3>2. size \in Nat /\ size <= MaxSize BY <1>0, <2>3
    <3>3. CASE size < maxpacksize
      <4>1. lowered' BY <2>1, <3>2, <3>3
      <4> QED BY <1>0, <2>1, <3>1, <4>1
    <3>4. CASE ~(size < maxpacksize)
      <4>1. maxpacksize <= size BY <1>0, <3>2, <3>4
      <4>2. lowered' = lowered BY <1>0, <2>1, <3>4
      <4> QED BY <1>0, <2>1, <3>1, <4>1, <4>2
    <3> QED BY <3>3, <3>4
  <2> QED BY <2>2, <2>3
<1>4. ASSUME NEW size \in Sizes, Setup!SendPacket(size) PROVE SizesInv'
  <2>1. created /\ size <= buildersize /\ refused' = (refused \/ size > transsize[Setup!trans])
        /\ UNCHANGED <<created, deletetransmitter, step, askedsize, maxpacksize, transsize,
                       buildersize, rtcpsize, pollthread, report, lowered>>
    BY <1>4 DEF Setup!SendPacket
  <2>2. ~lowered => maxpacksize <= transsize[Setup!trans] BY <1>0, <2>1
  <2>3. buildersize = maxpacksize BY <2>1
  <2>4. refused' => lowered BY <1>0, <2>1, <2>2, <2>3
  <2> QED BY <2>1, <2>4
<1>5. CASE Setup!RTPSocket BY <1>5 DEF Setup!RTPSocket
<1>6. CASE Setup!RTCPSocket BY <1>6 DEF Setup!RTCPSocket
<1>7. CASE Setup!OptionsAndBind BY <1>7 DEF Setup!OptionsAndBind
<1>8. CASE Setup!CreateAbortDescriptors BY <1>8 DEF Setup!CreateAbortDescriptors
<1>9. CASE Setup!CheckSize BY <1>9 DEF Setup!CheckSize
<1>10. CASE Setup!InitPacketBuilder BY <1>10 DEF Setup!InitPacketBuilder
<1>11. CASE Setup!CreateOwnSSRC BY <1>11 DEF Setup!CreateOwnSSRC
<1>12. CASE Setup!ReceiveModeAndCNAME BY <1>12 DEF Setup!ReceiveModeAndCNAME
<1>13. CASE Setup!InitRTCPBuilder BY <1>13 DEF Setup!InitRTCPBuilder
<1>14. CASE Setup!Scheduler BY <1>14 DEF Setup!Scheduler
<1>15. CASE Setup!StartPollThread BY <1>15 DEF Setup!StartPollThread
<1>16. CASE Setup!Created BY <1>16 DEF Setup!Created
<1>17. CASE Setup!Destroy BY <1>17 DEF Setup!Destroy
<1>18. CASE Setup!ResizeBuilders
  <2>1. /\ step = "resize" /\ step' = "idle" /\ created
        /\ buildersize' = askedsize /\ rtcpsize' = askedsize /\ maxpacksize' = askedsize
        /\ UNCHANGED <<created, deletetransmitter, askedsize, transsize, pollthread, report,
                       refused, lowered>>
    BY <1>18 DEF Setup!ResizeBuilders
  <2>2. pollthread = "send" /\ ~lowered => report <= askedsize
    BY <1>0, <2>1
  <2> QED BY <2>1, <2>2
<1>19. CASE Setup!ResizeFails BY <1>19 DEF Setup!ResizeFails
<1>20. CASE Setup!RestoreTransmitter BY <1>20 DEF Setup!RestoreTransmitter
<1>21. CASE Setup!BuildReport BY <1>21 DEF Setup!BuildReport
<1>22. CASE Setup!SendReport
  <2>1. /\ pollthread = "send" /\ pollthread' \in {"error", "wait"}
        /\ refused' = (refused \/ report > transsize[Setup!trans])
        /\ UNCHANGED <<created, deletetransmitter, step, askedsize, maxpacksize, transsize,
                       buildersize, rtcpsize, report, lowered>>
    BY <1>22 DEF Setup!SendReport
  <2>2. ~lowered => report <= maxpacksize /\ maxpacksize <= transsize[Setup!trans]
    BY <1>0, <2>1
  <2>3. refused' => lowered BY <1>0, <2>1, <2>2
  <2> QED BY <2>1, <2>3
<1>23. CASE UNCHANGED Setup!vars BY <1>23 DEF Setup!vars
<1> QED BY <1>1, <1>2, <1>3, <1>4, <1>5, <1>6, <1>7, <1>8, <1>9, <1>10, <1>11, <1>12, <1>13,
           <1>14, <1>15, <1>16, <1>17, <1>18, <1>19, <1>20, <1>21, <1>22, <1>23 DEF Setup!Next

LEMMA SetupNext == SetupIInv /\ [Setup!Next]_(Setup!vars) => SetupIInv'
BY SetupType, SetupHeld, SetupSizes DEF SetupIInv

(* What holds of the parts and sizes follows.                                *)
LEMMA SetupHolds == SetupIInv => SetupInv
<1> SUFFICES ASSUME SetupIInv PROVE SetupInv OBVIOUS
<1>1. Setup!TypeOK /\ HeldInv /\ SizesInv BY DEF SetupIInv
<1>2. Setup!NothingLeft BY <1>1 DEF HeldInv, Setup!NothingLeft
<1>3. Setup!HasItsParts
  BY <1>1 DEF HeldInv, Setup!HasItsParts, Kept, OwnParts, Sending, Setup!Parts
<1>4. Setup!SizesAgree BY <1>1 DEF SizesInv, Setup!SizesAgree
<1>5. Setup!RefusedOnlyIfLowered BY <1>1 DEF SizesInv, Setup!RefusedOnlyIfLowered
<1> QED BY <1>1, <1>2, <1>3, <1>4, <1>5 DEF SetupInv, Setup!SessionSetupInv

(* Whichever step of Create fails, whatever the sizes asked for and however  *)
(* the threads interleave with a change of the size: nothing is left open, a *)
(* created session has all its parts, its sizes agree between calls, and no  *)
(* packet is refused as too big unless the size was lowered.                 *)
THEOREM SetUp == PSpec => []SetupInv
<1>1. PInit => SetupIInv BY SetupInit DEF PInit
<1>2. SetupIInv /\ [PNext]_pvars => SetupIInv'
  <2> SUFFICES ASSUME SetupIInv, [PNext]_pvars PROVE SetupIInv' OBVIOUS
  <2>1. [Setup!Next]_(Setup!vars)
    BY DEF PNext, pvars, setupvars, Setup!vars, Setup!sizes, Setup!history
  <2> QED BY <2>1, SetupNext
<1> QED BY <1>1, <1>2, SetupHolds, PTL DEF PSpec
-----------------------------------------------------------------------------
(* The threads. What is proved of a source table in RtpSourcesProofs is used *)
(* for the table the threads share: between the BYE and the new SSRC the     *)
(* address of the collision is not yet counted, as in OneAtATime.            *)

Changing == {"bye", "newssrc", "switch"}
Settled == IF poll \in Changing THEN collisions \ {incoming.from} ELSE collisions

RS == INSTANCE RtpSourcesProofs WITH collisions <- Settled

(* The operators on tables are those of RtpSourceTable in either instance.   *)
LEMMA SameEntries ==
  \A t : Table!Entries(t) = Entries(t) /\ RS!Entries(t) = Entries(t)
BY DEF Entries, Table!Entries, RS!Entries

LEMMA SameIsActive ==
  \A s : Table!IsActive(s) = IsActive(s) /\ RS!IsActive(s) = IsActive(s)
BY DEF IsActive, Table!IsActive, RS!IsActive

LEMMA SamePut ==
  \A f, x, s : Table!Put(f, x, s) = Put(f, x, s) /\ RS!Put(f, x, s) = Put(f, x, s)
BY DEF Put, Table!Put, RS!Put

LEMMA SameKnown ==
  \A t, x : Table!Known(t, x) = Known(t, x) /\ RS!Known(t, x) = Known(t, x)
BY SameEntries DEF Known, Table!Known, RS!Known, NewSource, Table!NewSource, RS!NewSource

LEMMA SameCheckCollision ==
  \A s, a, r :
       /\ Table!CheckCollision(s, a, r) = CheckCollision(s, a, r)
       /\ RS!CheckCollision(s, a, r) = CheckCollision(s, a, r)
BY DEF CheckCollision, Table!CheckCollision, RS!CheckCollision, SameHost, Table!SameHost,
       RS!SameHost

LEMMA SameStoreAddress ==
  \A s, a, r :
       /\ Table!StoreAddress(s, a, r) = StoreAddress(s, a, r)
       /\ RS!StoreAddress(s, a, r) = StoreAddress(s, a, r)
BY DEF StoreAddress, Table!StoreAddress, RS!StoreAddress

LEMMA SameProcessPacket ==
  \A s, n :
       /\ Table!ProcessPacket(s, n) = ProcessPacket(s, n)
       /\ RS!ProcessPacket(s, n) = ProcessPacket(s, n)
BY DEF ProcessPacket, Table!ProcessPacket, RS!ProcessPacket, Accept, Table!Accept, RS!Accept

LEMMA SameStore == \A t, x, s :
     /\ Table!Store(t, x, s) = Store(t, x, s)
     /\ RS!Store(t, x, s) = Store(t, x, s)
<1> SUFFICES ASSUME NEW t, NEW x, NEW s
             PROVE  Table!Store(t, x, s) = Store(t, x, s) /\ RS!Store(t, x, s) = Store(t, x, s)
  OBVIOUS
<1>1. Table!One(x \notin Table!Entries(t)) = One(x \notin Entries(t))
  BY SameEntries DEF Table!One, One
<1>2. Table!One(s.sender /\ ~Table!Known(t, x).sender) = One(s.sender /\ ~Known(t, x).sender)
  BY SameKnown DEF Table!One, One
<1>3. Table!One(Table!IsActive(s) /\ ~Table!IsActive(Table!Known(t, x)))
       = One(IsActive(s) /\ ~IsActive(Known(t, x)))
  BY SameKnown DEF Table!One, One, Table!IsActive, IsActive
<1>4. Table!One(Table!IsActive(Table!Known(t, x)) /\ ~Table!IsActive(s))
       = One(IsActive(Known(t, x)) /\ ~IsActive(s))
  BY SameKnown DEF Table!One, One, Table!IsActive, IsActive
<1>5. Table!Store(t, x, s) = Store(t, x, s)
  BY <1>1, <1>2, <1>3, <1>4, SamePut DEF Table!Store, Store
<1>6. RS!One(x \notin RS!Entries(t)) = One(x \notin Entries(t))
  BY SameEntries DEF RS!One, One
<1>7. RS!One(s.sender /\ ~RS!Known(t, x).sender) = One(s.sender /\ ~Known(t, x).sender)
  BY SameKnown DEF RS!One, One
<1>8. RS!One(RS!IsActive(s) /\ ~RS!IsActive(RS!Known(t, x)))
       = One(IsActive(s) /\ ~IsActive(Known(t, x)))
  BY SameKnown DEF RS!One, One, RS!IsActive, IsActive
<1>9. RS!One(RS!IsActive(RS!Known(t, x)) /\ ~RS!IsActive(s))
       = One(IsActive(Known(t, x)) /\ ~IsActive(s))
  BY SameKnown DEF RS!One, One, RS!IsActive, IsActive
<1>10. RS!Store(t, x, s) = Store(t, x, s)
  BY <1>6, <1>7, <1>8, <1>9, SamePut DEF RS!Store, Store
<1> QED BY <1>5, <1>10

LEMMA SameProcessCSRC ==
  \A r, x, a :
       /\ Table!ProcessCSRC(r, x, a) = ProcessCSRC(r, x, a)
       /\ RS!ProcessCSRC(r, x, a) = ProcessCSRC(r, x, a)
<1>1. \A r, x, a : Table!ProcessCSRC(r, x, a) = ProcessCSRC(r, x, a)
  BY SameKnown, SameEntries, SameStore, SameCheckCollision, SamePut, SameStoreAddress
  DEF ProcessCSRC, Table!ProcessCSRC
<1>2. \A r, x, a : RS!ProcessCSRC(r, x, a) = ProcessCSRC(r, x, a)
  BY SameKnown, SameEntries, SameStore, SameCheckCollision, SamePut, SameStoreAddress
  DEF ProcessCSRC, RS!ProcessCSRC
<1> QED BY <1>1, <1>2

LEMMA SameProcessRTPPacket ==
  \A t, p, a : /\ Table!ProcessRTPPacket(t, p, a) = ProcessRTPPacket(t, p, a)
               /\ RS!ProcessRTPPacket(t, p, a) = ProcessRTPPacket(t, p, a)
<1> SUFFICES ASSUME NEW t, NEW p, NEW a
             PROVE  /\ Table!ProcessRTPPacket(t, p, a) = ProcessRTPPacket(t, p, a)
                    /\ RS!ProcessRTPPacket(t, p, a) = ProcessRTPPacket(t, p, a)
  OBVIOUS
<1> DEFINE s == Known(t, p.ssrc)
           new == ProcessPacket(StoreAddress(s, a, TRUE), p.next)
           r == NoCollision(Store(t, p.ssrc, new))
<1>1. Table!Known(t, p.ssrc) = s BY SameKnown
<1>2. Table!ProcessPacket(Table!StoreAddress(s, a, TRUE), p.next) = new
  BY SameProcessPacket, SameStoreAddress
<1>3. Table!NoCollision(Table!Store(t, p.ssrc, new)) = r
  BY SameStore DEF Table!NoCollision, NoCollision
<1>4. /\ Table!CheckCollision(s, a, TRUE) = CheckCollision(s, a, TRUE)
       /\ Table!Entries(t) = Entries(t) /\ Table!Collision(t, s) = Collision(t, s)
  BY SameCheckCollision, SameEntries DEF Table!Collision, Collision
<1>5. Table!ProcessRTPPacket(t, p, a) = ProcessRTPPacket(t, p, a)
  BY <1>1, <1>2, <1>3, <1>4, SameProcessCSRC
     DEF Table!ProcessRTPPacket, ProcessRTPPacket
<1>6. RS!Known(t, p.ssrc) = s BY SameKnown
<1>7. RS!ProcessPacket(RS!StoreAddress(s, a, TRUE), p.next) = new
  BY SameProcessPacket, SameStoreAddress
<1>8. RS!NoCollision(RS!Store(t, p.ssrc, new)) = r
  BY SameStore DEF RS!NoCollision, NoCollision
<1>9. /\ RS!CheckCollision(s, a, TRUE) = CheckCollision(s, a, TRUE)
       /\ RS!Entries(t) = Entries(t) /\ RS!Collision(t, s) = Collision(t, s)
  BY SameCheckCollision, SameEntries DEF RS!Collision, Collision
<1>10. RS!ProcessRTPPacket(t, p, a) = ProcessRTPPacket(t, p, a)
  BY <1>6, <1>7, <1>8, <1>9, SameProcessCSRC
     DEF RS!ProcessRTPPacket, ProcessRTPPacket
<1> QED BY <1>5, <1>10

LEMMA SameAfter ==
  \A s, i : Table!After(s, i) = After(s, i) /\ RS!After(s, i) = After(s, i)
BY DEF After, Table!After, RS!After, SetCNAME, Table!SetCNAME, RS!SetCNAME

LEMMA SameProcessItem ==
  \A t, i, a :
       /\ Table!ProcessItem(t, i, a) = ProcessItem(t, i, a)
       /\ RS!ProcessItem(t, i, a) = ProcessItem(t, i, a)
<1>1. \A t, i, a : Table!ProcessItem(t, i, a) = ProcessItem(t, i, a)
  BY SameKnown, SameEntries, SameCheckCollision, SameStore, SameAfter,
     SameStoreAddress
  DEF ProcessItem, Table!ProcessItem, Collision, Table!Collision, NoCollision, Table!NoCollision
<1>2. \A t, i, a : RS!ProcessItem(t, i, a) = ProcessItem(t, i, a)
  BY SameKnown, SameEntries, SameCheckCollision, SameStore, SameAfter,
     SameStoreAddress
  DEF ProcessItem, RS!ProcessItem, Collision, RS!Collision, NoCollision, RS!NoCollision
<1> QED BY <1>1, <1>2

LEMMA SameDropped ==
  \A from : Table!Dropped(from) = Dropped(from) /\ RS!Dropped(from) = Dropped(from)
BY DEF Dropped, Table!Dropped, RS!Dropped

LEMMA SameSenderAddress ==
  \A from :
       /\ Table!SenderAddress(from) = SenderAddress(from)
       /\ RS!SenderAddress(from) = SenderAddress(from)
BY DEF SenderAddress, Table!SenderAddress, RS!SenderAddress

LEMMA SameCreateOwnSSRC ==
  \A t, x :
       /\ Table!CreateOwnSSRC(t, x) = CreateOwnSSRC(t, x)
       /\ RS!CreateOwnSSRC(t, x) = CreateOwnSSRC(t, x)
BY SameEntries, SamePut
DEF CreateOwnSSRC, Table!CreateOwnSSRC, RS!CreateOwnSSRC, OwnSource, Table!OwnSource,
    RS!OwnSource, NewSource, Table!NewSource, RS!NewSource

LEMMA SameDeleteOwnSSRC ==
  \A t : Table!DeleteOwnSSRC(t) = DeleteOwnSSRC(t) /\ RS!DeleteOwnSSRC(t) = DeleteOwnSSRC(t)
BY DEF DeleteOwnSSRC, Table!DeleteOwnSSRC, RS!DeleteOwnSSRC, Without, Table!Without,
       RS!Without, One, Table!One, RS!One, IsActive, Table!IsActive, RS!IsActive

LEMMA SameSentRTPPacket ==
  \A t : Table!SentRTPPacket(t) = SentRTPPacket(t) /\ RS!SentRTPPacket(t) = SentRTPPacket(t)
BY SamePut DEF SentRTPPacket, Table!SentRTPPacket, RS!SentRTPPacket, One, Table!One, RS!One

LEMMA SameMultipleTimeouts ==
  \A t, silent, quiet, left :
       /\ Table!MultipleTimeouts(t, silent, quiet, left)
            = MultipleTimeouts(t, silent, quiet, left)
       /\ RS!MultipleTimeouts(t, silent, quiet, left)
            = MultipleTimeouts(t, silent, quiet, left)
BY DEF MultipleTimeouts, Table!MultipleTimeouts, RS!MultipleTimeouts, Entries,
       Table!Entries, RS!Entries, IsActive, Table!IsActive, RS!IsActive, Cardinality,
       Table!Cardinality, RS!Cardinality

-----------------------------------------------------------------------------
InTable == {"packets", "items", "analysed", "rtcp"} \union Changing
InPacket == {"items", "analysed"} \union Changing

Scalars ==
  /\ ssrc \in SSRCs /\ byepackets \in Seq(SSRCs) /\ collisions \subseteq Addresses
  /\ sentpackets \in BOOLEAN /\ byescheduled \in BOOLEAN
  /\ poll \in {"loop", "wait", "select", "process", "packets", "items", "analysed", "bye",
               "newssrc", "switch", "rtcp", "step", "again", "stopped", "killed"}
  /\ queue \in {"idle", "build", "built", "sent"}
  /\ main \in {"idle", "app", "abort", "join", "bye", "byes", "destroyed"}
  /\ stop \in BOOLEAN /\ abort \in BOOLEAN /\ appssrc \in SSRCs \union {NoSSRC}
  /\ wire \in [SSRCs -> {"nothing", "data", "bye", "late"}] /\ lostbye \in BOOLEAN

(* Who holds the locks and which packet is worked on follows from where the  *)
(* threads are. *)
WhereInv ==
  /\ sources = IF poll \in InTable THEN "poll" ELSE Nobody
  /\ builder = IF queue = "build" THEN "queue" ELSE Nobody
  /\ incoming \in [rtp : BOOLEAN, from : Addresses \union {Unset}, own : BOOLEAN]
  /\ IF poll \in InPacket THEN incoming.from \in Addresses ELSE incoming = NoPacket
  /\ poll = "items" => ~incoming.rtp
  /\ poll \in Changing => incoming.own /\ incoming.from \in collisions
  /\ main \in {"bye", "byes", "destroyed"} => poll \in {"stopped", "killed"}
  /\ main \notin {"idle", "app"} => queue = "idle"
  /\ main = "destroyed" => poll = "stopped"
  /\ main = "app" => appssrc \in SSRCs

(* The table is as it is in RtpSources, and the builder's SSRC is the one of *)
(* our entry but for the moment of the change, when it is not in the table;  *)
(* if the change fails, the table has no entry of ours from then on.         *)
OwnInv ==
  IF main = "destroyed" THEN table = EmptyTable
  ELSE \/ /\ RS!TableInv(table)
          /\ IF poll = "switch" THEN ssrc \notin Entries(table) ELSE ssrc = table.own
       \/ poll = "stopped" /\ RS!Ownerless(table)

(* No BYE was sent for our SSRC, and none waits but while it is changed. *)
ByeInv ==
  /\ byescheduled => byepackets # << >>
  /\ byepackets # << >> => byescheduled \/ (lostbye /\ poll = "stopped")
  /\ main \notin {"byes", "destroyed"} =>
       /\ wire[ssrc] \notin {"bye", "late"}
       /\ poll # "newssrc" => ssrc \notin ToSet(byepackets)

ThreadInv == Scalars /\ WhereInv /\ OwnInv /\ ByeInv

(* RtpSourcesProofs assumes of the constants what SourcesAssumption does.    *)
LEMMA SameFinite == RS!IsFiniteSet(SSRCs)
BY SourcesAssumption DEF IsFiniteSet, RS!IsFiniteSet

(* What a packet does to the table, for the operators as they are here       *)
LEMMA PacketsKeepOwn ==
  ASSUME RS!TableInv(table), NEW from \in Addresses
  PROVE  /\ \A packet \in RtpInputs :
              LET r == ProcessRTPPacket(table, packet, SenderAddress(from))
              IN RS!TableInv(r.t) /\ r.t.own = table.own /\ r.own \in BOOLEAN
         /\ \A item \in RtcpItems :
              LET r == ProcessItem(table, item, SenderAddress(from))
              IN RS!TableInv(r.t) /\ r.t.own = table.own /\ r.own \in BOOLEAN
<1>1. SenderAddress(from) \in RS!Senders BY DEF RS!Senders, SenderAddress
<1>2. ASSUME NEW packet \in RtpInputs
      PROVE  LET r == ProcessRTPPacket(table, packet, SenderAddress(from))
             IN RS!TableInv(r.t) /\ r.t.own = table.own /\ r.own \in BOOLEAN
  <2>1. packet \in RS!RTPPacket BY SessionAssumption DEF RS!RTPPacket
  <2> QED BY <1>1, <2>1, SourcesAssumption, SameFinite, RS!RTPKeepsTable, SameProcessRTPPacket
             DEF RS!Extends
<1>3. ASSUME NEW item \in RtcpItems
      PROVE  LET r == ProcessItem(table, item, SenderAddress(from))
             IN RS!TableInv(r.t) /\ r.t.own = table.own /\ r.own \in BOOLEAN
  <2>1. item \in RS!Items BY SessionAssumption DEF RS!Items
  <2> QED BY <1>1, <2>1, SourcesAssumption, SameFinite, RS!ItemKeepsTable, SameProcessItem
             DEF RS!Extends
<1> QED BY <1>2, <1>3

(* Without an entry of ours                                                  *)
LEMMA OwnRemoved ==
  ASSUME RS!TableInv(table)
  PROVE  RS!Ownerless(DeleteOwnSSRC(table))
BY SourcesAssumption, SameFinite, RS!OwnDeleted, SameDeleteOwnSSRC

LEMMA NobodyMarked ==
  ASSUME RS!Ownerless(table)
  PROVE  SentRTPPacket(table) = table
BY DEF RS!Ownerless, SentRTPPacket

(* Our own entry marked as a sender, and the timeouts                        *)
LEMMA OthersKeepOwn ==
  ASSUME RS!TableInv(table)
  PROVE  /\ RS!TableInv(SentRTPPacket(table)) /\ SentRTPPacket(table).own = table.own
         /\ \A silent, quiet, left :
              LET u == MultipleTimeouts(table, silent, quiet, left)
              IN RS!TableInv(u) /\ u.own = table.own
BY SourcesAssumption, SameFinite, RS!SentKeepsTable, RS!TimeoutsKeepTable, SameSentRTPPacket,
   SameMultipleTimeouts

(* The new entry of ours in the place of the old one                         *)
LEMMA OwnSwitched ==
  ASSUME RS!TableInv(table), ssrc \in SSRCs \ Entries(table)
  PROVE  LET u == CreateOwnSSRC(DeleteOwnSSRC(table), ssrc) IN RS!TableInv(u) /\ u.own = ssrc
<1> DEFINE d == DeleteOwnSSRC(table)
<1>1. RS!Ownerless(d) /\ Entries(d) = Entries(table) \ {table.own}
  BY SourcesAssumption, SameFinite, RS!OwnDeleted, SameDeleteOwnSSRC, SameEntries
<1>2. ssrc \in SSRCs \ RS!Entries(d) BY <1>1, SameEntries
<1> HIDE DEF d
<1>3. RS!TableInv(RS!CreateOwnSSRC(d, ssrc)) /\ RS!CreateOwnSSRC(d, ssrc).own = ssrc
  BY <1>1, <1>2, SourcesAssumption, SameFinite, RS!OwnCreated
<1> QED BY <1>3, SameCreateOwnSSRC DEF d
-----------------------------------------------------------------------------
(* The steps of the threads.                                                 *)

(* Packets waiting to be sent                                                *)
LEMMA Waiting ==
  ASSUME NEW s \in Seq(SSRCs)
  PROVE  /\ \A x \in SSRCs : ToSet(Append(s, x)) = ToSet(s) \union {x} /\ Append(s, x) # << >>
         /\ s # << >> => /\ Head(s) \in ToSet(s) /\ Head(s) \in SSRCs
                         /\ Tail(s) \in Seq(SSRCs) /\ ToSet(Tail(s)) \subseteq ToSet(s)
                         /\ Len(s) > 1 <=> Tail(s) # << >>
<1>1. ASSUME NEW x \in SSRCs
      PROVE  ToSet(Append(s, x)) = ToSet(s) \union {x} /\ Append(s, x) # << >>
  <2>1. /\ DOMAIN Append(s, x) = 1 .. Len(s) + 1 /\ DOMAIN s = 1 .. Len(s)
        /\ Append(s, x)[Len(s) + 1] = x /\ Len(s) \in Nat
        /\ \A i \in 1 .. Len(s) : Append(s, x)[i] = s[i]
    OBVIOUS
  <2>2. \A y : y \in ToSet(Append(s, x)) <=> y \in ToSet(s) \union {x}
    BY <2>1 DEF ToSet
  <2> QED BY <2>2, AppendProperties
<1>2. ASSUME s # << >>
      PROVE  /\ Head(s) \in ToSet(s) /\ Head(s) \in SSRCs
             /\ Tail(s) \in Seq(SSRCs) /\ ToSet(Tail(s)) \subseteq ToSet(s)
             /\ Len(s) > 1 <=> Tail(s) # << >>
  <2>1. /\ DOMAIN s = 1 .. Len(s) /\ Len(s) \in Nat \ {0} /\ Head(s) = s[1] /\ s[1] \in SSRCs
        /\ Tail(s) \in Seq(SSRCs) /\ Len(Tail(s)) = Len(s) - 1
        /\ DOMAIN Tail(s) = 1 .. Len(s) - 1
        /\ \A i \in 1 .. Len(s) - 1 : Tail(s)[i] = s[i + 1]
    BY <1>2, HeadTailProperties, EmptySeq
  <2>2. \A i \in 1 .. Len(s) - 1 : i + 1 \in 1 .. Len(s) BY <2>1
  <2>3. ToSet(Tail(s)) \subseteq ToSet(s) BY <2>1, <2>2 DEF ToSet
  <2>4. Head(s) \in ToSet(s) BY <2>1 DEF ToSet
  <2>5. Len(s) > 1 <=> Tail(s) # << >>
    <3>1. Tail(s) = << >> <=> Len(Tail(s)) = 0 BY <2>1, EmptySeq
    <3> QED BY <2>1, <3>1
  <2> QED BY <2>1, <2>3, <2>4, <2>5
<1> QED BY <1>1, <1>2

LEMMA ScalarsNext == ThreadInv /\ [Next]_vars => Scalars'
<1> SUFFICES ASSUME ThreadInv, [Next]_vars PROVE Scalars' OBVIOUS
<1> USE DEF ThreadInv, Scalars, Sent, shared, history
<1>1. CASE GetTransmissionDelay BY <1>1 DEF GetTransmissionDelay
<1>2. CASE WaitForIncomingData BY <1>2 DEF WaitForIncomingData
<1>3. CASE WaitEnds BY <1>3 DEF WaitEnds
<1>4. CASE ProcessPolledData BY <1>4 DEF ProcessPolledData
<1>5. CASE ReceiveRTP BY <1>5 DEF ReceiveRTP
<1>6. CASE ReceiveRTCP BY <1>6 DEF ReceiveRTCP
<1>7. CASE NextItem BY <1>7 DEF NextItem
<1>8. CASE OnAPPPacket BY <1>8 DEF OnAPPPacket
<1>9. CASE LastItem BY <1>9 DEF LastItem
<1>10. CASE NoNewCollision BY <1>10 DEF NoNewCollision
<1>11. CASE NewCollision
  BY <1>11 DEF NewCollision, WhereInv, Changing, InPacket
<1>12. CASE BuildBYEPacket BY <1>12 DEF BuildBYEPacket
<1>13. CASE CreateNewSSRC
  BY <1>13 DEF CreateNewSSRC, Fresh
<1>14. CASE SwitchSSRC BY <1>14 DEF SwitchSSRC
<1>15. CASE Timeouts BY <1>15 DEF Timeouts
<1>16. CASE NotTime BY <1>16 DEF NotTime
<1>17. CASE SendBYE BY <1>17 DEF SendBYE
<1>18. CASE SendReport BY <1>18 DEF SendReport
<1>19. CASE OnPollThreadStep BY <1>19 DEF OnPollThreadStep
<1>20. CASE StopOrLoop BY <1>20 DEF StopOrLoop
<1>21. CASE SendPacket BY <1>21 DEF SendPacket
<1>22. CASE BuildAndSend BY <1>22 DEF BuildAndSend
<1>23. CASE MarkSender BY <1>23 DEF MarkSender
<1>24. CASE MarkSent BY <1>24 DEF MarkSent
<1>25. CASE SendRTCPAPPPacket BY <1>25 DEF SendRTCPAPPPacket
<1>26. CASE SendAPP BY <1>26 DEF SendAPP
<1>27. CASE BYEDestroy BY <1>27 DEF BYEDestroy
<1>28. CASE AbortWait BY <1>28 DEF AbortWait
<1>29. CASE Joined BY <1>29 DEF Joined
<1>30. CASE KillThread BY <1>30 DEF KillThread
<1>31. CASE AddBYE BY <1>31 DEF AddBYE
<1>32. CASE SendLastBYE BY <1>32 DEF SendLastBYE
<1>33. CASE DestroyAll
  <2>1. << >> \in Seq(SSRCs) BY EmptySeq
  <2> QED BY <1>33, <2>1 DEF DestroyAll
<1>34. CASE UNCHANGED vars BY <1>34 DEF vars, shared
<1>35. CASE WaitFails BY <1>35 DEF WaitFails, Ends
<1>36. CASE ProcessingFails BY <1>36 DEF ProcessingFails, Ends
<1>37. CASE SwitchSSRCFails BY <1>37 DEF SwitchSSRCFails, Ends
<1>38. CASE SendBYEFails BY <1>38, Waiting DEF SendBYEFails, Ends
<1>39. CASE SendReportFails BY <1>39 DEF SendReportFails, Ends
<1>40. CASE SendFails BY <1>40 DEF SendFails
<1>41. CASE APPFails BY <1>41 DEF APPFails
<1> QED
  BY <1>1, <1>2, <1>3, <1>4, <1>5, <1>6, <1>7, <1>8, <1>9, <1>10, <1>11, <1>12,
     <1>13, <1>14, <1>15, <1>16, <1>17, <1>18, <1>19, <1>20, <1>21, <1>22, <1>23, <1>24,
     <1>25, <1>26, <1>27, <1>28, <1>29, <1>30, <1>31, <1>32, <1>33, <1>34, <1>35, <1>36,
     <1>37, <1>38, <1>39, <1>40, <1>41
  DEF Next, Poll, Receive, Finish, Error, Queue, Main, Destroying

LEMMA WhereNext == ThreadInv /\ [Next]_vars => WhereInv'
<1> SUFFICES ASSUME ThreadInv, [Next]_vars PROVE WhereInv' OBVIOUS
<1> USE DEF ThreadInv, Scalars, WhereInv, InTable, InPacket, Changing, Nobody, NoPacket, shared,
            history
<1>1. CASE GetTransmissionDelay BY <1>1 DEF GetTransmissionDelay
<1>2. CASE WaitForIncomingData BY <1>2 DEF WaitForIncomingData
<1>3. CASE WaitEnds BY <1>3 DEF WaitEnds
<1>4. CASE ProcessPolledData BY <1>4 DEF ProcessPolledData
<1>5. CASE ReceiveRTP
  <2>1. PICK from \in Addresses, p \in RtpInputs :
          incoming' = [rtp |-> TRUE, from |-> from,
                       own |-> ProcessRTPPacket(table, p, SenderAddress(from)).own]
    BY <1>5 DEF ReceiveRTP
  <2>2. RS!TableInv(table) BY <1>5 DEF ReceiveRTP, OwnInv
  <2>3. ProcessRTPPacket(table, p, SenderAddress(from)).own \in BOOLEAN
    BY <2>2, PacketsKeepOwn
  <2> QED BY <1>5, <2>1, <2>3 DEF ReceiveRTP
<1>6. CASE ReceiveRTCP BY <1>6 DEF ReceiveRTCP
<1>7. CASE NextItem BY <1>7 DEF NextItem
<1>8. CASE OnAPPPacket BY <1>8 DEF OnAPPPacket
<1>9. CASE LastItem BY <1>9 DEF LastItem
<1>10. CASE NoNewCollision BY <1>10 DEF NoNewCollision
<1>11. CASE NewCollision BY <1>11 DEF NewCollision
<1>12. CASE BuildBYEPacket BY <1>12 DEF BuildBYEPacket
<1>13. CASE CreateNewSSRC BY <1>13 DEF CreateNewSSRC
<1>14. CASE SwitchSSRC BY <1>14 DEF SwitchSSRC
<1>15. CASE Timeouts BY <1>15 DEF Timeouts
<1>16. CASE NotTime BY <1>16 DEF NotTime
<1>17. CASE SendBYE BY <1>17 DEF SendBYE
<1>18. CASE SendReport BY <1>18 DEF SendReport
<1>19. CASE OnPollThreadStep BY <1>19 DEF OnPollThreadStep
<1>20. CASE StopOrLoop BY <1>20 DEF StopOrLoop
<1>21. CASE SendPacket
  BY <1>21 DEF SendPacket, Created
<1>22. CASE BuildAndSend BY <1>22 DEF BuildAndSend
<1>23. CASE MarkSender BY <1>23 DEF MarkSender
<1>24. CASE MarkSent BY <1>24 DEF MarkSent
<1>25. CASE SendRTCPAPPPacket BY <1>25 DEF SendRTCPAPPPacket
<1>26. CASE SendAPP BY <1>26 DEF SendAPP
<1>27. CASE BYEDestroy BY <1>27 DEF BYEDestroy
<1>28. CASE AbortWait BY <1>28 DEF AbortWait
<1>29. CASE Joined BY <1>29 DEF Joined
<1>30. CASE KillThread BY <1>30 DEF KillThread
<1>31. CASE AddBYE BY <1>31 DEF AddBYE
<1>32. CASE SendLastBYE BY <1>32 DEF SendLastBYE
<1>33. CASE DestroyAll BY <1>33 DEF DestroyAll
<1>34. CASE UNCHANGED vars BY <1>34 DEF vars, shared
<1>35. CASE WaitFails BY <1>35 DEF WaitFails, Ends
<1>36. CASE ProcessingFails BY <1>36 DEF ProcessingFails, Ends
<1>37. CASE SwitchSSRCFails BY <1>37 DEF SwitchSSRCFails, Ends
<1>38. CASE SendBYEFails BY <1>38 DEF SendBYEFails, Ends
<1>39. CASE SendReportFails BY <1>39 DEF SendReportFails, Ends
<1>40. CASE SendFails BY <1>40 DEF SendFails
<1>41. CASE APPFails BY <1>41 DEF APPFails
<1> QED
  BY <1>1, <1>2, <1>3, <1>4, <1>5, <1>6, <1>7, <1>8, <1>9, <1>10, <1>11, <1>12,
     <1>13, <1>14, <1>15, <1>16, <1>17, <1>18, <1>19, <1>20, <1>21, <1>22, <1>23, <1>24,
     <1>25, <1>26, <1>27, <1>28, <1>29, <1>30, <1>31, <1>32, <1>33, <1>34, <1>35, <1>36,
     <1>37, <1>38, <1>39, <1>40, <1>41
  DEF Next, Poll, Receive, Finish, Error, Queue, Main, Destroying

LEMMA OwnNext == ThreadInv /\ [Next]_vars => OwnInv'
<1> SUFFICES ASSUME ThreadInv, [Next]_vars PROVE OwnInv' OBVIOUS
<1> USE DEF ThreadInv, OwnInv, shared
<1>1. CASE GetTransmissionDelay BY <1>1 DEF GetTransmissionDelay
<1>2. CASE WaitForIncomingData BY <1>2 DEF WaitForIncomingData
<1>3. CASE WaitEnds BY <1>3 DEF WaitEnds
<1>4. CASE ProcessPolledData BY <1>4 DEF ProcessPolledData
<1>5. CASE ReceiveRTP
  <2>1. /\ main # "destroyed"
        /\ main' = main
        /\ ssrc' = ssrc
        /\ poll = "packets"
        /\ poll' = "analysed"
    BY <1>5 DEF ReceiveRTP, WhereInv
  <2>2. PICK from \in Addresses, p \in RtpInputs :
          table' = ProcessRTPPacket(table, p, SenderAddress(from)).t
    BY <1>5 DEF ReceiveRTP
  <2> QED BY <2>1, <2>2, PacketsKeepOwn
<1>6. CASE ReceiveRTCP BY <1>6 DEF ReceiveRTCP
<1>7. CASE NextItem
  <2>1. /\ main # "destroyed" /\ main' = main /\ ssrc' = ssrc /\ poll = "items" /\ poll' = poll
        /\ incoming.from \in Addresses
    BY <1>7 DEF NextItem, WhereInv, InPacket
  <2>2. PICK item \in RtcpItems :
          table' = ProcessItem(table, item, SenderAddress(incoming.from)).t
    BY <1>7 DEF NextItem
  <2> QED BY <2>1, <2>2, PacketsKeepOwn
<1>8. CASE OnAPPPacket BY <1>8 DEF OnAPPPacket
<1>9. CASE LastItem BY <1>9 DEF LastItem
<1>10. CASE NoNewCollision BY <1>10 DEF NoNewCollision
<1>11. CASE NewCollision BY <1>11 DEF NewCollision
<1>12. CASE BuildBYEPacket BY <1>12 DEF BuildBYEPacket
<1>13. CASE CreateNewSSRC
  BY <1>13 DEF CreateNewSSRC, Fresh, WhereInv
<1>14. CASE SwitchSSRC
  BY <1>14, OwnSwitched DEF SwitchSSRC, WhereInv, Scalars
<1>15. CASE Timeouts
  <2>1. main # "destroyed" /\ main' = main /\ ssrc' = ssrc /\ poll = "packets" /\ poll' = "rtcp"
    BY <1>15 DEF Timeouts, WhereInv
  <2>2. PICK silent, quiet, left : table' = MultipleTimeouts(table, silent, quiet, left)
    BY <1>15 DEF Timeouts
  <2> QED BY <2>1, <2>2, OthersKeepOwn
<1>16. CASE NotTime BY <1>16 DEF NotTime
<1>17. CASE SendBYE BY <1>17 DEF SendBYE
<1>18. CASE SendReport BY <1>18 DEF SendReport
<1>19. CASE OnPollThreadStep BY <1>19 DEF OnPollThreadStep
<1>20. CASE StopOrLoop BY <1>20 DEF StopOrLoop
<1>21. CASE SendPacket BY <1>21 DEF SendPacket
<1>22. CASE BuildAndSend BY <1>22 DEF BuildAndSend
<1>23. CASE MarkSender
  <2>1. /\ main # "destroyed" /\ main' = main /\ ssrc' = ssrc /\ poll' = poll
        /\ poll # "switch" /\ table' = SentRTPPacket(table)
    BY <1>23 DEF MarkSender, WhereInv, InTable, Changing, Nobody
  <2> QED BY <2>1, OthersKeepOwn, NobodyMarked
<1>24. CASE MarkSent BY <1>24 DEF MarkSent
<1>25. CASE SendRTCPAPPPacket BY <1>25 DEF SendRTCPAPPPacket
<1>26. CASE SendAPP BY <1>26 DEF SendAPP
<1>27. CASE BYEDestroy BY <1>27 DEF BYEDestroy
<1>28. CASE AbortWait BY <1>28 DEF AbortWait
<1>29. CASE Joined BY <1>29 DEF Joined
<1>30. CASE KillThread BY <1>30 DEF KillThread
<1>31. CASE AddBYE BY <1>31 DEF AddBYE
<1>32. CASE SendLastBYE BY <1>32 DEF SendLastBYE
<1>33. CASE DestroyAll BY <1>33 DEF DestroyAll
<1>34. CASE UNCHANGED vars BY <1>34 DEF vars, shared
<1>35. CASE WaitFails BY <1>35 DEF WaitFails, Ends
<1>36. CASE ProcessingFails BY <1>36 DEF ProcessingFails, Ends
<1>37. CASE SwitchSSRCFails
  <2>1. main # "destroyed" /\ main' = main /\ poll = "switch" /\ poll' = "stopped"
        /\ table' = DeleteOwnSSRC(table)
    BY <1>37 DEF SwitchSSRCFails, Ends, WhereInv
  <2>2. RS!Ownerless(DeleteOwnSSRC(table)) BY <2>1, OwnRemoved
  <2> QED BY <2>1, <2>2
<1>38. CASE SendBYEFails BY <1>38 DEF SendBYEFails, Ends
<1>39. CASE SendReportFails BY <1>39 DEF SendReportFails, Ends
<1>40. CASE SendFails BY <1>40 DEF SendFails
<1>41. CASE APPFails BY <1>41 DEF APPFails
<1> QED
  BY <1>1, <1>2, <1>3, <1>4, <1>5, <1>6, <1>7, <1>8, <1>9, <1>10, <1>11, <1>12,
     <1>13, <1>14, <1>15, <1>16, <1>17, <1>18, <1>19, <1>20, <1>21, <1>22, <1>23, <1>24,
     <1>25, <1>26, <1>27, <1>28, <1>29, <1>30, <1>31, <1>32, <1>33, <1>34, <1>35, <1>36,
     <1>37, <1>38, <1>39, <1>40, <1>41
  DEF Next, Poll, Receive, Finish, Error, Queue, Main, Destroying

LEMMA ByeNext == ThreadInv /\ [Next]_vars => ByeInv'
<1> SUFFICES ASSUME ThreadInv, [Next]_vars PROVE ByeInv' OBVIOUS
<1> USE DEF ThreadInv, Scalars, ByeInv, Sent, shared, history
<1>1. CASE GetTransmissionDelay BY <1>1 DEF GetTransmissionDelay
<1>2. CASE WaitForIncomingData BY <1>2 DEF WaitForIncomingData
<1>3. CASE WaitEnds BY <1>3 DEF WaitEnds
<1>4. CASE ProcessPolledData BY <1>4 DEF ProcessPolledData
<1>5. CASE ReceiveRTP BY <1>5 DEF ReceiveRTP
<1>6. CASE ReceiveRTCP BY <1>6 DEF ReceiveRTCP
<1>7. CASE NextItem BY <1>7 DEF NextItem
<1>8. CASE OnAPPPacket BY <1>8 DEF OnAPPPacket
<1>9. CASE LastItem BY <1>9 DEF LastItem
<1>10. CASE NoNewCollision BY <1>10 DEF NoNewCollision
<1>11. CASE NewCollision BY <1>11 DEF NewCollision
<1>12. CASE BuildBYEPacket
  <2>1. byepackets' # << >> /\ byescheduled'
    BY <1>12, Waiting DEF BuildBYEPacket
  <2> QED BY <1>12, <2>1 DEF BuildBYEPacket
<1>13. CASE CreateNewSSRC
  BY <1>13 DEF CreateNewSSRC, Fresh
<1>14. CASE SwitchSSRC
  BY <1>14 DEF SwitchSSRC
<1>15. CASE Timeouts BY <1>15 DEF Timeouts
<1>16. CASE NotTime BY <1>16 DEF NotTime
<1>17. CASE SendBYE
  <2>1. /\ byepackets' = Tail(byepackets) /\ byepackets # << >> /\ ssrc' = ssrc /\ poll = "rtcp"
        /\ wire' = [wire EXCEPT ![Head(byepackets)] = "bye"] /\ main' = main /\ poll' = "step"
        /\ byescheduled' = (Len(byepackets) > 1)
    BY <1>17 DEF SendBYE
  <2>2. /\ Head(byepackets) \in ToSet(byepackets)
        /\ ToSet(byepackets') \subseteq ToSet(byepackets)
        /\ byescheduled' <=> byepackets' # << >>
    BY <2>1, Waiting
  <2>3. main \notin {"byes", "destroyed"} BY <2>1 DEF WhereInv
  <2>4. ssrc \notin ToSet(byepackets) /\ wire[ssrc] \notin {"bye", "late"} BY <2>1, <2>3
  <2>5. wire'[ssrc] = wire[ssrc] BY <2>1, <2>2, <2>4
  <2> QED BY <2>1, <2>2, <2>4, <2>5
<1>18. CASE SendReport BY <1>18 DEF SendReport
<1>19. CASE OnPollThreadStep BY <1>19 DEF OnPollThreadStep
<1>20. CASE StopOrLoop BY <1>20 DEF StopOrLoop
<1>21. CASE SendPacket BY <1>21 DEF SendPacket
<1>22. CASE BuildAndSend
  BY <1>22 DEF BuildAndSend, WhereInv
<1>23. CASE MarkSender BY <1>23 DEF MarkSender
<1>24. CASE MarkSent BY <1>24 DEF MarkSent
<1>25. CASE SendRTCPAPPPacket BY <1>25 DEF SendRTCPAPPPacket
<1>26. CASE SendAPP BY <1>26 DEF SendAPP
<1>27. CASE BYEDestroy BY <1>27 DEF BYEDestroy
<1>28. CASE AbortWait BY <1>28 DEF AbortWait
<1>29. CASE Joined BY <1>29 DEF Joined
<1>30. CASE KillThread BY <1>30 DEF KillThread
<1>31. CASE AddBYE
  BY <1>31, Waiting DEF AddBYE
<1>32. CASE SendLastBYE
  BY <1>32, Waiting DEF SendLastBYE
<1>33. CASE DestroyAll BY <1>33 DEF DestroyAll
<1>34. CASE UNCHANGED vars BY <1>34 DEF vars, shared
<1>35. CASE WaitFails BY <1>35 DEF WaitFails, Ends
<1>36. CASE ProcessingFails BY <1>36 DEF ProcessingFails, Ends
<1>37. CASE SwitchSSRCFails BY <1>37 DEF SwitchSSRCFails, Ends
<1>38. CASE SendBYEFails
  BY <1>38, Waiting DEF SendBYEFails, Ends, WhereInv
<1>39. CASE SendReportFails BY <1>39 DEF SendReportFails, Ends
<1>40. CASE SendFails BY <1>40 DEF SendFails
<1>41. CASE APPFails BY <1>41 DEF APPFails
<1> QED
  BY <1>1, <1>2, <1>3, <1>4, <1>5, <1>6, <1>7, <1>8, <1>9, <1>10, <1>11, <1>12,
     <1>13, <1>14, <1>15, <1>16, <1>17, <1>18, <1>19, <1>20, <1>21, <1>22, <1>23, <1>24,
     <1>25, <1>26, <1>27, <1>28, <1>29, <1>30, <1>31, <1>32, <1>33, <1>34, <1>35, <1>36,
     <1>37, <1>38, <1>39, <1>40, <1>41
  DEF Next, Poll, Receive, Finish, Error, Queue, Main, Destroying

LEMMA ThreadsInit == Init => ThreadInv
<1> SUFFICES ASSUME Init PROVE ThreadInv OBVIOUS
<1>1. PICK x \in SSRCs : table = CreateOwnSSRC(EmptyTable, x) /\ ssrc = x BY DEF Init
<1>2. RS!TableInv(table) /\ table.own = ssrc
  <2>1. RS!Ownerless(EmptyTable) /\ RS!Entries(EmptyTable) = {}
    BY DEF RS!Ownerless, RS!IsTable, EmptyTable, RS!Entries
  <2>2. RS!TableInv(RS!CreateOwnSSRC(EmptyTable, x)) /\ RS!CreateOwnSSRC(EmptyTable, x).own = x
    BY <2>1, SourcesAssumption, SameFinite, RS!OwnCreated
  <2> QED BY <1>1, <2>2, SameCreateOwnSSRC
<1>3. << >> \in Seq(SSRCs) /\ ToSet(<< >>) = {} BY EmptySeq DEF ToSet
<1>4. Scalars BY <1>1, <1>3 DEF Init, Scalars
<1>5. WhereInv BY DEF Init, WhereInv, InTable, InPacket, Changing, NoPacket, Nobody
<1>6. OwnInv BY <1>1, <1>2 DEF Init, OwnInv
<1>7. ByeInv BY <1>1, <1>3 DEF Init, ByeInv
<1> QED BY <1>4, <1>5, <1>6, <1>7 DEF ThreadInv

LEMMA ThreadsNext == ThreadInv /\ [Next]_vars => ThreadInv'
BY ScalarsNext, WhereNext, OwnNext, ByeNext DEF ThreadInv

(* Every step of the threads is one of RtpSources, or none for the table.    *)
OneStep == UNCHANGED Table!vars \/ EndsMidway \/ main' = "destroyed" \/ Table!Next

LEMMA OneTableStep == ThreadInv /\ [Next]_vars => OneStep
<1> SUFFICES ASSUME ThreadInv, [Next]_vars PROVE OneStep OBVIOUS
<1> USE DEF OneStep
<1>0. Table!NoPacket = NoPacket BY DEF Table!NoPacket, NoPacket
<1>a. UNCHANGED <<table, Settled, incoming>> => UNCHANGED Table!vars
  BY DEF Table!vars, Settled, Changing
<1>1. CASE ReceiveRTP
  <2>1. incoming = NoPacket /\ Settled' = Settled
    BY <1>1 DEF ReceiveRTP, ThreadInv, WhereInv, InPacket, Changing, Settled
  <2>2. PICK from \in Addresses, p \in RtpInputs :
          LET r == ProcessRTPPacket(table, p, SenderAddress(from))
          IN /\ ~Dropped(from) /\ table' = r.t
             /\ incoming' = [rtp |-> TRUE, from |-> from, own |-> r.own]
    BY <1>1 DEF ReceiveRTP
  <2>3. /\ p = [ssrc |-> p.ssrc, csrc |-> p.csrc, next |-> p.next]
        /\ p.ssrc \in SSRCs /\ p.csrc \in SSRCs \union {NoSSRC} /\ p.next \in BOOLEAN
    BY SessionAssumption
  <2>4. Table!ReceiveRTP
    BY <1>0, <2>1, <2>2, <2>3, SameProcessRTPPacket, SameDropped, SameSenderAddress
       DEF Table!ReceiveRTP, Settled, Changing
  <2> QED BY <2>4 DEF Table!Next
<1>2. CASE ReceiveRTCP
  <2>1. incoming = NoPacket /\ Settled' = Settled
    BY <1>2 DEF ReceiveRTCP, ThreadInv, WhereInv, InPacket, Changing, Settled
  <2>2. Table!ReceiveRTCP
    BY <1>0, <1>2, <2>1, SameDropped DEF ReceiveRTCP, Table!ReceiveRTCP, Settled, Changing
  <2> QED BY <2>2 DEF Table!Next
<1>3. CASE NextItem
  <2>1. incoming # NoPacket /\ ~incoming.rtp /\ Settled' = Settled
    BY <1>3, SourcesAssumption
    DEF NextItem, ThreadInv, WhereInv, InPacket, Changing, Settled, NoPacket
  <2>2. RtcpItems \subseteq Table!Items BY SessionAssumption DEF Table!Items
  <2>3. PICK item \in RtcpItems :
          LET r == ProcessItem(table, item, SenderAddress(incoming.from))
          IN table' = r.t /\ incoming' = [incoming EXCEPT !.own = @ \/ r.own]
    BY <1>3 DEF NextItem
  <2>4. Table!NextItem
    BY <1>0, <2>1, <2>2, <2>3, SameProcessItem, SameSenderAddress
       DEF Table!NextItem, Settled, Changing
  <2> QED BY <2>4 DEF Table!Next
<1>4. CASE NoNewCollision
  <2>1. /\ incoming # NoPacket /\ Settled' = Settled /\ Settled = collisions
        /\ incoming' = NoPacket /\ UNCHANGED table
        /\ ~(incoming.own /\ incoming.from \notin collisions)
    BY <1>4, SourcesAssumption
    DEF NoNewCollision, ThreadInv, WhereInv, InPacket, Changing, Settled, NoPacket
  <2>2. Table!EndOfPacket BY <1>0, <2>1 DEF Table!EndOfPacket, Settled, Changing
  <2> QED BY <2>2 DEF Table!Next
<1>5. CASE NewCollision
  <2>1. poll = "analysed" /\ poll' \in {"bye", "newssrc"} /\ UNCHANGED <<table, incoming>>
        /\ collisions' = collisions \union {incoming.from} /\ incoming.from \notin collisions
    BY <1>5 DEF NewCollision
  <2>2. Settled = collisions BY <2>1 DEF Settled, Changing
  <2>3. Settled' = collisions' \ {incoming'.from} BY <2>1 DEF Settled, Changing
  <2> QED BY <1>a, <2>1, <2>2, <2>3
<1>6. CASE SwitchSSRC
  <2>1. /\ incoming # NoPacket /\ incoming.own /\ incoming' = NoPacket
        /\ incoming.from \notin Settled /\ Settled' = Settled \union {incoming.from}
        /\ ssrc \in SSRCs \ Entries(table)
        /\ table' = CreateOwnSSRC(DeleteOwnSSRC(table), ssrc)
    BY <1>6, SourcesAssumption
    DEF SwitchSSRC, ThreadInv, Scalars, WhereInv, OwnInv, InPacket, Changing, Settled, NoPacket
  <2>2. ssrc \in Table!Free(table) BY <2>1, SameEntries DEF Table!Free
  <2>3. table' = Table!ChangeOwnSSRC(table, ssrc)
    BY <2>1, SameCreateOwnSSRC, SameDeleteOwnSSRC DEF Table!ChangeOwnSSRC
  <2>4. Table!EndOfPacket BY <1>0, <2>1, <2>2, <2>3 DEF Table!EndOfPacket, Settled, Changing
  <2> QED BY <2>4 DEF Table!Next
<1>7. CASE Timeouts
  <2>1. /\ incoming = NoPacket /\ UNCHANGED incoming
        /\ Settled = collisions /\ Settled' = collisions'
    BY <1>7 DEF Timeouts, ThreadInv, WhereInv, InPacket, Changing, Settled
  <2>2. PICK silent \in SUBSET (Entries(table) \ {table.own}),
             quiet \in SUBSET {x \in Entries(table) : table.src[x].sender},
             left \in SUBSET {x \in Entries(table) : table.src[x].bye},
             old \in SUBSET collisions :
          /\ table' = MultipleTimeouts(table, silent, quiet, left)
          /\ collisions' = collisions \ old
    BY <1>7 DEF Timeouts
  <2>3. /\ silent \in SUBSET (Table!Entries(table) \ {table.own})
        /\ quiet \in SUBSET {x \in Table!Entries(table) : table.src[x].sender}
        /\ left \in SUBSET {x \in Table!Entries(table) : table.src[x].bye}
        /\ old \in SUBSET Settled
        /\ table' = Table!MultipleTimeouts(table, silent, quiet, left)
        /\ Settled' = Settled \ old
    BY <2>1, <2>2, SameEntries, SameMultipleTimeouts
  <2>4. Table!Timeouts BY <1>0, <2>1, <2>3 DEF Table!Timeouts, Settled, Changing
  <2> QED BY <2>4 DEF Table!Next
<1>8. CASE MarkSender
  <2>1. /\ incoming = NoPacket /\ UNCHANGED incoming /\ Settled' = Settled
        /\ table' = SentRTPPacket(table)
    BY <1>8 DEF MarkSender, ThreadInv, WhereInv, InTable, InPacket, Changing, Settled, Nobody
  <2>2. Table!Send BY <1>0, <2>1, SameSentRTPPacket DEF Table!Send, Settled, Changing
  <2> QED BY <2>2 DEF Table!Next
<1>9. CASE DestroyAll BY <1>9 DEF DestroyAll
<1>10. CASE GetTransmissionDelay BY <1>a, <1>10 DEF GetTransmissionDelay, shared, Settled,
                                    Changing
<1>11. CASE WaitForIncomingData BY <1>a, <1>11 DEF WaitForIncomingData, shared, Settled, Changing
<1>12. CASE WaitEnds BY <1>a, <1>12 DEF WaitEnds, shared, Settled, Changing
<1>13. CASE ProcessPolledData BY <1>a, <1>13 DEF ProcessPolledData, shared, Settled, Changing
<1>14. CASE OnAPPPacket BY <1>a, <1>14 DEF OnAPPPacket, shared, Settled, Changing
<1>15. CASE LastItem BY <1>a, <1>15 DEF LastItem, shared, Settled, Changing
<1>16. CASE BuildBYEPacket BY <1>a, <1>16 DEF BuildBYEPacket, shared, Settled, Changing
<1>17. CASE CreateNewSSRC BY <1>a, <1>17 DEF CreateNewSSRC, shared, Settled, Changing
<1>18. CASE NotTime BY <1>a, <1>18 DEF NotTime, shared, Settled, Changing
<1>19. CASE SendBYE BY <1>a, <1>19 DEF SendBYE, shared, Settled, Changing
<1>20. CASE SendReport BY <1>a, <1>20 DEF SendReport, shared, Settled, Changing
<1>21. CASE OnPollThreadStep BY <1>a, <1>21 DEF OnPollThreadStep, shared, Settled, Changing
<1>22. CASE StopOrLoop BY <1>a, <1>22 DEF StopOrLoop, shared, Settled, Changing
<1>23. CASE SendPacket BY <1>a, <1>23 DEF SendPacket, shared, Settled, Changing
<1>24. CASE BuildAndSend BY <1>a, <1>24 DEF BuildAndSend, shared, Settled, Changing
<1>25. CASE MarkSent BY <1>a, <1>25 DEF MarkSent, shared, Settled, Changing
<1>26. CASE SendRTCPAPPPacket BY <1>a, <1>26 DEF SendRTCPAPPPacket, shared, Settled, Changing
<1>27. CASE SendAPP BY <1>a, <1>27 DEF SendAPP, shared, Settled, Changing
<1>28. CASE BYEDestroy BY <1>a, <1>28 DEF BYEDestroy, shared, Settled, Changing
<1>29. CASE AbortWait BY <1>a, <1>29 DEF AbortWait, shared, Settled, Changing
<1>30. CASE Joined BY <1>a, <1>30 DEF Joined, shared, Settled, Changing
<1>31. CASE KillThread BY <1>a, <1>31 DEF KillThread, shared, Settled, Changing
<1>32. CASE AddBYE BY <1>a, <1>32 DEF AddBYE, shared, Settled, Changing
<1>33. CASE SendLastBYE BY <1>a, <1>33 DEF SendLastBYE, shared, Settled, Changing
<1>34. CASE UNCHANGED vars BY <1>a, <1>34 DEF vars, shared, Settled, Changing
<1>35. CASE WaitFails BY <1>35 DEF WaitFails, Ends, EndsMidway
<1>36. CASE ProcessingFails BY <1>36 DEF ProcessingFails, Ends, EndsMidway
<1>37. CASE SwitchSSRCFails BY <1>37 DEF SwitchSSRCFails, Ends, EndsMidway
<1>38. CASE SendBYEFails BY <1>38 DEF SendBYEFails, Ends, EndsMidway
<1>39. CASE SendReportFails BY <1>39 DEF SendReportFails, Ends, EndsMidway
<1>40. CASE SendFails BY <1>a, <1>40 DEF SendFails, shared, Settled, Changing
<1>41. CASE APPFails BY <1>a, <1>41 DEF APPFails, shared, Settled, Changing
<1> QED
  BY <1>1, <1>2, <1>3, <1>4, <1>5, <1>6, <1>7, <1>8, <1>9, <1>10, <1>11, <1>12,
     <1>13, <1>14, <1>15, <1>16, <1>17, <1>18, <1>19, <1>20, <1>21, <1>22, <1>23, <1>24,
     <1>25, <1>26, <1>27, <1>28, <1>29, <1>30, <1>31, <1>32, <1>33, <1>34, <1>35, <1>36,
     <1>37, <1>38, <1>39, <1>40, <1>41
  DEF Next, Poll, Receive, Finish, Error, Queue, Main, Destroying

(* A step of the session is one of its threads, or leaves them as they are.  *)
LEMMA ThreadsStep == [PNext]_pvars => [Next]_vars
BY DEF PNext, pvars, Over

LEMMA ThreadsInvariant == PSpec => []ThreadInv
<1>1. PInit => ThreadInv BY ThreadsInit DEF PInit
<1> QED BY <1>1, ThreadsStep, ThreadsNext, PTL DEF PSpec

(* In any set of threads one waits for nobody in it: the thread that sends   *)
(* holds the builder only where it waits for nobody, and the poll thread,    *)
(* the only one to hold the sources, does not wait for them then.            *)
LEMMA NobodyInACircle == WhereInv => NoCircularWait
<1> SUFFICES ASSUME WhereInv, NEW S \in (SUBSET Threads) \ {{}}
             PROVE  \E t \in S : WaitsFor(t) \notin S
  BY DEF NoCircularWait
<1> USE DEF WhereInv, InTable, Changing, Nobody
<1>1. /\ "nobody" \notin S /\ "main" \notin {sources, builder}
      /\ sources \in {"poll", "nobody"} /\ builder \in {"queue", "nobody"}
  BY DEF Threads
<1>2. WaitsFor("main") \in {"poll", "queue", "nobody"} BY <1>1 DEF WaitsFor
<1>3. WaitsFor("queue") \in {"poll", "queue", "nobody"} BY <1>1 DEF WaitsFor
<1>4. WaitsFor("poll") \in {"queue", "nobody"} BY <1>1 DEF WaitsFor
<1>5. WaitsFor("poll") = "queue" => WaitsFor("queue") = "nobody" BY DEF WaitsFor
<1>6. WaitsFor("queue") # "queue" BY DEF WaitsFor
<1> HIDE DEF WhereInv
<1>7. CASE "poll" \in S
  <2>1. CASE WaitsFor("poll") \in S
    BY <1>1, <1>4, <1>5, <2>1
  <2> QED BY <1>7, <2>1
<1>8. CASE "poll" \notin S /\ "queue" \in S
  BY <1>3, <1>6, <1>8, <1>1
<1>9. CASE "poll" \notin S /\ "queue" \notin S
  <2>1. PICK t \in S : TRUE OBVIOUS
  <2>2. t = "main" BY <1>9 DEF Threads
  <2> QED BY <1>1, <1>2, <1>9, <2>2
<1> QED BY <1>7, <1>8, <1>9

(* For any SSRCs, addresses and packets, and for every interleaving of the   *)
(* threads: no threads wait for one another, whoever locks the sources finds *)
(* the SSRC of the packet builder and that of our entry in the table the     *)
(* same, or none of ours after a change that failed, and a BYE scheduled     *)
(* exactly when one waits, unless one that could not be sent ended the poll  *)
(* thread.                                                                   *)
THEOREM Session == PSpec => []RtpSessionInv
<1>1. ThreadInv => RtpSessionInv
  <2> SUFFICES ASSUME ThreadInv PROVE RtpSessionInv OBVIOUS
  <2> USE DEF ThreadInv, WhereInv, OwnInv, InTable, InPacket, Changing
  <2>1. OwnSSRCAgrees BY DEF OwnSSRCAgrees, Nobody, RS!Ownerless
  <2>2. BYEIsScheduled BY DEF BYEIsScheduled, ByeInv
  <2>3. Entries(table) \subseteq SSRCs /\ table.own \in SSRCs \union {NoSSRC}
    <3>1. CASE main = "destroyed"
      BY <3>1, SourcesAssumption DEF EmptyTable, Entries
    <3>2. CASE main # "destroyed"
      BY <3>2, SameEntries DEF RS!TableInv, RS!Ownerless, RS!IsTable
    <3> QED BY <3>1, <3>2
  <2>4. ToSet(byepackets) \subseteq SSRCs BY DEF Scalars, ToSet
  <2>5. incoming \in [rtp : BOOLEAN, from : Addresses \union {Unset}, own : BOOLEAN] OBVIOUS
  <2>6. sources \in {Nobody, "poll"} /\ builder \in {Nobody, "queue"} OBVIOUS
  <2>7. NoCircularWait BY NobodyInACircle
  <2> QED BY <2>1, <2>2, <2>3, <2>4, <2>5, <2>6, <2>7 DEF RtpSessionInv, TypeOK, Scalars
<1> QED BY <1>1, ThreadsInvariant, PTL

(* Once a BYE was sent for an SSRC, no RTP packet and no report is sent with *)
(* it, but at most an APP packet begun before.                               *)
THEOREM Silence == PSpec => SilentAfterBYE
<1> DEFINE Silenced(x) ==
             \/ wire'[x] \in {wire[x], "bye"}
             \/ main = "app" /\ main' = "idle" /\ x = appssrc /\ wire'[x] = "late"
           Silent == \A x \in SSRCs : wire[x] \in {"bye", "late"} => Silenced(x)
<1>1. ThreadInv /\ [Next]_vars => Silent
  <2> SUFFICES ASSUME ThreadInv, [Next]_vars, NEW x \in SSRCs, wire[x] \in {"bye", "late"}
               PROVE  Silenced(x)
    OBVIOUS
  <2>1. /\ wire \in [SSRCs -> {"nothing", "data", "bye", "late"}]
        /\ byepackets \in Seq(SSRCs) /\ ssrc \in SSRCs
    BY DEF ThreadInv, Scalars
  <2> USE DEF history
  <2>6. ASSUME wire' = wire PROVE Silenced(x) BY <2>6
  <2>2. CASE BuildAndSend
    <3>1. main \notin {"byes", "destroyed"} BY <2>2 DEF BuildAndSend, ThreadInv, WhereInv
    <3> QED BY <2>1, <2>2, <3>1 DEF BuildAndSend, Sent, ThreadInv, ByeInv
  <2>3. CASE SendReport
    <3>1. main \notin {"byes", "destroyed"} BY <2>3 DEF SendReport, ThreadInv, WhereInv
    <3> QED BY <2>1, <2>3, <3>1 DEF SendReport, Sent, ThreadInv, ByeInv
  <2>4. CASE SendBYE BY <2>1, <2>4, Waiting DEF SendBYE, Sent
  <2>5. CASE SendLastBYE BY <2>1, <2>5, Waiting DEF SendLastBYE, Sent
  <2>14. CASE OnAPPPacket
    <3>1. main \notin {"byes", "destroyed"} BY <2>14 DEF OnAPPPacket, ThreadInv, WhereInv
    <3> QED BY <2>1, <2>14, <3>1 DEF OnAPPPacket, Sent, ThreadInv, ByeInv
  <2>15. CASE SendAPP
    <3>1. appssrc \in SSRCs BY <2>15 DEF SendAPP, ThreadInv, WhereInv
    <3> QED BY <2>1, <2>15, <3>1 DEF SendAPP, Sent
  <2>16. CASE WaitFails \/ ProcessingFails \/ SwitchSSRCFails \/ SendBYEFails \/ SendReportFails
    BY <2>6, <2>16 DEF WaitFails, ProcessingFails, SwitchSSRCFails, SendBYEFails,
           SendReportFails, Ends
  <2>17. CASE SendFails \/ APPFails BY <2>6, <2>17 DEF SendFails, APPFails
  <2>7. CASE UNCHANGED vars BY <2>6, <2>7 DEF vars
  <2>8. CASE GetTransmissionDelay \/ WaitForIncomingData \/ WaitEnds \/ ProcessPolledData
              \/ ReceiveRTP
    BY <2>6, <2>8 DEF GetTransmissionDelay, WaitForIncomingData, WaitEnds,
           ProcessPolledData, ReceiveRTP
  <2>9. CASE ReceiveRTCP \/ NextItem \/ LastItem \/ NoNewCollision
    BY <2>6, <2>9 DEF ReceiveRTCP, NextItem, LastItem, NoNewCollision
  <2>10. CASE NewCollision \/ BuildBYEPacket \/ CreateNewSSRC \/ SwitchSSRC \/ Timeouts
    BY <2>6, <2>10 DEF NewCollision, BuildBYEPacket, CreateNewSSRC, SwitchSSRC, Timeouts
  <2>11. CASE NotTime \/ OnPollThreadStep \/ StopOrLoop \/ SendPacket \/ MarkSender
    BY <2>6, <2>11 DEF NotTime, OnPollThreadStep, StopOrLoop, SendPacket, MarkSender
  <2>12. CASE MarkSent \/ SendRTCPAPPPacket \/ BYEDestroy \/ AbortWait
    BY <2>6, <2>12 DEF MarkSent, SendRTCPAPPPacket, BYEDestroy, AbortWait
  <2>13. CASE Joined \/ KillThread \/ AddBYE \/ DestroyAll
    BY <2>6, <2>13 DEF Joined, KillThread, AddBYE, DestroyAll
  <2> QED
    BY <2>2, <2>3, <2>4, <2>5, <2>7, <2>8, <2>9, <2>10, <2>11, <2>12, <2>13, <2>14, <2>15,
       <2>16, <2>17
    DEF Next, Poll, Receive, Finish, Error, Queue, Main, Destroying
<1>2. ThreadInv /\ [Next]_vars => [Silent]_vars BY <1>1
<1> QED BY <1>2, ThreadsInvariant, ThreadsStep, PTL DEF PSpec, SilentAfterBYE

(* The table the threads share is changed by whole steps of RtpSources only. *)
THEOREM WholeSteps == PSpec => OneAtATime
<1>1. ThreadInv /\ [Next]_vars => [OneStep]_vars BY OneTableStep
<1>2. OneAtATime <=> [][OneStep]_vars BY DEF OneAtATime, OneStep
<1> QED BY <1>1, <1>2, ThreadsInvariant, ThreadsStep, PTL DEF PSpec
-----------------------------------------------------------------------------
(* The packets built.                                                        *)

LEMMA SameCardinality == \A S : Packets!Cardinality(S) = Cardinality(S)
BY DEF Cardinality, Packets!Cardinality, IsFiniteSet, Packets!IsFiniteSet

(* Each CSRC is in the list once.                                            *)
ListInv ==
  /\ \A i, j \in DOMAIN csrcs : csrcs[i] = csrcs[j] => i = j
  /\ IsFiniteSet(askedcsrcs)

(* The timestamp compared with that of the packet before, and the one a      *)
(* report names, are the same as soon as there is a packet.                  *)
LastInv == sent # << >> => prevrtptimestamp = lastrtptimestamp

(* What is remembered of the packets sent                                    *)
Numbered == [number : 0 .. Numbers - 1, time : 0 .. TsMod - 1, at : Nat]

SentInv == sent \in Seq(Numbered) /\ LastInv

BuilderInv ==
  /\ Packets!TypeOK /\ Packets!CSRCsAsAsked /\ ListInv /\ SentInv
  /\ Packets!SentConsecutively /\ Packets!TimesBelongTogether

LEMMA PacketsType ==
  Packets!TypeOK /\ SentInv /\ numpackets = Len(sent) /\ [Packets!Next]_(Packets!vars)
    => Packets!TypeOK'
<1> SUFFICES ASSUME Packets!TypeOK, SentInv, numpackets = Len(sent), [Packets!Next]_(Packets!vars)
               PROVE Packets!TypeOK'
  OBVIOUS
<1> USE PacketsAssumption
    DEF Packets!TypeOK, Packets!NewStream, Packets!OnCSRCs, Packets!OnDefaults,
        Packets!times, Packets!stream, Packets!defaults, Packets!NoDefault
<1>1. ASSUME NEW max \in PacketSizes, Packets!InitBuilder(max) PROVE Packets!TypeOK'
  BY <1>1 DEF Packets!InitBuilder
<1>2. ASSUME NEW max \in PacketSizes, Packets!SetMaximumPacketSize(max) PROVE Packets!TypeOK'
  BY <1>2 DEF Packets!SetMaximumPacketSize
<1>3. CASE Packets!Destroy BY <1>3 DEF Packets!Destroy
<1>4. ASSUME NEW c \in CSRCs, Packets!AddCSRC(c) PROVE Packets!TypeOK'
  BY <1>4 DEF Packets!AddCSRC
<1>5. ASSUME NEW c \in CSRCs, Packets!DeleteCSRC(c) PROVE Packets!TypeOK'
  BY <1>5 DEF Packets!DeleteCSRC, Packets!Front, Packets!Last
<1>6. CASE Packets!ClearCSRCList BY <1>6 DEF Packets!ClearCSRCList
<1>7. CASE Packets!CreateNewSSRC BY <1>7 DEF Packets!CreateNewSSRC
<1>8. ASSUME NEW pt \in PayloadTypes, Packets!SetDefaultPayloadType(pt) PROVE Packets!TypeOK'
  BY <1>8 DEF Packets!SetDefaultPayloadType
<1>9. ASSUME NEW mark \in DefaultMarks, Packets!SetDefaultMark(mark) PROVE Packets!TypeOK'
  BY <1>9 DEF Packets!SetDefaultMark
<1>10. ASSUME NEW inc \in Incs, Packets!SetDefaultTimestampIncrement(inc) PROVE Packets!TypeOK'
  BY <1>10 DEF Packets!SetDefaultTimestampIncrement
<1>11. ASSUME NEW inc \in Incs \union {defaulttimestampinc}, Packets!IncrementTimestamp(inc)
       PROVE Packets!TypeOK'
  BY <1>11 DEF Packets!IncrementTimestamp
<1>12. ASSUME NEW p, NEW inc \in Incs, Packets!PrivateBuildPacket(p, inc) PROVE Packets!TypeOK'
  <2>1. /\ now' = now + 1 /\ numpackets' = numpackets + 1
        /\ timestamp' = (timestamp + inc) % TsMod /\ seqnr' = (seqnr + 1) % Numbers
        /\ now < MaxBuilds
    BY <1>12 DEF Packets!PrivateBuildPacket
  <2>2. /\ UNCHANGED <<init, packetsize, csrcs, askedcsrcs>>
        /\ UNCHANGED <<defaultpayloadtype, defaultmark, defaulttimestampinc>>
    BY <1>12 DEF Packets!PrivateBuildPacket
  <2>3. inc \in Nat /\ now \in Nat /\ timestamp \in Nat /\ seqnr \in Nat OBVIOUS
  <2>4. Len(sent') = Len(sent) + 1
    BY <1>12 DEF Packets!PrivateBuildPacket, SentInv
  <2>5. timestamp' \in 0 .. TsMod - 1 /\ seqnr' \in 0 .. Numbers - 1 BY <2>1, <2>3
  <2>6. /\ lastwallclocktime' \in {lastwallclocktime, now'}
        /\ lastrtptimestamp' \in {lastrtptimestamp, timestamp}
        /\ prevrtptimestamp' \in {prevrtptimestamp, timestamp}
    BY <1>12 DEF Packets!PrivateBuildPacket
  <2>7. Len(sent) \in Nat BY DEF SentInv
  <2>8. now' \in 0 .. MaxBuilds /\ numpackets' \in 0 .. MaxBuilds /\ Len(sent') <= now'
    BY <2>1, <2>3, <2>4, <2>7
  <2>9. {timestamp', lastrtptimestamp', prevrtptimestamp'} \subseteq 0 .. TsMod - 1
    BY <2>5, <2>6
  <2>10. {now', numpackets', lastwallclocktime'} \subseteq 0 .. MaxBuilds BY <2>6, <2>8
  <2> HIDE PacketsAssumption
  <2> QED BY <2>2, <2>5, <2>8, <2>9, <2>10
<1>13. ASSUME NEW p, Packets!BuildWithDefaults(p) PROVE Packets!TypeOK'
  BY <1>12, <1>13 DEF Packets!BuildWithDefaults
<1>14. CASE UNCHANGED Packets!vars BY <1>14 DEF Packets!vars
<1> QED
  BY <1>1, <1>2, <1>3, <1>4, <1>5, <1>6, <1>7, <1>8, <1>9, <1>10, <1>11, <1>12, <1>13, <1>14
  DEF Packets!Next

LEMMA ListAdd ==
  ASSUME Packets!TypeOK, Packets!CSRCsAsAsked, ListInv, NEW c \in CSRCs, Packets!AddCSRC(c)
  PROVE  Packets!CSRCsAsAsked' /\ ListInv'
<1> USE PacketsAssumption DEF Packets!TypeOK, Packets!CSRCsAsAsked, ListInv
<1>1. /\ Len(csrcs) < MaxCSRCs /\ c \notin Packets!ToSet(csrcs)
      /\ csrcs' = Append(csrcs, c) /\ askedcsrcs' = askedcsrcs \union {c}
  BY DEF Packets!AddCSRC, Packets!OnCSRCs
<1>2. Packets!ToSet(csrcs') = askedcsrcs'
  <2> DEFINE n == Len(csrcs)
  <2>1. n \in Nat /\ DOMAIN csrcs = 1 .. n OBVIOUS
  <2>2. /\ DOMAIN csrcs' = 1 .. n + 1
        /\ \A i \in 1 .. n : csrcs'[i] = csrcs[i]
        /\ csrcs'[n + 1] = c
    BY <1>1
  <2>3. \A x : x \in askedcsrcs <=> \E i \in 1 .. n : csrcs[i] = x
    BY <2>1 DEF Packets!ToSet
  <2> HIDE DEF n
  <2>4. \A x : x \in Packets!ToSet(csrcs') <=> \E i \in 1 .. n + 1 : csrcs'[i] = x
    BY <2>2, Zenon DEF Packets!ToSet
  <2>5. /\ \A i \in 1 .. n + 1 : i \in 1 .. n \/ i = n + 1
        /\ \A i \in 1 .. n : i \in 1 .. n + 1
        /\ n + 1 \in 1 .. n + 1
    BY <2>1
  <2>6. \A x : x \in Packets!ToSet(csrcs') <=> x \in askedcsrcs \/ x = c
    BY <2>2, <2>3, <2>4, <2>5, Zenon
  <2> QED BY <1>1, <2>6
<1>3. c \notin askedcsrcs BY <1>1
<1>4. Cardinality(askedcsrcs') = Cardinality(askedcsrcs) + 1 /\ IsFiniteSet(askedcsrcs')
  BY <1>1, <1>3, FS_AddElement
<1>5. Len(csrcs') = Len(csrcs) + 1 BY <1>1
<1>6. \A i, j \in DOMAIN csrcs' : csrcs'[i] = csrcs'[j] => i = j
  BY <1>1 DEF Packets!ToSet
<1> QED BY <1>1, <1>2, <1>4, <1>5, <1>6, SameCardinality

LEMMA ListDelete ==
  ASSUME Packets!TypeOK, Packets!CSRCsAsAsked, ListInv, NEW c \in CSRCs, Packets!DeleteCSRC(c)
  PROVE  Packets!CSRCsAsAsked' /\ ListInv'
<1> USE PacketsAssumption DEF Packets!TypeOK, Packets!CSRCsAsAsked, ListInv
<1>1. PICK i \in DOMAIN csrcs :
        /\ csrcs[i] = c
        /\ csrcs' = Packets!Front([csrcs EXCEPT ![i] = Packets!Last(csrcs)])
        /\ askedcsrcs' = askedcsrcs \ {c}
  BY DEF Packets!DeleteCSRC, Packets!OnCSRCs
<1> DEFINE n == Len(csrcs)
<1>2. n \in Nat /\ n > 0 /\ i \in 1 .. n BY <1>1
<1>3. csrcs' = [j \in 1 .. n - 1 |-> IF j = i THEN csrcs[n] ELSE csrcs[j]]
  BY <1>1, <1>2 DEF Packets!Front, Packets!Last
<1>4. Len(csrcs') = n - 1 /\ DOMAIN csrcs' = 1 .. n - 1 BY <1>2, <1>3
<1>5. \A j \in 1 .. n - 1 : csrcs'[j] = IF j = i THEN csrcs[n] ELSE csrcs[j]
  BY <1>3
<1>6. \A j, k \in 1 .. n : csrcs[j] = csrcs[k] => j = k BY <1>2
<1>7. /\ csrcs[i] = c /\ askedcsrcs' = askedcsrcs \ {c}
      /\ \A x : x \in askedcsrcs <=> \E j \in 1 .. n : csrcs[j] = x
  <2>1. DOMAIN csrcs = 1 .. n OBVIOUS
  <2>2. askedcsrcs = Packets!ToSet(csrcs) OBVIOUS
  <2>3. \A x : x \in Packets!ToSet(csrcs) <=> \E j \in DOMAIN csrcs : csrcs[j] = x
    BY Zenon DEF Packets!ToSet
  <2> HIDE DEF n, Packets!TypeOK, Packets!CSRCsAsAsked, ListInv
  <2> QED BY <1>1, <2>1, <2>2, <2>3, Zenon
<1> HIDE DEF n
<1>8. ASSUME NEW j \in 1 .. n - 1, NEW k \in 1 .. n - 1, csrcs'[j] = csrcs'[k]
      PROVE  j = k
  <2>1. j \in 1 .. n /\ k \in 1 .. n /\ n \in 1 .. n /\ j # n /\ k # n BY <1>2
  <2>2. /\ csrcs'[j] = IF j = i THEN csrcs[n] ELSE csrcs[j]
        /\ csrcs'[k] = IF k = i THEN csrcs[n] ELSE csrcs[k]
    BY <1>5
  <2> QED BY <1>6, <1>8, <2>1, <2>2
<1>9. Packets!ToSet(csrcs') = askedcsrcs'
  <2>1. \A x : x \in Packets!ToSet(csrcs') <=> \E j \in 1 .. n - 1 : csrcs'[j] = x
    BY <1>4 DEF Packets!ToSet
  <2>2. ASSUME NEW j \in 1 .. n - 1 PROVE csrcs'[j] \in askedcsrcs \ {c}
    <3>1. j \in 1 .. n /\ n \in 1 .. n /\ j # n BY <1>2
    <3>2. csrcs'[j] = IF j = i THEN csrcs[n] ELSE csrcs[j] BY <1>5
    <3> QED BY <1>2, <1>6, <1>7, <3>1, <3>2
  <2>3. ASSUME NEW x \in askedcsrcs, x # c PROVE \E j \in 1 .. n - 1 : csrcs'[j] = x
    <3>1. PICK j \in 1 .. n : csrcs[j] = x BY <1>7
    <3>2. CASE j = n
      <4>1. i # n /\ i \in 1 .. n - 1 BY <1>2, <1>7, <2>3, <3>1, <3>2
      <4> QED BY <1>5, <3>1, <3>2, <4>1
    <3>3. CASE j # n
      <4>1. j # i /\ j \in 1 .. n - 1 BY <1>2, <1>7, <2>3, <3>1, <3>3
      <4> QED BY <1>5, <3>1, <4>1
    <3> QED BY <3>2, <3>3
  <2> QED BY <1>7, <2>1, <2>2, <2>3
<1>10. c \in askedcsrcs BY <1>2, <1>7
<1>11. Cardinality(askedcsrcs') = Cardinality(askedcsrcs) - 1 /\ IsFiniteSet(askedcsrcs')
  BY <1>7, <1>10, FS_RemoveElement
<1>12. n = Cardinality(askedcsrcs) /\ n <= MaxCSRCs BY SameCardinality DEF n
<1> QED BY <1>2, <1>4, <1>8, <1>9, <1>11, <1>12, SameCardinality

LEMMA ListClear == Packets!ClearCSRCList => Packets!CSRCsAsAsked' /\ ListInv'
BY PacketsAssumption, FS_EmptySet, SameCardinality
DEF Packets!ClearCSRCList, Packets!OnCSRCs, Packets!CSRCsAsAsked, ListInv, Packets!ToSet

LEMMA DivMod ==
  ASSUME NEW m \in Nat \ {0}, NEW i \in Int
  PROVE  i \div m \in Int /\ (i % m) \in 0 .. m - 1 /\ i = m * (i \div m) + (i % m)
OBVIOUS

LEMMA FullRounds ==
  ASSUME NEW m \in Nat \ {0}, NEW q \in Int, NEW r \in 0 .. m - 1
  PROVE  (m * q + r) % m = r
OBVIOUS

LEMMA OneRound ==
  ASSUME NEW m \in Nat \ {0}, NEW i \in Int
  PROVE  (i + m) % m = i % m
<1> DEFINE q == i \div m
           r == i % m
<1>1. q \in Int /\ r \in 0 .. m - 1 /\ i = m * q + r BY DivMod
<1>2. q + 1 \in Int /\ (m * (q + 1) + r) % m = r
  <2> HIDE DEF q, r
  <2> QED BY <1>1, FullRounds
<1>3. i + m = m * (q + 1) + r
  <2> HIDE DEF q, r
  <2>1. m * (q + 1) = m * q + m BY <1>1
  <2> DEFINE a == m * q
             b == m * (q + 1)
  <2>2. a \in Int /\ b \in Int /\ b = a + m /\ i = a + r BY <1>1, <2>1
  <2> HIDE DEF a, b
  <2>3. i + m = b + r BY <1>1, <2>2
  <2> QED BY <2>3 DEF b
<1> QED BY <1>2, <1>3

LEMMA NextNumber ==
  \A n \in Nat \ {0}, l, k \in Nat : \A s \in 0 .. n - 1 :
    /\ (((s + 1) % n) + n * (l + 1) - (k + 1)) % n = (s + n * l - k) % n
    /\ (((s + 1) % n) + n * (l + 1) - 1) % n = s
<1> SUFFICES ASSUME NEW n \in Nat \ {0}, NEW l \in Nat, NEW k \in Nat, NEW s \in 0 .. n - 1
             PROVE  /\ (((s + 1) % n) + n * (l + 1) - (k + 1)) % n = (s + n * l - k) % n
                    /\ (((s + 1) % n) + n * (l + 1) - 1) % n = s
  OBVIOUS
<1> DEFINE m == n * l
<1>1. m \in Nat /\ n * (l + 1) = m + n OBVIOUS
<1>2. (m + s) % n = s BY FullRounds
<1> HIDE DEF m
<1>3. (s + m) % n = s /\ s + m - k \in Int /\ s + m \in Int BY <1>1, <1>2
<1>4. /\ ((s + m - k) + n) % n = (s + m - k) % n
      /\ ((s + m) + n) % n = (s + m) % n
  BY <1>3, OneRound
<1>5. /\ (((s + 1) % n) + (m + n) - (k + 1)) % n = (s + m - k) % n
      /\ (((s + 1) % n) + (m + n) - 1) % n = s
  <2>1. CASE s + 1 < n
    <3>1. (s + 1) % n = s + 1 BY <2>1
    <3>2. (s + 1) + (m + n) - (k + 1) = (s + m - k) + n BY <1>1
    <3>3. (s + 1) + (m + n) - 1 = (s + m) + n BY <1>1
    <3> QED BY <1>3, <1>4, <3>1, <3>2, <3>3
  <2>2. CASE s + 1 = n
    <3>1. (s + 1) % n = 0 BY <2>2
    <3>2. 0 + (m + n) - (k + 1) = s + m - k BY <1>1, <2>2
    <3>3. 0 + (m + n) - 1 = s + m BY <1>1, <2>2
    <3> QED BY <1>3, <3>1, <3>2, <3>3
  <2> QED BY <2>1, <2>2
<1> QED BY <1>1, <1>5 DEF m

LEMMA PacketBuilt ==
  ASSUME BuilderInv, NEW p, NEW inc, Packets!PrivateBuildPacket(p, inc)
  PROVE  SentInv' /\ Packets!SentConsecutively' /\ Packets!TimesBelongTogether'
<1> USE PacketsAssumption
<1> DEFINE n == Len(sent)
           new == [number |-> seqnr, time |-> timestamp, at |-> now + 1]
<1>1. /\ sent \in Seq(Numbered) /\ now \in Nat /\ seqnr \in 0 .. Numbers - 1
      /\ timestamp \in 0 .. TsMod - 1 /\ numpackets = n /\ n \in Nat
  BY DEF BuilderInv, SentInv, Packets!TypeOK, Packets!SentConsecutively
<1>2. /\ sent' = Append(sent, new) /\ now' = now + 1
      /\ seqnr' = (seqnr + 1) % Numbers /\ numpackets' = n + 1
  BY <1>1 DEF Packets!PrivateBuildPacket
<1>3. new \in Numbered BY <1>1 DEF Numbered
<1>4. /\ sent' \in Seq(Numbered) /\ Len(sent') = n + 1
      /\ \A i \in 1 .. n : sent'[i] = sent[i]
      /\ sent'[n + 1] = new
  BY <1>1, <1>2, <1>3
<1>5. sent' # << >> BY <1>1, <1>4
<1>6. IF n = 0 \/ timestamp # prevrtptimestamp
      THEN /\ lastwallclocktime' = now + 1
           /\ lastrtptimestamp' = timestamp
           /\ prevrtptimestamp' = timestamp
      ELSE UNCHANGED <<lastwallclocktime, lastrtptimestamp, prevrtptimestamp>>
  BY <1>1 DEF Packets!PrivateBuildPacket
<1> HIDE DEF new
<1>7. LastInv /\ Packets!TimesBelongTogether /\ Packets!SentConsecutively
  BY DEF BuilderInv, SentInv
<1>8. SentInv'
  BY <1>1, <1>4, <1>6, <1>7 DEF SentInv, LastInv, Numbered
<1>9. Packets!SentConsecutively'
  <2>1. ASSUME NEW i \in 1 .. n
        PROVE  sent'[i].number = (seqnr' + Numbers * (n + 1) - ((n + 1) + 1 - i)) % Numbers
    <3> DEFINE k == n + 1 - i
    <3>1. k \in Nat /\ (n + 1) + 1 - i = k + 1 BY <1>1
    <3>2. i \in DOMAIN sent BY <1>1
    <3>3. sent[i].number = (seqnr + Numbers * n - k) % Numbers
      BY <1>7, <3>2 DEF Packets!SentConsecutively
    <3> HIDE DEF k, n
    <3>4. (((seqnr + 1) % Numbers) + Numbers * (n + 1) - (k + 1)) % Numbers
            = (seqnr + Numbers * n - k) % Numbers
      BY <1>1, <3>1, NextNumber
    <3> QED BY <1>2, <1>4, <3>1, <3>3, <3>4
  <2>2. sent'[n + 1].number = (seqnr' + Numbers * (n + 1) - ((n + 1) + 1 - (n + 1))) % Numbers
    <3>1. (n + 1) + 1 - (n + 1) = 1 BY <1>1
    <3>2. sent'[n + 1].number = seqnr BY <1>4 DEF new
    <3> HIDE DEF n
    <3>3. 0 \in Nat /\ (seqnr' + Numbers * (n + 1) - 1) % Numbers = seqnr
      BY <1>1, <1>2, NextNumber
    <3> QED BY <3>1, <3>2, <3>3
  <2>3. DOMAIN sent' = 1 .. n + 1 BY <1>1, <1>4
  <2>4. numpackets' = Len(sent') BY <1>2, <1>4
  <2>5. ASSUME NEW i \in DOMAIN sent'
        PROVE  sent'[i].number = (seqnr' + Numbers * (n + 1) - ((n + 1) + 1 - i)) % Numbers
    <3>1. i \in 1 .. n \/ i = n + 1 BY <1>1, <2>3
    <3> HIDE DEF n
    <3> QED BY <2>1, <2>2, <3>1
  <2> HIDE DEF n
  <2> QED BY <1>4, <2>4, <2>5 DEF Packets!SentConsecutively
<1>10. Packets!TimesBelongTogether'
  <2>1. new.time = timestamp /\ new.at = now + 1 BY DEF new
  <2>2. CASE n = 0
    <3>1. DOMAIN sent' = 1 .. 1 BY <1>4, <2>2
    <3> QED BY <1>4, <1>6, <2>1, <2>2, <3>1 DEF Packets!TimesBelongTogether
  <2>3. CASE n # 0
    <3>1. sent # << >> BY <1>1, <2>3
    <3>2. PICK i \in 1 .. n :
            /\ sent[i].time = lastrtptimestamp /\ sent[i].at = lastwallclocktime
            /\ \A j \in i .. n : sent[j].time = lastrtptimestamp
            /\ i > 1 => sent[i - 1].time # lastrtptimestamp
      BY <1>1, <1>7, <3>1 DEF Packets!TimesBelongTogether
    <3>3. prevrtptimestamp = lastrtptimestamp BY <1>7, <3>1 DEF LastInv
    <3>4. DOMAIN sent' = 1 .. n + 1 BY <1>1, <1>4
    <3>5. CASE timestamp = prevrtptimestamp
      <4>1. /\ i \in DOMAIN sent' /\ sent'[i].time = lastrtptimestamp'
            /\ sent'[i].at = lastwallclocktime'
        BY <1>1, <1>4, <1>6, <2>3, <3>2, <3>4, <3>5
      <4>2. \A j \in i .. Len(sent') : sent'[j].time = lastrtptimestamp'
        BY <1>1, <1>4, <1>6, <2>1, <2>3, <3>2, <3>3, <3>5
      <4>3. i > 1 => sent'[i - 1].time # lastrtptimestamp'
        BY <1>1, <1>4, <1>6, <2>3, <3>2, <3>5
      <4> QED BY <4>1, <4>2, <4>3 DEF Packets!TimesBelongTogether
    <3>6. CASE timestamp # prevrtptimestamp
      <4>1. lastrtptimestamp' = timestamp /\ lastwallclocktime' = now + 1 BY <1>6, <3>6
      <4>2. sent'[n].time = lastrtptimestamp BY <1>1, <1>4, <2>3, <3>2
      <4>3. n + 1 \in DOMAIN sent' /\ (n + 1) - 1 = n /\ (n + 1) .. Len(sent') = {n + 1}
        BY <1>1, <1>4, <3>4
      <4> HIDE DEF n
      <4> QED BY <1>4, <2>1, <3>3, <3>6, <4>1, <4>2, <4>3 DEF Packets!TimesBelongTogether
    <3> QED BY <3>5, <3>6
  <2> QED BY <2>2, <2>3
<1> QED BY <1>8, <1>9, <1>10

LEMMA BuilderInit == Packets!Init => BuilderInv
<1> SUFFICES ASSUME Packets!Init PROVE BuilderInv OBVIOUS
<1> USE PacketsAssumption DEF Packets!Init
<1>1. Packets!TypeOK
  <2>1. packetsize \in PacketSizes OBVIOUS
  <2>2. init \in BOOLEAN OBVIOUS
  <2>6. csrcs \in Seq(CSRCs) /\ askedcsrcs \subseteq CSRCs OBVIOUS
  <2>3. {timestamp, lastrtptimestamp, prevrtptimestamp} \subseteq 0 .. TsMod - 1 OBVIOUS
  <2>4. seqnr \in 0 .. Numbers - 1 /\ Len(sent) <= now OBVIOUS
  <2>5. {now, numpackets, lastwallclocktime} \subseteq 0 .. MaxBuilds OBVIOUS
  <2> QED BY <2>1, <2>2, <2>3, <2>4, <2>5, <2>6 DEF Packets!TypeOK, Packets!NoDefault
<1>2. Packets!CSRCsAsAsked /\ ListInv
  BY FS_EmptySet, SameCardinality DEF Packets!CSRCsAsAsked, ListInv, Packets!ToSet
<1>3. SentInv /\ Packets!SentConsecutively /\ Packets!TimesBelongTogether
  BY DEF SentInv, LastInv, Packets!SentConsecutively, Packets!TimesBelongTogether
<1> QED BY <1>1, <1>2, <1>3 DEF BuilderInv

LEMMA BuilderNext == BuilderInv /\ [Packets!Next]_(Packets!vars) => BuilderInv'
<1> SUFFICES ASSUME BuilderInv, [Packets!Next]_(Packets!vars) PROVE BuilderInv' OBVIOUS
<1> DEFINE ListOK == Packets!CSRCsAsAsked /\ ListInv
           StreamOK == SentInv /\ Packets!SentConsecutively /\ Packets!TimesBelongTogether
           SameList == csrcs' = csrcs /\ askedcsrcs' = askedcsrcs
           SameStream == /\ sent' = sent /\ seqnr' = seqnr /\ numpackets' = numpackets
                         /\ lastwallclocktime' = lastwallclocktime
                         /\ lastrtptimestamp' = lastrtptimestamp
                         /\ prevrtptimestamp' = prevrtptimestamp
<1>1. SameList => ListOK'
  BY DEF BuilderInv, Packets!CSRCsAsAsked, ListInv, Packets!ToSet
<1>2. SameStream => StreamOK'
  BY DEF BuilderInv, SentInv, LastInv, Packets!SentConsecutively, Packets!TimesBelongTogether
<1>3. Packets!NewStream => StreamOK'
  BY DEF Packets!NewStream, SentInv, LastInv, Packets!SentConsecutively,
     Packets!TimesBelongTogether
<1> HIDE DEF ListOK, StreamOK
<1>4. ASSUME NEW max \in PacketSizes, Packets!InitBuilder(max) PROVE ListOK' /\ StreamOK'
  <2>1. csrcs' = << >> /\ askedcsrcs' = {} /\ Packets!NewStream
    BY <1>4 DEF Packets!InitBuilder
  <2>2. ListOK'
    BY <2>1, PacketsAssumption, FS_EmptySet, SameCardinality
    DEF Packets!CSRCsAsAsked, ListInv, Packets!ToSet, ListOK
  <2> QED BY <1>3, <2>1, <2>2
<1>5. ASSUME NEW c \in CSRCs, Packets!AddCSRC(c) PROVE ListOK' /\ StreamOK'
  <2>1. ListOK' BY <1>5, ListAdd DEF BuilderInv, ListOK
  <2>2. SameStream
    BY <1>5 DEF Packets!AddCSRC, Packets!OnCSRCs, Packets!stream, Packets!times
  <2> QED BY <1>2, <2>1, <2>2
<1>6. ASSUME NEW c \in CSRCs, Packets!DeleteCSRC(c) PROVE ListOK' /\ StreamOK'
  <2>1. ListOK' BY <1>6, ListDelete DEF BuilderInv, ListOK
  <2>2. SameStream
    BY <1>6 DEF Packets!DeleteCSRC, Packets!OnCSRCs, Packets!stream, Packets!times
  <2> QED BY <1>2, <2>1, <2>2
<1>7. ASSUME Packets!ClearCSRCList PROVE ListOK' /\ StreamOK'
  <2>1. ListOK' BY <1>7, ListClear DEF ListOK
  <2>2. SameStream
    BY <1>7 DEF Packets!ClearCSRCList, Packets!OnCSRCs, Packets!stream, Packets!times
  <2> QED BY <1>2, <2>1, <2>2
<1>8. ASSUME Packets!CreateNewSSRC PROVE ListOK' /\ StreamOK'
  <2>1. SameList /\ Packets!NewStream BY <1>8 DEF Packets!CreateNewSSRC
  <2> QED BY <1>1, <1>3, <2>1
<1>9. ASSUME NEW p, NEW inc, Packets!PrivateBuildPacket(p, inc) PROVE ListOK' /\ StreamOK'
  <2>1. SameList BY <1>9 DEF Packets!PrivateBuildPacket
  <2> QED BY <1>1, <1>9, <2>1, PacketBuilt DEF StreamOK
<1>10. ASSUME SameList, SameStream PROVE ListOK' /\ StreamOK' BY <1>1, <1>2, <1>10
<1>11. ASSUME NEW max \in PacketSizes, Packets!SetMaximumPacketSize(max)
       PROVE ListOK' /\ StreamOK'
  BY <1>10, <1>11 DEF Packets!SetMaximumPacketSize, Packets!stream, Packets!times
<1>12. ASSUME Packets!Destroy PROVE ListOK' /\ StreamOK'
  BY <1>10, <1>12 DEF Packets!Destroy, Packets!stream, Packets!times
<1>13. ASSUME Packets!OnDefaults PROVE ListOK' /\ StreamOK'
  BY <1>10, <1>13 DEF Packets!OnDefaults, Packets!stream, Packets!times
<1>14. ASSUME NEW inc, Packets!IncrementTimestamp(inc) PROVE ListOK' /\ StreamOK'
  BY <1>10, <1>14 DEF Packets!IncrementTimestamp, Packets!times
<1>15. ASSUME UNCHANGED Packets!vars PROVE ListOK' /\ StreamOK'
  BY <1>10, <1>15 DEF Packets!vars, Packets!stream, Packets!times
<1>16. ListOK' /\ StreamOK'
  BY <1>4, <1>5, <1>6, <1>7, <1>8, <1>9, <1>11, <1>12, <1>13, <1>14, <1>15
  DEF Packets!Next, Packets!SetDefaultPayloadType, Packets!SetDefaultMark,
      Packets!SetDefaultTimestampIncrement, Packets!BuildWithDefaults
<1>17. numpackets = Len(sent) BY DEF BuilderInv, Packets!SentConsecutively
<1>18. Packets!TypeOK' BY <1>17, PacketsType DEF BuilderInv
<1> QED BY <1>16, <1>18 DEF BuilderInv, ListOK, StreamOK

(* Two sequences one after the other                                         *)
InARow(u, s, t) ==
  /\ Len(u) = Len(s) + Len(t)
  /\ \A i \in 1 .. Len(s) : u[i] = s[i]
  /\ \A i \in 1 .. Len(t) : u[Len(s) + i] = t[i]

LEMMA Concatenation ==
  ASSUME NEW S, NEW s \in Seq(S), NEW t \in Seq(S)
  PROVE  s \o t \in Seq(S) /\ InARow(s \o t, s, t)
BY DEF InARow

(* Where the cells of a packet are.                                          *)
Cell == ({"csrc"} \X CSRCs) \union ({"ext", "word", "data", "pad"} \X Nat)

Extensions == {Packets!NoExtension, 0, 2}
Lengths == 0 .. 2

Body(ext, len) ==
  [i \in DOMAIN csrcs |-> <<"csrc", csrcs[i]>>]
    \o Packets!Extension(ext) \o Packets!Cells(Packets!Data, len)
PaddedBody(ext, len, pad) ==
  IF pad = 0 THEN Body(ext, len) ELSE Body(ext, len) \o [i \in 1 .. pad |-> <<"pad", pad>>]
ExtensionCells(ext) == IF ext = Packets!NoExtension THEN 0 ELSE ext + 1

LaidOut(full, ext, len, pad) ==
  LET n == Len(csrcs)
      e == ExtensionCells(ext)
  IN  /\ full \in Seq(Cell) /\ Len(full) = n + e + len + pad
      /\ e \in Nat
      /\ \A i \in 1 .. n : full[i] = <<"csrc", csrcs[i]>>
      /\ ext # Packets!NoExtension =>
           /\ full[n + 1] = <<"ext", ext>>
           /\ \A i \in 1 .. ext : full[n + (1 + i)] = <<"word", i>>
      /\ \A i \in 1 .. len : full[n + e + i] = <<"data", i>>
      /\ pad # 0 => full[Len(full)] = <<"pad", pad>>

LEMMA Layout ==
  ASSUME csrcs \in Seq(CSRCs),
         NEW ext \in Extensions, NEW len \in Lengths, NEW pad \in Lengths
  PROVE  LaidOut(PaddedBody(ext, len, pad), ext, len, pad)
<1> DEFINE n == Len(csrcs)
           e == ExtensionCells(ext)
           body == Body(ext, len)
           full == PaddedBody(ext, len, pad)
           C == [i \in DOMAIN csrcs |-> <<"csrc", csrcs[i]>>]
           E == Packets!Extension(ext)
           D == Packets!Cells(Packets!Data, len)
           P == [i \in 1 .. pad |-> <<"pad", pad>>]
           W == Packets!Cells(Packets!Word, ext)
           H == << <<"ext", ext>> >>
<1>0. ext \in {Packets!NoExtension, 0, 2} /\ len \in 0 .. 2 /\ pad \in 0 .. 2
  BY DEF Extensions, Lengths
<1>1. n \in Nat /\ DOMAIN csrcs = 1 .. n /\ len \in Nat /\ pad \in Nat BY <1>0
<1>2. C \in Seq(Cell) /\ Len(C) = n /\ \A i \in 1 .. n : C[i] = <<"csrc", csrcs[i]>>
  BY <1>1 DEF Cell
<1>3. D \in Seq(Cell) /\ Len(D) = len /\ \A i \in 1 .. len : D[i] = <<"data", i>>
  BY <1>0 DEF Packets!Cells, Packets!Data, Cell
<1>4. P \in Seq(Cell) /\ Len(P) = pad /\ \A i \in 1 .. pad : P[i] = <<"pad", pad>>
  BY <1>0 DEF Cell
<1>5. /\ E \in Seq(Cell) /\ Len(E) = e /\ e \in Nat
      /\ ext # Packets!NoExtension =>
           /\ 1 \in 1 .. e /\ E[1] = <<"ext", ext>>
           /\ \A i \in 1 .. ext : 1 + i \in 1 .. e /\ E[1 + i] = <<"word", i>>
  <2>1. CASE ext = Packets!NoExtension BY <2>1 DEF Packets!Extension, ExtensionCells
  <2>2. CASE ext # Packets!NoExtension
    <3>1. ext \in Nat /\ e = 1 + ext BY <1>0, <2>2 DEF ExtensionCells
    <3>2. W = [i \in 1 .. ext |-> <<"word", i>>] BY DEF Packets!Cells, Packets!Word
    <3>3. W \in Seq(Cell) /\ Len(W) = ext /\ \A i \in 1 .. ext : W[i] = <<"word", i>>
      BY <3>1, <3>2 DEF Cell
    <3>4. H \in Seq(Cell) /\ Len(H) = 1 /\ H[1] = <<"ext", ext>> BY <3>1 DEF Cell
    <3>5. E = H \o W BY <2>2 DEF Packets!Extension
    <3> HIDE DEF H, W, E
    <3>6. E \in Seq(Cell) /\ InARow(E, H, W) BY <3>3, <3>4, <3>5, Concatenation
    <3>7. /\ Len(E) = 1 + ext
          /\ \A i \in 1 .. 1 : E[i] = H[i]
          /\ \A i \in 1 .. ext : E[1 + i] = W[i]
      BY <3>3, <3>4, <3>6 DEF InARow
    <3>8. 1 \in 1 .. e /\ 1 \in 1 .. 1 /\ \A i \in 1 .. ext : 1 + i \in 1 .. e BY <3>1
    <3>9. E[1] = <<"ext", ext>> BY <3>4, <3>7, <3>8
    <3>10. ASSUME NEW i \in 1 .. ext PROVE 1 + i \in 1 .. e /\ E[1 + i] = <<"word", i>>
      BY <3>3, <3>7, <3>8
    <3>11. Len(E) = e /\ e \in Nat BY <3>1, <3>7
    <3> QED BY <3>6, <3>8, <3>9, <3>10, <3>11
  <2> QED BY <2>1, <2>2
<1> DEFINE CE == C \o E
<1>6. body = CE \o D /\ (pad # 0 => full = body \o P) /\ (pad = 0 => full = body)
  BY DEF Body, PaddedBody
<1> HIDE DEF C, D, E, P, n, e, body, full
<1>7. /\ CE \in Seq(Cell) /\ Len(CE) = n + e
      /\ \A i \in 1 .. n : CE[i] = C[i]
      /\ \A i \in 1 .. e : CE[n + i] = E[i]
  <2>1. CE \in Seq(Cell) /\ InARow(CE, C, E) BY <1>2, <1>5, Concatenation
  <2> HIDE DEF CE
  <2> QED BY <1>2, <1>5, <2>1 DEF InARow
<1>8. /\ body \in Seq(Cell) /\ Len(body) = n + e + len
      /\ \A i \in 1 .. n + e : body[i] = CE[i]
      /\ \A i \in 1 .. len : body[n + e + i] = D[i]
  <2> HIDE DEF CE
  <2>1. body \in Seq(Cell) /\ InARow(body, CE, D) BY <1>3, <1>6, <1>7, Concatenation
  <2> QED BY <1>3, <1>7, <2>1 DEF InARow
<1> HIDE DEF CE
<1>9. /\ full \in Seq(Cell) /\ Len(full) = n + e + len + pad
      /\ \A i \in 1 .. n + e + len : full[i] = body[i]
      /\ pad # 0 => full[n + e + len + pad] = <<"pad", pad>>
  <2>1. CASE pad = 0
    <3>1. n + e + len + pad = n + e + len BY <1>1, <1>5, <2>1 DEF n
    <3> QED BY <1>6, <1>8, <2>1, <3>1
  <2>2. CASE pad # 0
    <3>1. full \in Seq(Cell) /\ InARow(full, body, P)
      BY <1>4, <1>6, <1>8, <2>2, Concatenation
    <3>2. /\ Len(full) = n + e + len + pad
          /\ \A i \in 1 .. n + e + len : full[i] = body[i]
          /\ \A i \in 1 .. pad : full[n + e + len + i] = P[i]
      BY <1>4, <1>8, <3>1 DEF InARow
    <3>3. pad \in 1 .. pad BY <1>1, <2>2
    <3>4. full[n + e + len + pad] = P[pad] BY <3>2, <3>3
    <3> QED BY <1>4, <3>1, <3>2, <3>3, <3>4
  <2> QED BY <2>1, <2>2
<1>10. /\ \A i \in 1 .. n : i \in 1 .. n + e /\ i \in 1 .. n + e + len
       /\ \A i \in 1 .. e : n + i \in 1 .. n + e /\ n + i \in 1 .. n + e + len
       /\ \A i \in 1 .. len : n + e + i \in 1 .. n + e + len
  BY <1>1, <1>5
<1>11. ASSUME NEW i \in 1 .. n PROVE full[i] = <<"csrc", csrcs[i]>>
  <2>1. full[i] = body[i] BY <1>9, <1>10
  <2>2. body[i] = CE[i] BY <1>8, <1>10
  <2>3. CE[i] = C[i] BY <1>7
  <2> QED BY <1>2, <2>1, <2>2, <2>3
<1>12. ASSUME NEW i \in 1 .. e PROVE full[n + i] = E[i]
  <2>1. full[n + i] = body[n + i] BY <1>9, <1>10
  <2>2. body[n + i] = CE[n + i] BY <1>8, <1>10
  <2>3. CE[n + i] = E[i] BY <1>7
  <2> QED BY <2>1, <2>2, <2>3
<1>13. ASSUME NEW i \in 1 .. len PROVE full[n + e + i] = <<"data", i>>
  <2>1. full[n + e + i] = body[n + e + i] BY <1>9, <1>10
  <2>2. body[n + e + i] = D[i] BY <1>8
  <2> QED BY <1>3, <2>1, <2>2
<1> QED BY <1>5, <1>9, <1>11, <1>12, <1>13 DEF n, e, full, LaidOut

LEMMA Slice ==
  ASSUME NEW s \in Seq(Cell), NEW a \in Nat, NEW k \in Nat, a + k <= Len(s)
  PROVE  SubSeq(s, a + 1, a + k) = [i \in 1 .. k |-> s[a + i]]
<1>1. SubSeq(s, a + 1, a + k) = [i \in 1 .. (a + k) - (a + 1) + 1 |-> s[i + (a + 1) - 1]]
  OBVIOUS
<1>2. (a + k) - (a + 1) + 1 = k OBVIOUS
<1>3. \A i \in 1 .. k : i + (a + 1) - 1 = a + i OBVIOUS
<1> QED BY <1>1, <1>2, <1>3

LEMMA Parsed == Packets!TypeOK => Packets!BuiltIsParsed
<1> SUFFICES ASSUME Packets!TypeOK, NEW p \in Packets!Packets, NEW pad \in 0 .. 2,
                    Packets!Built(p) # Packets!Refused
             PROVE  Packets!ParseRawPacket(Packets!Padded(Packets!Built(p), pad)) =
                      [csrcs |-> csrcs,
                       ext |-> IF p.ext = Packets!NoExtension THEN Packets!NoExtension
                               ELSE Packets!Cells(Packets!Word, p.ext),
                       payload |-> Packets!Cells(Packets!Data, p.len), mark |-> p.mark,
                       payloadtype |-> p.payloadtype, number |-> seqnr, time |-> timestamp]
  BY DEF Packets!BuiltIsParsed
<1> DEFINE n == Len(csrcs)
           e == ExtensionCells(p.ext)
           body == Body(p.ext, p.len)
           full == PaddedBody(p.ext, p.len, pad)
           extended == p.ext # Packets!NoExtension
           raw == [padding |-> FALSE, marker |-> p.mark, extension |-> extended,
                   csrccount |-> n, payloadtype |-> p.payloadtype,
                   sequencenumber |-> seqnr, timestamp |-> timestamp]
           packet == Packets!Padded(Packets!Built(p), pad)
           h == packet.header
<1>1. csrcs \in Seq(CSRCs) /\ n \in Nat BY DEF Packets!TypeOK
<1>2. /\ p.ext \in {Packets!NoExtension, 0, 2} /\ p.len \in 0 .. 2 /\ p.mark \in BOOLEAN
  BY DEF Packets!Packets
<1>3. /\ full \in Seq(Cell) /\ Len(full) = n + e + p.len + pad
      /\ e \in Nat
      /\ \A i \in 1 .. n : full[i] = <<"csrc", csrcs[i]>>
      /\ p.ext # Packets!NoExtension =>
           /\ full[n + 1] = <<"ext", p.ext>>
           /\ \A i \in 1 .. p.ext : full[n + (1 + i)] = <<"word", i>>
      /\ \A i \in 1 .. p.len : full[n + e + i] = <<"data", i>>
      /\ pad # 0 => full[Len(full)] = <<"pad", pad>>
  <2>1. p.ext \in Extensions /\ p.len \in Lengths /\ pad \in Lengths
    BY <1>2 DEF Extensions, Lengths
  <2>2. LaidOut(full, p.ext, p.len, pad) BY <1>1, <2>1, Layout
  <2> HIDE DEF full
  <2> QED BY <2>2 DEF LaidOut
<1>4. /\ Packets!Built(p) = [header |-> raw, body |-> body]
      /\ p.payloadtype \notin Reserved
  BY DEF Packets!Built, Packets!BuildPacket, Body
<1>20. n = Len(csrcs) /\ ExtensionCells(p.ext) = e OBVIOUS
<1>21. extended = (p.ext # Packets!NoExtension) OBVIOUS
<1>22. /\ packet.body = full
       /\ h = IF pad = 0 THEN raw ELSE [raw EXCEPT !.padding = TRUE]
  <2>1. CASE pad = 0
    <3> HIDE DEF raw, body
    <3> QED BY <1>4, <2>1 DEF Packets!Padded, PaddedBody, body
  <2>2. CASE pad # 0
    <3> HIDE DEF raw, body
    <3> QED BY <1>4, <2>2 DEF Packets!Padded, PaddedBody, body
  <2> QED BY <2>1, <2>2
<1>23. /\ h.marker = p.mark /\ h.payloadtype = p.payloadtype
       /\ h.csrccount = n /\ h.sequencenumber = seqnr /\ h.timestamp = timestamp
       /\ h.extension = extended
       /\ pad = 0 => h.padding = FALSE
       /\ pad # 0 => h.padding = TRUE
  <2> HIDE DEF extended, n, h
  <2> QED BY <1>22
<1> HIDE DEF n, full, e, body, h, raw, extended, packet
<1>5. p.ext # Packets!NoExtension => p.ext \in Nat /\ e = 1 + p.ext
  BY <1>2, <1>20 DEF ExtensionCells
<1>6. p.ext = Packets!NoExtension => e = 0 BY <1>20 DEF ExtensionCells
<1> DEFINE padding == IF h.padding THEN Packets!Last(full)[2] ELSE 0
           offset == IF h.extension THEN h.csrccount + 1 + full[h.csrccount + 1][2]
                                    ELSE h.csrccount
           length == Len(full) - padding - offset
<1>7. padding = pad
  <2>1. CASE pad = 0 BY <1>23, <2>1
  <2>2. CASE pad # 0
    <3>1. full[Len(full)] = <<"pad", pad>> BY <1>3, <2>2
    <3>2. Packets!Last(full)[2] = pad BY <3>1 DEF Packets!Last
    <3> QED BY <1>23, <2>2, <3>2
  <2> QED BY <2>1, <2>2
<1>8. offset = n + e
  <2>1. CASE p.ext = Packets!NoExtension
    <3>1. offset = n BY <1>21, <1>23, <2>1
    <3> HIDE DEF offset
    <3> QED BY <1>1, <1>6, <2>1, <3>1
  <2>2. CASE p.ext # Packets!NoExtension
    <3>1. full[n + 1][2] = p.ext BY <1>3, <2>2
    <3>2. offset = n + 1 + p.ext BY <1>21, <1>23, <2>2, <3>1
    <3> HIDE DEF offset
    <3> QED BY <1>1, <1>5, <2>2, <3>2
  <2> QED BY <2>1, <2>2
<1>9. length = p.len
  <2> HIDE DEF padding, offset
  <2> QED BY <1>1, <1>2, <1>3, <1>7, <1>8
<1>10. [i \in 1 .. n |-> full[i][2]] = csrcs
  <2>1. \A i \in 1 .. n : full[i][2] = csrcs[i] BY <1>3
  <2>2. csrcs = [i \in 1 .. n |-> csrcs[i]] BY <1>1, <1>20
  <2> QED BY <2>1, <2>2
<1>11. SubSeq(full, n + e + 1, n + e + p.len) = Packets!Cells(Packets!Data, p.len)
  <2>1. n + e \in Nat /\ p.len \in Nat /\ (n + e) + p.len <= Len(full) BY <1>1, <1>2, <1>3
  <2>2. SubSeq(full, n + e + 1, n + e + p.len) = [i \in 1 .. p.len |-> full[n + e + i]]
    BY <1>3, <2>1, Slice
  <2> QED BY <1>3, <2>2 DEF Packets!Cells, Packets!Data
<1>12. p.ext # Packets!NoExtension =>
         SubSeq(full, n + 2, n + e) = Packets!Cells(Packets!Word, p.ext)
  <2> SUFFICES ASSUME p.ext # Packets!NoExtension
               PROVE  SubSeq(full, n + 2, n + e) = Packets!Cells(Packets!Word, p.ext)
    OBVIOUS
  <2>0. p.ext \in Nat /\ e = 1 + p.ext /\ p.len \in Nat /\ pad \in Nat BY <1>2, <1>5
  <2>1. /\ n + 1 \in Nat /\ p.ext \in Nat /\ (n + 1) + p.ext <= Len(full)
        /\ (n + 1) + 1 = n + 2 /\ (n + 1) + p.ext = n + e
        /\ \A i \in 1 .. p.ext : (n + 1) + i = n + (1 + i)
    <3>1. Len(full) = n + e + p.len + pad BY <1>3
    <3> QED BY <1>1, <2>0, <3>1
  <2>2. SubSeq(full, n + 2, n + e) = [i \in 1 .. p.ext |-> full[(n + 1) + i]]
    <3> DEFINE a == n + 1
               k == p.ext
    <3>1. a \in Nat /\ k \in Nat /\ a + k <= Len(full) /\ full \in Seq(Cell) BY <1>3, <2>1
    <3>2. a + 1 = n + 2 /\ a + k = n + e BY <2>1
    <3> HIDE DEF a, k
    <3>3. SubSeq(full, a + 1, a + k) = [i \in 1 .. k |-> full[a + i]] BY <3>1, Slice
    <3> QED BY <3>2, <3>3 DEF a, k
  <2>3. \A i \in 1 .. p.ext : full[(n + 1) + i] = <<"word", i>> BY <1>3, <2>1
  <2> QED BY <2>2, <2>3 DEF Packets!Cells, Packets!Word
<1>13. ~(\/ h.marker /\ h.payloadtype \in Reserved
         \/ h.padding /\ padding <= 0
         \/ length < 0)
  <2> HIDE DEF padding, length
  <2>1. ~(length < 0) BY <1>2, <1>9
  <2>2. ~(h.payloadtype \in Reserved) BY <1>4, <1>23
  <2>3. ~(h.padding /\ padding <= 0) BY <1>7, <1>23
  <2> QED BY <2>1, <2>2, <2>3
<1>14. Packets!ParseRawPacket(packet) =
         [csrcs |-> [i \in 1 .. h.csrccount |-> full[i][2]],
          ext |-> IF h.extension THEN SubSeq(full, h.csrccount + 2, offset)
                  ELSE Packets!NoExtension,
          payload |-> SubSeq(full, offset + 1, offset + length),
          mark |-> h.marker, payloadtype |-> h.payloadtype,
          number |-> h.sequencenumber, time |-> h.timestamp]
  BY <1>13, <1>22 DEF Packets!ParseRawPacket, h
<1> HIDE DEF padding, offset, length
<1> QED BY <1>8, <1>9, <1>10, <1>11, <1>12, <1>14, <1>21, <1>23 DEF packet

(* For any CSRCs, sizes, increments and moduli: the list holds the CSRCs     *)
(* asked for, what is built is read as what it was built from, also padded,  *)
(* the packets of an SSRC have consecutive numbers, and the time a sender    *)
(* report names is that of the first packet with its timestamp.              *)
THEOREM Building == PSpec => []PacketsInv
<1>1. PInit => BuilderInv BY BuilderInit DEF PInit
<1>2. BuilderInv /\ [PNext]_pvars => BuilderInv'
  <2>1. [PNext]_pvars => [Packets!Next]_(Packets!vars)
    BY DEF PNext, pvars, packetvars, Packets!vars, Packets!stream, Packets!defaults,
       Packets!times
  <2> QED BY <2>1, BuilderNext
<1>3. BuilderInv => PacketsInv
  BY Parsed DEF BuilderInv, PacketsInv, Packets!RtpPacketsInv
<1> QED BY <1>1, <1>2, <1>3, PTL DEF PSpec
-----------------------------------------------------------------------------
(* What the session knows of its host.                                       *)
Less == {w \in Nat \X Nat : w[1] < w[2]}

(* A set of numbers has a smallest.                                          *)
LEMMA SmallestExists ==
  ASSUME NEW T \in SUBSET Nat, T # {}
  PROVE  \E m \in T : \A k \in T : m <= k
<1>1. IsWellFoundedOn(Less, Nat) BY NatLessThanWellFounded DEF OpToRel, Less
<1> HIDE DEF Less
<1>2. PICK m \in T : \A k \in T : <<k, m>> \notin Less BY <1>1, WFMin
<1>3. ASSUME NEW k \in T PROVE m <= k
  <2>1. k \in Nat /\ m \in Nat /\ <<k, m>> \notin Less BY <1>2
  <2> QED BY <2>1 DEF Less
<1> QED BY <1>3

(* Min names it.                                                             *)
LEMMA SmallestIs ==
  ASSUME NEW T \in SUBSET Nat, T # {}
  PROVE  Host!Min(T) \in T
BY SmallestExists, Zenon DEF Host!Min

(* And a greatest, if it is bounded.                                         *)
LEMMA GreatestIs ==
  ASSUME NEW N \in Nat, NEW T \in SUBSET (0 .. N), T # {}
  PROVE  Host!Max(T) \in T /\ \A k \in T : Host!Max(T) >= k
<1> DEFINE U == {N - k : k \in T}
<1>1. U \in SUBSET Nat /\ U # {}
  <2>1. \A k \in T : N - k \in Nat /\ N - k \in U OBVIOUS
  <2> QED BY <2>1
<1>2. PICK u \in U : \A v \in U : u <= v
  <2> HIDE DEF U
  <2> QED BY <1>1, SmallestExists
<1>3. PICK m \in T : u = N - m OBVIOUS
<1>4. \A k \in T : m >= k
  <2> SUFFICES ASSUME NEW k \in T PROVE m >= k OBVIOUS
  <2>1. N - k \in U /\ k \in 0 .. N /\ m \in 0 .. N OBVIOUS
  <2>2. N - m <= N - k BY <1>2, <1>3, <2>1
  <2> QED BY <2>1, <2>2
<1> QED BY <1>4, Zenon DEF Host!Max

(* A host's names are added without one that is there, and its first name is *)
(* there afterwards.                                                         *)
LEMMA NamesAdded ==
  ASSUME NEW names \in Seq(HostNames), NEW entry \in Seq(HostNames), Host!IsInjective(names)
  PROVE  LET r == Host!UntilDouble(names, entry)
         IN /\ r \in Seq(HostNames) /\ Host!IsInjective(r)
            /\ Host!ToSet(names) \subseteq Host!ToSet(r)
            /\ entry # << >> => entry[1] \in Host!ToSet(r)
<1> DEFINE new(n) == SubSeq(entry, 1, n)
           fits(n) == Host!IsInjective(new(n)) /\ Host!ToSet(new(n)) \intersect Host!ToSet(names) = {}
           S == {n \in 0 .. Len(entry) : fits(n)}
           most == Host!Max(S)
           r == names \o new(most)
<1>1. Len(entry) \in Nat /\ Len(names) \in Nat OBVIOUS
<1>2. \A n \in 0 .. Len(entry) :
        /\ new(n) \in Seq(HostNames) /\ Len(new(n)) = n /\ DOMAIN new(n) = 1 .. n
        /\ \A i \in 1 .. n : new(n)[i] = entry[i]
  BY <1>1
<1>3. 0 \in S
  <2>1. 0 \in 0 .. Len(entry) BY <1>1
  <2>2. DOMAIN new(0) = {} BY <1>2, <2>1
  <2> HIDE DEF new
  <2> QED BY <2>1, <2>2 DEF Host!IsInjective, Host!ToSet
<1>4. most \in S /\ \A k \in S : most >= k
  <2>1. S \in SUBSET (0 .. Len(entry)) /\ S # {} BY <1>3
  <2> HIDE DEF S
  <2> QED BY <1>1, <2>1, GreatestIs
<1>5. most \in 0 .. Len(entry) /\ fits(most)
  <2> HIDE DEF most, fits
  <2> QED BY <1>4
<1>6. Host!UntilDouble(names, entry) = r BY Zenon DEF Host!UntilDouble
<1> DEFINE q == new(most)
<1>7. /\ q \in Seq(HostNames) /\ Len(q) = most /\ DOMAIN q = 1 .. most
      /\ \A i \in 1 .. most : q[i] = entry[i]
  <2> HIDE DEF most, new
  <2> QED BY <1>2, <1>5
<1>8. Host!IsInjective(q) /\ Host!ToSet(q) \intersect Host!ToSet(names) = {} BY <1>5
<1> HIDE DEF q, most, S
<1>9. r = names \o q BY DEF q
<1> HIDE DEF r
<1>10. /\ r \in Seq(HostNames) /\ Len(r) = Len(names) + most /\ DOMAIN r = 1 .. Len(r)
       /\ \A i \in 1 .. Len(r) : r[i] = IF i <= Len(names) THEN names[i] ELSE q[i - Len(names)]
       /\ DOMAIN names = 1 .. Len(names) /\ most \in Nat
  <2>1. q \in Seq(HostNames) /\ Len(q) = most /\ most \in Nat BY <1>5, <1>7
  <2>2. r \in Seq(HostNames) /\ Len(r) = Len(names) + Len(q) BY <1>9, <2>1, ConcatProperties
  <2>3. \A i \in 1 .. Len(names) + Len(q) : r[i] = IF i <= Len(names) THEN names[i] ELSE q[i - Len(names)]
    BY <1>9, <2>1
  <2>4. /\ Len(r) = Len(names) + most /\ Len(names) \in Nat
        /\ DOMAIN names = 1 .. Len(names) /\ DOMAIN r = 1 .. Len(r)
    BY <2>1, <2>2
  <2> HIDE DEF most
  <2> QED BY <2>1, <2>2, <2>3, <2>4
<1>11. Host!ToSet(names) \subseteq Host!ToSet(r)
  <2>1. \A i \in 1 .. Len(names) : i \in 1 .. Len(r) /\ r[i] = names[i] BY <1>1, <1>10
  <2> QED BY <1>10, <2>1 DEF Host!ToSet
<1>12. Host!IsInjective(r)
  <2> SUFFICES ASSUME NEW i \in 1 .. Len(r), NEW j \in 1 .. Len(r), r[i] = r[j] PROVE i = j
    BY <1>10 DEF Host!IsInjective
  <2> DEFINE N == Len(names)
  <2>1. \A k \in 1 .. Len(r) : IF k <= N THEN k \in DOMAIN names /\ r[k] = names[k]
                               ELSE k - N \in DOMAIN q /\ r[k] = q[k - N]
    BY <1>1, <1>7, <1>10
  <2>2. N \in Nat /\ i \in Nat /\ j \in Nat BY <1>1, <1>10
  <2> HIDE DEF N
  <2>3. CASE i <= N /\ j <= N BY <2>1, <2>3 DEF Host!IsInjective
  <2>4. CASE i <= N /\ ~(j <= N) BY <1>8, <2>1, <2>4 DEF Host!ToSet
  <2>5. CASE ~(i <= N) /\ j <= N BY <1>8, <2>1, <2>5 DEF Host!ToSet
  <2>6. CASE ~(i <= N) /\ ~(j <= N)
    <3>1. i - N = j - N BY <1>8, <2>1, <2>6 DEF Host!IsInjective
    <3> QED BY <2>2, <3>1
  <2> QED BY <2>3, <2>4, <2>5, <2>6
<1>13. ASSUME entry # << >> PROVE entry[1] \in Host!ToSet(r)
  <2>1. Len(entry) >= 1 /\ 1 \in 0 .. Len(entry) BY <1>1, <1>13
  <2>2. CASE entry[1] \in Host!ToSet(names) BY <1>11, <2>2
  <2>3. CASE entry[1] \notin Host!ToSet(names)
    <3>1. new(1)[1] = entry[1] /\ DOMAIN new(1) = {1} BY <1>2, <2>1
    <3> HIDE DEF new
    <3>2. fits(1) BY <2>3, <3>1 DEF Host!IsInjective, Host!ToSet
    <3>3. 1 \in S BY <2>1, <3>2 DEF S
    <3>4. most >= 1 BY <1>4, <3>3
    <3>5. Len(names) + 1 \in 1 .. Len(r) /\ r[Len(names) + 1] = q[1] BY <1>1, <1>10, <3>4
    <3>6. q[1] = entry[1] BY <1>7, <1>10, <3>4
    <3> QED BY <1>10, <3>5, <3>6 DEF Host!ToSet
  <2> QED BY <2>2, <2>3
<1> QED BY <1>6, <1>9, <1>10, <1>11, <1>12, <1>13 DEF r, q

(* The step by which Hostnames collects the names of an address.             *)
HostGrows(f, ips, d, n) ==
  f[n] = IF n = 0 THEN << >> ELSE Host!UntilDouble(f[n - 1], d[ips[n]])

(* There is the function that Hostnames defines step by step,                *)
LEMMA NamesExist ==
  ASSUME NEW ips, NEW d
  PROVE  \A N \in Nat : \E f : DOMAIN f = 0 .. N /\ \A n \in 0 .. N : HostGrows(f, ips, d, n)
<1> DEFINE Can(N) == \E f : DOMAIN f = 0 .. N /\ \A n \in 0 .. N : HostGrows(f, ips, d, n)
           Bad == {N \in Nat : ~Can(N)}
<1> SUFFICES ASSUME Bad # {} PROVE FALSE OBVIOUS
<1>1. PICK N \in Bad : \A m \in Bad : N <= m
  <2>1. Bad \in SUBSET Nat OBVIOUS
  <2> HIDE DEF Bad
  <2> QED BY <2>1, SmallestExists
<1>2. N \in Nat /\ ~Can(N) OBVIOUS
<1>3. CASE N = 0
  <2> DEFINE f == [n \in 0 .. 0 |-> << >>]
  <2>1. DOMAIN f = 0 .. N /\ \A n \in 0 .. N : HostGrows(f, ips, d, n) BY <1>3 DEF HostGrows
  <2> QED BY <1>2, <2>1, Zenon
<1>4. CASE N # 0
  <2>1. N - 1 \in Nat /\ ~(N <= N - 1) BY <1>2, <1>4
  <2>2. Can(N - 1) BY <1>1, <2>1
  <2>3. PICK g : DOMAIN g = 0 .. N - 1 /\ \A n \in 0 .. N - 1 : HostGrows(g, ips, d, n) BY <2>2
  <2> DEFINE top == Host!UntilDouble(g[N - 1], d[ips[N]])
  <2> HIDE DEF top
  <2> DEFINE f == [n \in 0 .. N |-> IF n = N THEN top ELSE g[n]]
  <2>4. ASSUME NEW n \in 0 .. N PROVE HostGrows(f, ips, d, n)
    <3>1. n \in Nat /\ (n # 0 => n - 1 \in 0 .. N - 1) /\ (n # N => n \in 0 .. N - 1) BY <1>2
    <3>2. \A m \in 0 .. N - 1 : f[m] = g[m] BY <1>2
    <3>3. CASE n = N
      <4>1. f[n] = top /\ f[n - 1] = g[n - 1] BY <1>2, <1>4, <3>1, <3>2, <3>3
      <4> HIDE DEF f
      <4> QED BY <1>4, <3>3, <4>1, Zenon DEF HostGrows, top
    <3>4. CASE n # N
      <4>1. HostGrows(g, ips, d, n) /\ f[n] = g[n] /\ (n # 0 => f[n - 1] = g[n - 1])
        BY <2>3, <3>1, <3>2, <3>4
      <4> HIDE DEF f
      <4> QED BY <4>1, Zenon DEF HostGrows
    <3> QED BY <3>3, <3>4
  <2>5. DOMAIN f = 0 .. N OBVIOUS
  <2> HIDE DEF f
  <2> QED BY <1>2, <2>4, <2>5
<1> QED BY <1>3, <1>4

(* and it is the one.                                                        *)
LEMMA NamesUpToIs ==
  ASSUME NEW ips, NEW d, Len(ips) \in Nat
  PROVE  \A n \in 0 .. Len(ips) : HostGrows(Host!NamesUpTo(ips, d), ips, d, n)
<1> DEFINE at == Host!NamesUpTo(ips, d)
           Step(f) == [n \in 0 .. Len(ips) |->
                         IF n = 0 THEN << >> ELSE Host!UntilDouble(f[n - 1], d[ips[n]])]
<1>1. \E f : f = Step(f)
  <2>1. PICK g : /\ DOMAIN g = 0 .. Len(ips)
                 /\ \A n \in 0 .. Len(ips) : HostGrows(g, ips, d, n)
    BY NamesExist
  <2> DEFINE f == [n \in 0 .. Len(ips) |-> g[n]]
  <2>2. ASSUME NEW n \in 0 .. Len(ips) PROVE f[n] = Step(f)[n]
    <3>1. n # 0 => n - 1 \in 0 .. Len(ips) OBVIOUS
    <3> QED BY <2>1, <3>1 DEF HostGrows
  <2>3. f = Step(f) BY <2>2
  <2> QED BY <2>3
<1>2. at = CHOOSE f : f = Step(f) BY Zenon DEF Host!NamesUpTo
<1>3. at = Step(at)
  <2> HIDE DEF at, Step
  <2> QED BY <1>1, <1>2, Zenon
<1> HIDE DEF at
<1> QED BY <1>3 DEF HostGrows, at

(* The names of a list of addresses: none twice, and of every address the    *)
(* first.                                                                    *)
LEMMA HostnamesAre ==
  ASSUME NEW ips \in Seq(IPs), NEW d \in DNSs
  PROVE  LET names == Host!Hostnames(ips, d)
         IN /\ names \in Seq(HostNames) /\ Host!IsInjective(names)
            /\ \A i \in 1 .. Len(ips) : d[ips[i]] # << >> => d[ips[i]][1] \in Host!ToSet(names)
<1> DEFINE at == Host!NamesUpTo(ips, d)
           Good(n) == /\ at[n] \in Seq(HostNames) /\ Host!IsInjective(at[n])
                      /\ \A i \in 1 .. n : d[ips[i]] # << >> => d[ips[i]][1] \in Host!ToSet(at[n])
           Bad == {n \in 0 .. Len(ips) : ~Good(n)}
<1>1. Len(ips) \in Nat OBVIOUS
<1>2. \A n \in 0 .. Len(ips) : HostGrows(at, ips, d, n) BY <1>1, NamesUpToIs
<1>3. \A i \in 1 .. Len(ips) : d[ips[i]] \in Seq(HostNames) BY HostAssumption
<1> HIDE DEF at
<1>4. Bad = {}
  <2> SUFFICES ASSUME Bad # {} PROVE FALSE OBVIOUS
  <2>1. PICK n \in Bad : \A m \in Bad : n <= m
    <3>1. Bad \in SUBSET Nat OBVIOUS
    <3> HIDE DEF Bad
    <3> QED BY <3>1, SmallestExists
  <2>2. n \in 0 .. Len(ips) /\ ~Good(n) /\ HostGrows(at, ips, d, n) BY <1>2
  <2>3. CASE n = 0
    <3>1. at[0] = << >> BY <2>2, <2>3 DEF HostGrows
    <3>2. << >> \in Seq(HostNames) /\ Host!IsInjective(<< >>) BY DEF Host!IsInjective
    <3> QED BY <2>2, <2>3, <3>1, <3>2
  <2>4. CASE n # 0
    <3>1. n - 1 \in 0 .. Len(ips) /\ ~(n <= n - 1) /\ n \in 1 .. Len(ips) BY <1>1, <2>2, <2>4
    <3>2. Good(n - 1) BY <2>1, <3>1
    <3>3. at[n] = Host!UntilDouble(at[n - 1], d[ips[n]]) BY <2>2, <2>4 DEF HostGrows
    <3> DEFINE old == at[n - 1]  entry == d[ips[n]]  new == Host!UntilDouble(old, entry)
    <3>4. /\ new \in Seq(HostNames) /\ Host!IsInjective(new)
          /\ Host!ToSet(old) \subseteq Host!ToSet(new)
          /\ entry # << >> => entry[1] \in Host!ToSet(new)
      <4>1. old \in Seq(HostNames) /\ entry \in Seq(HostNames) /\ Host!IsInjective(old)
        BY <1>3, <3>1, <3>2
      <4> HIDE DEF old, entry
      <4> QED BY <4>1, NamesAdded
    <3>5. at[n] = new BY <3>3
    <3> HIDE DEF new
    <3>6. \A i \in 1 .. n : i = n \/ i \in 1 .. n - 1 BY <3>1
    <3>7. ASSUME NEW i \in 1 .. n, d[ips[i]] # << >> PROVE d[ips[i]][1] \in Host!ToSet(new)
      <4>1. CASE i = n BY <3>4, <3>7, <4>1
      <4>2. CASE i \in 1 .. n - 1 BY <3>2, <3>4, <3>7, <4>2
      <4> QED BY <3>6, <4>1, <4>2
    <3>8. Good(n) BY <3>4, <3>5, <3>7
    <3> QED BY <2>2, <3>8
  <2> QED BY <2>3, <2>4
<1>5. Good(Len(ips))
  <2> HIDE DEF Good
  <2> QED BY <1>1, <1>4
<1>6. Host!Hostnames(ips, d) = at[Len(ips)] BY Zenon DEF Host!Hostnames, at
<1> QED BY <1>5, <1>6

(* The transmitter knows a host only while it exists, and tells one name.    *)
HostTypes ==
  /\ Host!TypeOK /\ Host!OneName
  /\ ~listening => localhostname = None /\ told = {}
  /\ cname # None => cname.host # None

(* No name yet is told from every name.                                      *)
LEMMA NoneIsNoID == None \notin Host!HostIDs
BY HostAssumption DEF Host!HostIDs, Host!SystemName

(* A host is found under a name with a dot or an address.                    *)
LEMMA FoundIs == Host!TypeOK /\ listening => Host!FoundName(localIPs, dns) \in Host!HostIDs
<1> SUFFICES ASSUME Host!TypeOK, listening
             PROVE  Host!FoundName(localIPs, dns) \in Host!HostIDs
  OBVIOUS
<1>1. transmitter \in {"IPv4", "IPv6", "Fake", "External"} BY DEF Host!TypeOK, Host!Transmitters
<1>2. CASE transmitter = "External"
  BY <1>2 DEF Host!FoundName, Host!HostIDs
<1>3. CASE transmitter # "External"
  <2>1. /\ localIPs \in Seq(IPs) /\ localIPs # << >> /\ localIPs[1] \in IPs /\ dns \in DNSs
        /\ DOMAIN localIPs = 1 .. Len(localIPs)
    BY <1>3 DEF Host!TypeOK
  <2>2. \A n \in Dotted : <<"name", n>> \in Host!HostIDs BY <1>3 DEF Host!HostIDs
  <2>3. <<"ip", localIPs[1]>> \in Host!HostIDs BY <1>3, <2>1 DEF Host!HostIDs
  <2>4. Host!MostAppropriate(localIPs, dns) \in Host!HostIDs
    <3> DEFINE dotted == Host!ToSet(Host!Hostnames(localIPs, dns)) \intersect Dotted
    <3>1. dotted \in SUBSET Nat /\ dotted \subseteq Dotted BY HostAssumption
    <3>2. dotted # {} => Host!Min(dotted) \in Dotted
      <4> HIDE DEF dotted
      <4> QED BY <3>1, SmallestIs
    <3> QED BY <2>2, <2>3, <3>2, Zenon DEF Host!MostAppropriate
  <2>5. Host!MostAppropriateFake(localIPs, dns) \in Host!HostIDs
    <3> DEFINE dotted == {i \in DOMAIN localIPs : dns[localIPs[i]] # << >> /\ dns[localIPs[i]][1] \in Dotted}
    <3>1. dotted \in SUBSET Nat BY <2>1
    <3>2. dotted # {} => Host!Min(dotted) \in dotted
      <4> HIDE DEF dotted
      <4> QED BY <3>1, SmallestIs
    <3>3. dotted # {} => dns[localIPs[Host!Min(dotted)]][1] \in Dotted BY <3>2
    <3> QED BY <2>2, <2>3, <3>3, Zenon DEF Host!MostAppropriateFake
  <2> QED BY <1>1, <1>3, <2>4, <2>5 DEF Host!FoundName, Host!MostAppropriate6
<1> QED BY <1>2, <1>3

LEMMA HostNameIs == HostTypes /\ listening => Host!HostName \in Host!HostIDs
BY FoundIs DEF HostTypes, Host!HostName, Host!TypeOK

LEMMA HostInit == Host!Init => HostTypes
<1> SUFFICES ASSUME Host!Init PROVE HostTypes OBVIOUS
<1>1. dns \in DNSs
  <2>1. \E x : x \in DNSs BY HostAssumption
  <2> QED BY <2>1, Zenon DEF Host!Init
<1>2. << >> \in Seq(IPs) OBVIOUS
<1> QED BY <1>1, <1>2, HostAssumption DEF Host!Init, HostTypes, Host!TypeOK, Host!OneName

(* The list Create finds is not empty: it has the loopback address at least. *)
LEMMA FoundIPsAre ==
  ASSUME interfaces \in Interfaces, NEW byname \in Interfaces, NEW t \in {"IPv4", "IPv6", "Fake"}
  PROVE  Host!FoundIPs(t, byname) \in Seq(IPs) /\ Host!FoundIPs(t, byname) # << >>
<1>1. ASSUME NEW ips \in Seq(IPs)
      PROVE  Host!AddLoopbackAddress(ips) \in Seq(IPs) /\ Host!AddLoopbackAddress(ips) # << >>
  <2>1. CASE Loopback \in Host!ToSet(ips)
    <3>1. ips # << >> BY <2>1 DEF Host!ToSet
    <3> QED BY <2>1, <3>1 DEF Host!AddLoopbackAddress
  <2>2. CASE Loopback \notin Host!ToSet(ips)
    <3>1. Append(ips, Loopback) \in Seq(IPs) /\ Len(Append(ips, Loopback)) = Len(ips) + 1
      BY HostAssumption
    <3> DEFINE longer == Append(ips, Loopback)
    <3>2. Len(longer) # 0 /\ longer \in Seq(IPs)
      <4>1. Len(ips) \in Nat OBVIOUS
      <4> QED BY <3>1, <4>1
    <3> HIDE DEF longer
    <3>3. longer # << >> BY <3>2
    <3> QED BY <2>2, <3>2, <3>3 DEF Host!AddLoopbackAddress, longer
  <2> QED BY <2>1, <2>2
<1>2. interfaces \in Seq(IPs) /\ byname \in Seq(IPs) BY HostAssumption
<1>3. Host!CreateLocalIPList(byname) \in Seq(IPs) /\ Host!CreateLocalIPList(byname) # << >>
  BY <1>1, <1>2 DEF Host!CreateLocalIPList
<1>4. Host!CreateLocalIPListFake(byname) \in Seq(IPs) /\ Host!CreateLocalIPListFake(byname) # << >>
  BY <1>1, <1>2 DEF Host!CreateLocalIPListFake
<1> QED BY <1>3, <1>4 DEF Host!FoundIPs, Host!CreateLocalIPList6

LEMMA HostNext == HostTypes /\ [Host!Next]_(Host!vars) => HostTypes'
<1> SUFFICES ASSUME HostTypes, [Host!Next]_(Host!vars) PROVE HostTypes' OBVIOUS
<1> USE DEF HostTypes
<1>1. CASE Host!NetworkChanges
  BY <1>1 DEF Host!NetworkChanges, Host!TypeOK, Host!OneName, Host!HostIDs
<1>2. ASSUME NEW t \in Host!Transmitters, NEW given \in Interfaces, NEW byname \in Interfaces,
             Host!Create(t, given, byname)
      PROVE  HostTypes'
  <2>1. /\ ~listening /\ listening' = TRUE /\ transmitter' = t
        /\ UNCHANGED <<interfaces, dns, localhostname, cname, told>>
        /\ localIPs' = IF t = "External" THEN << >>
                       ELSE IF given # << >> THEN given ELSE Host!FoundIPs(t, byname)
    BY <1>2 DEF Host!Create
  <2>2. localIPs' \in Seq(IPs) /\ (localIPs' # << >> <=> t # "External")
    <3>1. interfaces \in Interfaces BY DEF Host!TypeOK
    <3>2. CASE t = "External" BY <2>1, <3>2
    <3>3. CASE t # "External"
      <4>1. t \in {"IPv4", "IPv6", "Fake"} BY <3>3 DEF Host!Transmitters
      <4>2. Host!FoundIPs(t, byname) \in Seq(IPs) /\ Host!FoundIPs(t, byname) # << >>
        BY <3>1, <4>1, FoundIPsAre
      <4>3. given \in Seq(IPs) BY HostAssumption
      <4> QED BY <2>1, <3>3, <4>2, <4>3
    <3> QED BY <3>2, <3>3
  <2>3. Host!TypeOK' BY <2>1, <2>2 DEF Host!TypeOK
  <2> QED BY <2>1, <2>3 DEF Host!OneName
<1>3. CASE Host!Destroy
  <2>1. << >> \in Seq(IPs) OBVIOUS
  <2> QED BY <1>3, <2>1 DEF Host!Destroy, Host!TypeOK, Host!OneName
<1>4. ASSUME NEW fits \in BOOLEAN, Host!GetLocalHostName(fits) PROVE HostTypes'
  <2>1. Host!HostName \in Host!HostIDs /\ Host!HostName # None
    BY <1>4, HostNameIs, NoneIsNoID DEF Host!GetLocalHostName
  <2>2. localhostname # None => Host!HostName = localhostname BY DEF Host!HostName
  <2> DEFINE name == Host!HostName
  <2>3. /\ listening /\ localhostname' = name /\ told' \in {told, told \union {name}}
        /\ UNCHANGED <<transmitter, interfaces, dns, listening, localIPs, cname>>
    BY <1>4 DEF Host!GetLocalHostName
  <2> HIDE DEF name
  <2>4. name \in Host!HostIDs /\ name # None /\ (localhostname # None => name = localhostname)
    BY <2>1, <2>2 DEF name
  <2>5. Host!HostIDs' = Host!HostIDs BY <2>3 DEF Host!HostIDs
  <2>6. Host!TypeOK' BY <2>3, <2>4, <2>5 DEF Host!TypeOK
  <2>7. Host!OneName'
    <3>1. told \subseteq {name} BY <2>4, NoneIsNoID DEF Host!OneName, Host!TypeOK
    <3>2. cname # None => cname.host \in {name, Host!SystemName} BY <2>4 DEF Host!OneName
    <3> QED BY <2>3, <3>1, <3>2 DEF Host!OneName
  <2> QED BY <2>3, <2>6, <2>7
<1>5. ASSUME NEW found \in SUBSET Host!Logins, NEW resolve \in BOOLEAN,
             Host!CreateCNAME(found, resolve)
      PROVE  HostTypes'
  <2>1. Host!HostName \in Host!HostIDs /\ Host!HostName # None
    BY <1>5, HostNameIs, NoneIsNoID DEF Host!CreateCNAME
  <2>2. localhostname # None => Host!HostName = localhostname BY DEF Host!HostName
  <2> DEFINE name == Host!HostName
  <2>3. /\ listening /\ cname = None
        /\ UNCHANGED <<transmitter, interfaces, dns, listening, localIPs>>
        /\ \/ /\ localhostname' = name /\ told' = told \union {name}
              /\ cname' = [login |-> Host!Login(found), host |-> name]
           \/ /\ UNCHANGED <<localhostname, told>>
              /\ cname' = [login |-> Host!Login(found), host |-> Host!SystemName]
    BY <1>5 DEF Host!CreateCNAME
  <2> HIDE DEF name
  <2>4. name \in Host!HostIDs /\ name # None /\ (localhostname # None => name = localhostname)
    BY <2>1, <2>2 DEF name
  <2>5. Host!HostIDs' = Host!HostIDs BY <2>3 DEF Host!HostIDs
  <2>6. Host!SystemName # None /\ Host!SystemName' = Host!SystemName
    BY HostAssumption DEF Host!SystemName
  <2>7. Host!TypeOK' BY <2>3, <2>4, <2>5 DEF Host!TypeOK
  <2>8. told \subseteq {name} BY <2>4, NoneIsNoID DEF Host!OneName, Host!TypeOK
  <2>9. cname'.host # None /\ cname'.host \in {localhostname', Host!SystemName}
    BY <2>3, <2>4, <2>6
  <2>10. told' \subseteq {localhostname'} BY <2>3, <2>8 DEF Host!OneName
  <2>11. Host!OneName' BY <2>6, <2>9, <2>10 DEF Host!OneName
  <2> QED BY <2>3, <2>7, <2>9, <2>11
<1>6. CASE UNCHANGED Host!vars
  BY <1>6 DEF Host!vars, Host!TypeOK, Host!OneName, Host!HostIDs
<1> QED BY <1>1, <1>2, <1>3, <1>4, <1>5, <1>6 DEF Host!Next

(* Names are found without repetition, and one with a dot if there is one.   *)
LEMMA HostHolds == HostTypes => HostInv
<1> SUFFICES ASSUME HostTypes PROVE HostInv OBVIOUS
<1>1. Host!TypeOK /\ Host!OneName /\ localIPs \in Seq(IPs) /\ dns \in DNSs
  BY DEF HostTypes, Host!TypeOK
<1> DEFINE names == Host!Hostnames(localIPs, dns)
<1>2. /\ names \in Seq(HostNames) /\ Host!IsInjective(names)
      /\ \A i \in 1 .. Len(localIPs) :
           dns[localIPs[i]] # << >> => dns[localIPs[i]][1] \in Host!ToSet(names)
  BY <1>1, HostnamesAre
<1>3. Host!NoNameTwice BY <1>2 DEF Host!NoNameTwice
<1>4. Host!DottedIfAny
  <2> SUFFICES ASSUME listening, NEW ip \in Host!ToSet(localIPs), dns[ip] # << >>, dns[ip][1] \in Dotted
               PROVE  Host!FoundName(localIPs, dns)[1] = "name"
    BY DEF Host!DottedIfAny
  <2>1. PICK i \in 1 .. Len(localIPs) : localIPs[i] = ip BY <1>1 DEF Host!ToSet
  <2>2. transmitter \in {"IPv4", "IPv6", "Fake"}
    <3>1. localIPs # << >> BY <1>1, <2>1
    <3> QED BY <1>1, <3>1 DEF Host!TypeOK, Host!Transmitters
  <2>3. Host!MostAppropriate(localIPs, dns)[1] = "name"
    <3>1. Host!ToSet(names) \intersect Dotted # {} BY <1>2, <2>1
    <3> QED BY <3>1 DEF Host!MostAppropriate
  <2>4. Host!MostAppropriateFake(localIPs, dns)[1] = "name"
    <3>1. i \in {k \in DOMAIN localIPs : dns[localIPs[k]] # << >> /\ dns[localIPs[k]][1] \in Dotted}
      BY <1>1, <2>1
    <3> QED BY <3>1 DEF Host!MostAppropriateFake
  <2> QED BY <2>2, <2>3, <2>4 DEF Host!FoundName, Host!MostAppropriate6
<1> QED BY <1>1, <1>3, <1>4 DEF HostInv, Host!LocalHostInv

(* The host goes by one name, and by one with a dot if it can.               *)
THEOREM Naming == PSpec => []HostInv
<1>1. PInit => HostTypes BY HostInit DEF PInit
<1>2. HostTypes /\ [PNext]_pvars => HostTypes'
  <2>1. [PNext]_pvars => [Host!Next]_(Host!vars)
    BY DEF PNext, pvars, hostvars, Host!vars
  <2> QED BY <2>1, HostNext
<1> QED BY <1>1, <1>2, HostHolds, PTL DEF PSpec
=============================================================================
