---------------------------- MODULE CallSession ----------------------------
(***************************************************************************)
(* Setting up and tearing down a call on one device: GKSessionManager,     *)
(* with the lobby (GKLobbyViewController), the root view controller and    *)
(* the GKNetController it calls back into.  Everything runs on the main    *)
(* thread: a handler, with the handlers it calls, is one step.             *)
(*                                                                         *)
(* GameKit is the environment.  link[p] is what the current GKSession      *)
(* knows of peer p: our request is under way ("calling"), we have accepted *)
(* its request ("accepted"), or the connection stands ("connected").  A    *)
(* GKSession that setupSession replaces is released and its links go with  *)
(* it; a session without a delegate calls nobody back.                     *)
(*                                                                         *)
(* gameDelegate is a weak reference to the net controller, which only the  *)
(* root view controller and the RemoteControlGalileo object own: TRUE      *)
(* says that both objects exist.                                           *)
(***************************************************************************)
EXTENDS Naturals, FiniteSets

CONSTANTS
    Peer,    \* the other devices
    NoPeer   \* nil

ASSUME PeerAssumption == NoPeer \notin Peer

VARIABLES
    sessionState,       \* Disconnected, Connecting or Connected
    currentConfPeerID,  \* the peer of the call, or nil
    peerList,           \* the manager's list of available peers
    shownPeers,         \* the lobby's copy of it, the rows on the screen
    gameDelegate,       \* there is a net controller and a Galileo object
    videoShown,         \* the video view is on the navigation stack
    lobbyAppearing,     \* UIKit still has to call the lobby's viewDidAppear
    alert,              \* the alert of a failed invitation is on the screen
    active,             \* the app is active
    delegate,           \* the GKSession has its delegate
    available,          \* the GKSession is advertised to peers
    link,               \* GameKit: the GKSession's connections
    calls               \* history: what the last step told GameKit of peers

manager == <<sessionState, currentConfPeerID, peerList>>
screen == <<shownPeers, gameDelegate, videoShown, lobbyAppearing, alert>>
gkSession == <<delegate, available, link>>
callvars == <<manager, screen, gkSession, active, calls>>

Pending == {"calling", "accepted"}
NoLinks == [p \in Peer |-> "none"]

\* viewDidLoad of the root view controller has set up the first session.
CallInit ==
    /\ sessionState = "Disconnected"
    /\ currentConfPeerID = NoPeer
    /\ peerList = {} /\ shownPeers = {}
    /\ gameDelegate = FALSE
    /\ videoShown = FALSE /\ lobbyAppearing = TRUE /\ alert = FALSE
    /\ active = TRUE
    /\ delegate = TRUE /\ available = TRUE
    /\ link = NoLinks
    /\ calls = {}

-----------------------------------------------------------------------------
(* Methods, called by the handlers below.                                   *)

\* Mutant of SetupSession: the state of the previous session is kept.
SetupSessionKeepsState ==
    /\ link' = NoLinks
    /\ available' = TRUE
    /\ sessionState' = sessionState

\* setupSession; that it sets the delegate and tells the lobby is said where it
\* is called.  Neither currentConfPeerID nor peerList is reset.
SetupSession ==
    /\ link' = NoLinks
    /\ available' = TRUE
    /\ sessionState' = "Disconnected"

\* Mutant of ConnectionIsDead: the session manager is not restarted.
ConnectionIsDeadQuiet ==
    /\ videoShown' = FALSE
    /\ lobbyAppearing' = (lobbyAppearing \/ videoShown)
    /\ gameDelegate' = FALSE
    /\ sessionState' = "Disconnected"
    /\ UNCHANGED <<link, available>>

\* willDisconnect of the net controller, connectionIsDead of the root view
\* controller: the video view is popped (with an animation, at the end of
\* which the lobby appears), the Galileo object and the net controller are
\* released, the session manager is restarted.
ConnectionIsDead ==
    /\ videoShown' = FALSE
    /\ lobbyAppearing' = (lobbyAppearing \/ videoShown)
    /\ gameDelegate' = FALSE
    /\ SetupSession

\* disconnectCurrentCall.  The restart within connectionIsDead has set the
\* state to Disconnected when the body's condition is evaluated.
DisconnectCurrentCall ==
    \/ /\ gameDelegate
       /\ ConnectionIsDead
       /\ calls' = {}
       /\ UNCHANGED currentConfPeerID
    \/ /\ ~gameDelegate
       /\ sessionState # "Disconnected"
       /\ calls' = {"disconnectFromAllPeers"} \cup
             (IF sessionState = "Connecting" THEN {"cancelConnect"} ELSE {})
       /\ link' = NoLinks
       /\ available' = TRUE
       /\ sessionState' = "Disconnected"
       /\ currentConfPeerID' = NoPeer
       /\ UNCHANGED <<gameDelegate, videoShown, lobbyAppearing>>
    \/ /\ ~gameDelegate
       /\ sessionState = "Disconnected"
       /\ calls' = {}
       /\ UNCHANGED <<sessionState, currentConfPeerID, gameDelegate, videoShown,
                      lobbyAppearing, link, available>>

-----------------------------------------------------------------------------
(* The user and UIKit.                                                      *)

\* didSelectRowAtIndexPath: connect, then peerSelected creates the net
\* controller and the Galileo object in place of any there are.
SelectPeer(p) ==
    /\ active /\ ~videoShown /\ ~alert
    /\ p \in shownPeers
    /\ link' = [link EXCEPT ![p] = IF @ = "none" THEN "calling" ELSE @]
    /\ currentConfPeerID' = p
    /\ sessionState' = "Connecting"
    /\ gameDelegate' = TRUE
    /\ calls' = {}
    /\ UNCHANGED <<peerList, shownPeers, videoShown, lobbyAppearing, alert,
                   active, delegate, available>>

\* clickedButtonAtIndex: the only button of the alert is button 0, which calls
\* didDeclineInvitation.
DismissAlert ==
    /\ active /\ alert
    /\ alert' = FALSE
    /\ IF sessionState # "Disconnected"
       THEN calls' = {"deny"} /\ currentConfPeerID' = NoPeer
       ELSE calls' = {} /\ UNCHANGED currentConfPeerID
    /\ \/ /\ gameDelegate
          /\ ConnectionIsDead
          /\ shownPeers' = peerList
       \/ /\ ~gameDelegate
          /\ sessionState' = "Disconnected"
          /\ UNCHANGED <<gameDelegate, videoShown, lobbyAppearing, shownPeers,
                         link, available>>
    /\ UNCHANGED <<peerList, active, delegate>>

\* viewDidAppear of the lobby: the list it is handed is that of nil.
LobbyAppears ==
    /\ lobbyAppearing
    /\ lobbyAppearing' = FALSE
    /\ SetupSession
    /\ delegate' = TRUE
    /\ shownPeers' = {}
    /\ calls' = {}
    /\ UNCHANGED <<currentConfPeerID, peerList, gameDelegate, videoShown, alert,
                   active>>

\* The app resigns active: destroySession.
WillTerminate ==
    /\ active
    /\ active' = FALSE
    /\ DisconnectCurrentCall
    /\ delegate' = FALSE
    /\ shownPeers' = IF gameDelegate THEN peerList ELSE shownPeers
    /\ peerList' = {}
    /\ UNCHANGED alert

\* The app becomes active again.
WillResume ==
    /\ ~active
    /\ active' = TRUE
    /\ SetupSession
    /\ delegate' = TRUE
    /\ shownPeers' = peerList
    /\ calls' = {}
    /\ UNCHANGED <<currentConfPeerID, peerList, gameDelegate, videoShown,
                   lobbyAppearing, alert>>

-----------------------------------------------------------------------------
(* GameKit calls back.                                                      *)

\* Mutant of ConnectionRequest: an invitation opens no game screen.
ConnectionRequestUnopened(p) ==
    /\ delegate /\ link[p] \in {"none", "calling"}
    /\ IF sessionState = "Disconnected"
       THEN /\ currentConfPeerID' = p
            /\ sessionState' = "Connecting"
            /\ link' = [link EXCEPT ![p] = "accepted"]
            /\ calls' = {"accept"}
       ELSE /\ calls' = {"deny"}
            /\ UNCHANGED <<currentConfPeerID, sessionState, link>>
    /\ UNCHANGED <<peerList, screen, active, delegate, available>>

\* didReceiveConnectionRequestFromPeer: the lobby accepts every invitation it
\* is told of, and opens a game screen unless there is one.
ConnectionRequest(p) ==
    /\ delegate /\ link[p] \in {"none", "calling"}
    /\ IF sessionState = "Disconnected"
       THEN /\ currentConfPeerID' = p
            /\ sessionState' = "Connecting"
            /\ link' = [link EXCEPT ![p] = "accepted"]
            /\ gameDelegate' = TRUE
            /\ calls' = {"accept"}
       ELSE /\ calls' = {"deny"}
            /\ UNCHANGED <<currentConfPeerID, sessionState, link, gameDelegate>>
    /\ UNCHANGED <<peerList, shownPeers, videoShown, lobbyAppearing, alert,
                   active, delegate, available>>

\* connectionWithPeerFailed: denied, withdrawn or timed out.  Which peer has
\* failed is not looked at.
ConnectionFailed(p) ==
    /\ delegate /\ link[p] \in Pending
    /\ link' = [link EXCEPT ![p] = "none"]
    /\ IF sessionState # "Disconnected"
       THEN /\ alert' = TRUE
            /\ currentConfPeerID' = NoPeer
            /\ available' = TRUE
            /\ sessionState' = "Disconnected"
       ELSE UNCHANGED <<alert, currentConfPeerID, available, sessionState>>
    /\ calls' = {}
    /\ UNCHANGED <<peerList, shownPeers, gameDelegate, videoShown,
                   lobbyAppearing, active, delegate>>

\* GKPeerStateConnected: willStart of the net controller pushes the video view.
PeerConnected(p) ==
    /\ delegate /\ link[p] \in Pending
    /\ link' = [link EXCEPT ![p] = "connected"]
    /\ currentConfPeerID' = p
    /\ available' = FALSE
    /\ videoShown' = (videoShown \/ gameDelegate)
    /\ sessionState' = "Connected"
    /\ calls' = {}
    /\ UNCHANGED <<peerList, shownPeers, gameDelegate, lobbyAppearing, alert,
                   active, delegate>>

\* GKPeerStateDisconnected.
PeerDisconnected(p) ==
    /\ delegate /\ link[p] = "connected"
    /\ DisconnectCurrentCall
    /\ peerList' = peerList \ {p}
    /\ shownPeers' = peerList'
    /\ UNCHANGED <<alert, active, delegate>>

\* didFailWithError: the session with all its connections has failed.
SessionFailed ==
    /\ delegate
    /\ DisconnectCurrentCall
    /\ shownPeers' = IF gameDelegate THEN peerList ELSE shownPeers
    /\ UNCHANGED <<peerList, alert, active, delegate>>

\* GKPeerStateAvailable and GKPeerStateUnavailable.
PeerAvailable(p) ==
    /\ delegate
    /\ peerList' = peerList \cup {p}
    /\ shownPeers' = peerList'
    /\ calls' = {}
    /\ UNCHANGED <<sessionState, currentConfPeerID, gameDelegate, videoShown,
                   lobbyAppearing, alert, active, gkSession>>

PeerUnavailable(p) ==
    /\ delegate
    /\ peerList' = peerList \ {p}
    /\ shownPeers' = peerList'
    /\ calls' = {}
    /\ UNCHANGED <<sessionState, currentConfPeerID, gameDelegate, videoShown,
                   lobbyAppearing, alert, active, gkSession>>

AttemptEnds == \E p \in Peer : ConnectionFailed(p) \/ PeerConnected(p)

CallNext ==
    \/ DismissAlert
    \/ LobbyAppears
    \/ WillTerminate
    \/ WillResume
    \/ SessionFailed
    \/ AttemptEnds
    \/ \E p \in Peer : \/ SelectPeer(p)
                       \/ ConnectionRequest(p)
                       \/ PeerDisconnected(p)
                       \/ PeerAvailable(p)
                       \/ PeerUnavailable(p)

\* connectToPeer is given a timeout of 10 s and GameKit reports a request its
\* peer has withdrawn (GKLobbyViewController.m:187): it answers every attempt.
CallSpec == CallInit /\ [][CallNext]_callvars /\ WF_callvars(AttemptEnds)

-----------------------------------------------------------------------------
CallTypeOK ==
    /\ sessionState \in {"Disconnected", "Connecting", "Connected"}
    /\ currentConfPeerID \in Peer \cup {NoPeer}
    /\ peerList \subseteq Peer /\ shownPeers \subseteq Peer
    /\ gameDelegate \in BOOLEAN /\ videoShown \in BOOLEAN
    /\ lobbyAppearing \in BOOLEAN /\ alert \in BOOLEAN
    /\ active \in BOOLEAN /\ delegate \in BOOLEAN /\ available \in BOOLEAN
    /\ link \in [Peer -> {"none", "calling", "accepted", "connected"}]
    /\ calls \subseteq {"accept", "deny", "cancelConnect", "disconnectFromAllPeers"}

\* A connection that stands or is being set up always has a game screen to
\* take it: whatever releases the Galileo object (a declined invitation, the
\* end of another call, the app going inactive) also drops the connections.
NoOrphanConnection ==
    \A p \in Peer : link[p] # "none" => gameDelegate

\* A call that stands is on the screen, where it can be seen, and the rows of
\* the lobby, by which another could be started, are not.
CallIsOnScreen ==
    \A p \in Peer : link[p] = "connected" => videoShown

\* The manager's view of the call agrees with GameKit's: the peer it sends to
\* is connected, the peer it waits for is still being waited for.
CallIsLinked ==
    /\ sessionState = "Connected" => link[currentConfPeerID] = "connected"
    /\ sessionState = "Connecting" => link[currentConfPeerID] \in Pending

\* The device does not wait for a peer for ever, denying everybody else.
AttemptResolves == sessionState = "Connecting" ~> sessionState # "Connecting"

\* Does not hold: the restart of the session in willDisconnect comes first.
\* GKSessionManager.m:140, "Don't leave a peer hangin'": giving up a call that
\* the peer has not answered yet cancels it.
PeerNotLeftHanging ==
    [][(WillTerminate \/ SessionFailed \/ \E p \in Peer : PeerDisconnected(p))
          => (sessionState = "Connecting" /\ link[currentConfPeerID] = "calling"
                 => "cancelConnect" \in calls')]_callvars

\* Does not hold: a device that is only Connecting denies, too.
\* GKSessionManager.m:175: "Received an invitation.  If we aren't already
\* connected to someone, open the invitation dialog": only a device that is
\* connected denies.
DeniedOnlyInCall ==
    [][(\E p \in Peer : ConnectionRequest(p)) /\ "deny" \in calls'
          => \E p \in Peer : link[p] = "connected"]_callvars

\* Does not hold: destroySession leaves the session available.
\* GKSessionManager.m:151: "Application is exiting or becoming inactive, end
\* the session": an inactive device is not offered to its peers.
InactiveIsUnavailable == ~active => ~available

\* Does not hold: the button of the failure alert counts as a refusal.
\* GKSessionManager.m:90, "Called from GKLobbyViewController if the user
\* declines the invitation alertView": answering an alert never ends a call
\* that stands.
DeclineEndsNoCall ==
    [][DismissAlert => sessionState # "Connected"]_callvars

\* Does not hold: the handler does not ask whose attempt has failed.
\* GKSessionManager.m:187, "Unable to connect to a session with the peer": a
\* connection that fails is not the end of a call with somebody else.
FailureSparesCall ==
    [][(\E p \in Peer : ConnectionFailed(p))
          => (sessionState = "Connected" => sessionState' = "Connected")]_callvars
=============================================================================
