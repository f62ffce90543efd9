----------------------------- MODULE ViewerPage -----------------------------
(***************************************************************************)
(* A viewer's page (cloud/signaling/public/viewer.js) against the          *)
(* signaling server of SignalingRooms, whose other clients do as they      *)
(* please.  The page has one WebSocket at a time and one global pc; its    *)
(* event handlers run to completion, but startPeer awaits four times, and  *)
(* the handlers of messages, of the socket's close and of the button run   *)
(* in between.  When it goes on it uses the globals as they are then.      *)
(*                                                                         *)
(* A peer connection, the startPeer that made it and the microphone stream *)
(* granted to that startPeer have the same number.  What the browser has   *)
(* promised about a peer connection that is closed meanwhile is never      *)
(* settled; getUserMedia and replaceTrack are.                             *)
(***************************************************************************)
EXTENDS SignalingRooms

CONSTANTS
    PageRoom,    \* ui.room
    FreshIds,    \* what newClientId makes up: ids that nobody asks for
    MaxPeers,    \* bound: peer connections made
    MaxInbox     \* bound: unread messages

Pages == Readers   \* the page's sockets

ASSUME PageAssumption ==
    PageRoom \in RoomNames /\ FreshIds \subseteq Ids /\ MaxPeers \in Nat /\ MaxInbox \in Nat

VARIABLES
    ws,          \* the page's current socket, or None
    joinSent,    \* and onopen has run on it
    wanted,      \* connectedIntent
    timer,       \* reconnectTimer is set
    page,        \* the globals of the live view, see NoPeer
    tasks,       \* startPeers that await: [n, at, of]
    made,        \* peer connections made so far
    offered,     \* history: the clients that an offer of pc has reached
    failed,      \* history: a startPeer failed, thrown by the browser or for want of ws
    overtaken    \* history: a startPeer went on when its pc was not the page's any more

pageVars == <<ws, joinSent, wanted, timer, page, tasks, made, offered, failed, overtaken>>
viewerVars == <<roomVars, pageVars>>

(* pcs and mics are the browser's: what is open, whoever refers to it. *)
NoPeer == [masterId |-> None, offerStarted |-> FALSE, pc |-> 0, mic |-> 0, pcs |-> {}, mics |-> {}]

-----------------------------------------------------------------------------
(* Mutant: offerStarted is not reset. *)
closePeerStaysStarted(p) ==
    [NoPeer EXCEPT !.offerStarted = p.offerStarted, !.pcs = p.pcs \ {p.pc}, !.mics = p.mics \ {p.mic}]

(* Mutant: the peer connection is forgotten, not closed. *)
closePeerLeaves(p) == [NoPeer EXCEPT !.pcs = p.pcs, !.mics = p.mics \ {p.mic}]

closePeer(p) == [NoPeer EXCEPT !.pcs = p.pcs \ {p.pc}, !.mics = p.mics \ {p.mic}]

(* The tasks that still have something to wait for when pcs are open. *)
Pending(pcs) == {t \in tasks : t.of = 0 \/ t.of \in pcs}

PeerCloses ==
    /\ page' = closePeer(page)
    /\ tasks' = Pending(page'.pcs)
    /\ offered' = {}
    /\ UNCHANGED <<made, failed, overtaken>>

-----------------------------------------------------------------------------
(* connect: the button, or the reconnect timer.  A closed socket's name is *)
(* used again.                                                             *)
connect ==
    /\ ws = None
    /\ ~wanted \/ timer
    /\ \E s \in Pages :
          /\ conn[s] \in {"new", "closed"}
          /\ ws' = s
          /\ conn' = [conn EXCEPT ![s] = "new"]
    /\ joinSent' = FALSE
    /\ wanted' = TRUE
    /\ timer' = FALSE
    /\ PeerCloses
    /\ UNCHANGED <<peer, rooms, told, inbox>>

(* ws.onopen: the server makes up an id for the viewer. *)
onopen ==
    /\ ws # None /\ conn[ws] = "open" /\ ~joinSent
    /\ joinSent' = TRUE
    /\ \E id \in FreshIds :
          /\ PageRoom \in DOMAIN rooms => ~roomHasId(rooms[PageRoom], id)
          /\ JoinViewer(ws, PageRoom, id)
    /\ UNCHANGED <<ws, wanted, timer, page, tasks, made, offered, failed, overtaken>>

(* ws.onclose, also when the connection could not be made. *)
onclose ==
    /\ ws # None
    /\ conn[ws] \in {"new", "closed"}
    /\ conn' = [conn EXCEPT ![ws] = "closed"]
    /\ inbox' = [inbox EXCEPT ![ws] = <<>>]
    /\ ws' = None
    /\ joinSent' = FALSE
    /\ timer' = TRUE
    /\ PeerCloses
    /\ UNCHANGED <<peer, rooms, told, wanted>>

(* disconnect, by the button or the switch to replay.  The page hears      *)
(* nothing more on the socket, the server notices later.                   *)
disconnect ==
    /\ wanted
    /\ wanted' = FALSE
    /\ timer' = FALSE
    /\ ws' = None
    /\ joinSent' = FALSE
    /\ IF ws = None THEN UNCHANGED <<conn, inbox>>
       ELSE /\ conn' = [conn EXCEPT ![ws] = CASE @ = "new" -> "closed"
                                              [] @ = "open" -> "closing"
                                              [] OTHER -> @]
            /\ inbox' = [inbox EXCEPT ![ws] = <<>>]
    /\ PeerCloses
    /\ UNCHANGED <<peer, rooms, told>>

-----------------------------------------------------------------------------
(* ws.onmessage: peer-left of the master ... *)
MasterGone ==
    /\ ws # None /\ inbox[ws] # <<>>
    /\ Head(inbox[ws]) = None
    /\ inbox' = [inbox EXCEPT ![ws] = Tail(@)]
    /\ PeerCloses
    /\ UNCHANGED <<conn, peer, rooms, told, ws, joinSent, wanted, timer>>

(* startPeer for master h as far as its first await. *)
StartPeerAwaits(h) ==
    /\ made < MaxPeers
    /\ made' = made + 1
    /\ page' = [page EXCEPT !.masterId = h, !.offerStarted = TRUE,
                            !.pc = made', !.pcs = @ \cup {made'}]
    /\ tasks' = tasks \cup {[n |-> made', at |-> "mic", of |-> 0]}
    /\ UNCHANGED failed

(* The browser throws before: in the constructor of the peer connection,   *)
(* or later, when pc is the new one already.  startPeer's catch leaves     *)
(* either pc as it is.                                                     *)
StartPeerThrows(h) ==
    /\ \/ /\ page' = [page EXCEPT !.masterId = h]
          /\ UNCHANGED made
       \/ /\ made < MaxPeers
          /\ made' = made + 1
          /\ page' = [page EXCEPT !.masterId = h, !.pc = made', !.pcs = @ \cup {made'}]
    /\ failed' = TRUE
    /\ UNCHANGED tasks

(* ... joined or peer-joined with a master.                                *)
MasterThere ==
    /\ ws # None /\ inbox[ws] # <<>>
    /\ Head(inbox[ws]) # None
    /\ inbox' = [inbox EXCEPT ![ws] = Tail(@)]
    /\ \/ /\ page.offerStarted
          /\ page' = [page EXCEPT !.masterId = Head(inbox[ws])]
          /\ UNCHANGED <<tasks, made, failed>>
       \/ /\ ~page.offerStarted
          /\ StartPeerAwaits(Head(inbox[ws])) \/ StartPeerThrows(Head(inbox[ws]))
    /\ UNCHANGED <<conn, peer, rooms, told, ws, joinSent, wanted, timer, offered, overtaken>>

-----------------------------------------------------------------------------
Others(t) == tasks \ {t}

(* startPeer's catch. *)
Catch(t, p) ==
    /\ page' = [p EXCEPT !.offerStarted = FALSE]
    /\ tasks' = Others(t)
    /\ failed' = (failed \/ p.pc # 0)

(* From the microphone on: an offer of whatever pc is now. *)
CreateOffer(t, p) ==
    IF p.pc = 0 THEN Catch(t, p)
    ELSE /\ page' = p
         /\ tasks' = Others(t) \cup {[t EXCEPT !.at = "offer", !.of = p.pc]}
         /\ UNCHANGED failed

GoesOn(t) == overtaken' = (overtaken \/ page.pc # t.n)

(* getUserMedia settles.  Without a sender the inner catch goes on. *)
MicGranted(t) ==
    /\ t.at = "mic"
    /\ GoesOn(t)
    /\ LET p == [page EXCEPT !.mic = t.n, !.mics = @ \cup {t.n}]
       IN  IF p.pc = 0 THEN CreateOffer(t, p)
           ELSE /\ page' = p
                /\ tasks' = Others(t) \cup {[t EXCEPT !.at = "track"]}
                /\ UNCHANGED failed
    /\ UNCHANGED <<roomVars, ws, joinSent, wanted, timer, made, offered>>

(* It is refused, or replaceTrack settles. *)
MicDone(t) ==
    /\ t.at \in {"mic", "track"}
    /\ GoesOn(t)
    /\ CreateOffer(t, page)
    /\ UNCHANGED <<roomVars, ws, joinSent, wanted, timer, made, offered>>

(* createOffer and then setLocalDescription settle (nothing tells the two  *)
(* awaits apart), and the offer is sent to masterId.  The peer connection  *)
(* awaited may be one that the page has lost hold of.                      *)
OfferSent(t) ==
    /\ t.at = "offer"
    /\ ws # None /\ conn[ws] # "new"
    /\ tasks' = Others(t)
    /\ offered' = IF peer[ws] = None \/ t.of # page.pc THEN offered
                  ELSE offered \cup {find(peer[ws].room, page.masterId)}
    /\ UNCHANGED <<roomVars, ws, joinSent, wanted, timer, page, made, failed, overtaken>>

(* createOffer, setLocalDescription or send throws: on the browser's       *)
(* account, or because pc or ws are not what they were.                    *)
OfferFails(t) ==
    /\ t.at = "offer"
    /\ Catch(t, page)
    /\ UNCHANGED <<roomVars, ws, joinSent, wanted, timer, made, offered, overtaken>>

-----------------------------------------------------------------------------
(* The server accepts the page's connection, or loses it. *)
PageConnection ==
    \E s \in Pages :
        /\ \/ s = ws /\ Connect(s)
           \/ Close(s)
        /\ UNCHANGED pageVars

OtherClient ==
    \E s \in Sockets \ Pages :
        /\ ClientStep(s, Ids \ FreshIds)
        /\ \A p \in Pages : Len(inbox'[p]) <= MaxInbox
        /\ UNCHANGED pageVars

PageInit ==
    /\ Init
    /\ ws = None /\ joinSent = FALSE /\ wanted = FALSE /\ timer = FALSE
    /\ page = NoPeer /\ tasks = {} /\ made = 0
    /\ offered = {} /\ failed = FALSE /\ overtaken = FALSE

StartPeerGoesOn ==
    \E t \in tasks : MicGranted(t) \/ MicDone(t) \/ OfferSent(t) \/ OfferFails(t)

PageNext ==
    \/ connect \/ onopen \/ onclose \/ disconnect
    \/ MasterGone \/ MasterThere \/ StartPeerGoesOn
    \/ PageConnection \/ OtherClient

PageSpec == PageInit /\ [][PageNext]_viewerVars

-----------------------------------------------------------------------------
PageTypeOK ==
    /\ TypeOK
    /\ ws \in Pages \cup {None}
    /\ joinSent \in BOOLEAN /\ wanted \in BOOLEAN /\ timer \in BOOLEAN
    /\ page.masterId \in Ids \cup {None} /\ page.offerStarted \in BOOLEAN
    /\ page.pc \in 0..MaxPeers /\ page.mic \in 0..MaxPeers
    /\ page.pcs \subseteq 1..MaxPeers /\ page.mics \subseteq 1..MaxPeers
    /\ tasks \subseteq [n : 1..MaxPeers, at : {"mic", "track", "offer"}, of : 0..MaxPeers]
    /\ made \in 0..MaxPeers
    /\ offered \subseteq Sockets \cup {None}
    /\ failed \in BOOLEAN
    /\ overtaken \in BOOLEAN

(* Nothing is left to read or to wait for, on the page and between it and  *)
(* the server.                                                             *)
PageAtRest ==
    /\ ws # None /\ conn[ws] = "open" /\ peer[ws] # None
    /\ inbox[ws] = <<>> /\ tasks = {}

(* Whatever came and went meanwhile, masters that replaced each other, lost *)
(* connections, a startPeer that went on when its peer had been closed: a  *)
(* page at rest in a room with a camera has a peer connection whose offer  *)
(* reached that camera, unless a startPeer failed; in a room without, it   *)
(* has none (viewer.js:274-300,346-347,461-470,512-532, rooms.js:56-122).  *)
PageMeetsCamera ==
    PageAtRest =>
        LET camera == rooms[PageRoom].master
        IN  IF camera = None THEN page.pc = 0
            ELSE conn[camera] = "open" /\ ~failed => page.pc # 0 /\ camera \in offered

(* The page keeps hold of what it opens.  Unless a startPeer failed (the   *)
(* second of the two messages that announce a master to a newcomer then    *)
(* makes another peer), it never loses a peer connection it has not        *)
(* closed, and no microphone stays open but the current peer's, unless a   *)
(* startPeer went on after its peer had been closed                        *)
(* (viewer.js:274-300,461-489, rooms.js:103-121).                          *)
PageKeepsHold ==
    ~failed =>
        /\ page.pcs \subseteq {page.pc}
        /\ overtaken \/ page.mics \subseteq {page.pc}
=============================================================================
