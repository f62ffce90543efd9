--------------------------- MODULE SignalingRooms ---------------------------
(***************************************************************************)
(* The signaling server's room table (cloud/signaling/rooms.js) and the    *)
(* handlers that change it: join and leave messages (protocol.js) and the  *)
(* close of a socket (server.js).  A room holds at most one master, the    *)
(* camera, and a few viewers.  Handlers run to completion one at a time.   *)
(*                                                                         *)
(* A peer object is identified by its socket: a socket's earlier peer has  *)
(* left before a later one is made.  Of the messages the server sends only *)
(* joined, peer-joined and peer-left are kept, folded into told: what the  *)
(* client believes once it has read everything sent to it.  For sockets    *)
(* whose reading is modelled, inbox holds the unread ones about the master *)
(* in order: its id, or None when it left.  A socket that is closing is    *)
(* sent nothing, but what it sends is still handled.                       *)
(***************************************************************************)
EXTENDS Integers, FiniteSets, Sequences, Functions

CONSTANTS
    Sockets,     \* WebSocket connections
    Readers,     \* the sockets that have an inbox
    RoomNames,
    Ids,         \* client ids, requested or generated
    None,        \* no master, no peer
    MaxViewers   \* maxViewers

ASSUME RoomsAssumption ==
    /\ None \notin Sockets
    /\ Readers \subseteq Sockets
    /\ None \notin Ids
    /\ None \notin [id : Ids, role : {"master", "viewer"}, room : RoomNames]
    /\ MaxViewers \in Nat \ {0}

VARIABLES
    conn,    \* per socket: "new", "open", "closing" (close was called), "closed"
    peer,    \* per socket, server.js's peer: None or [id, role, room]
    rooms,   \* the Map: a function from the names of existing rooms
    told,    \* per socket: [master |-> its room's master id, viewers |-> ids]
    inbox    \* per reader: news of the master that it has not read

roomVars == <<conn, peer, rooms, told, inbox>>

EmptyRoom == [master |-> None, viewers |-> {}]
Unaware == [master |-> None, viewers |-> {}]

-----------------------------------------------------------------------------
(* The handlers work on st == [conn, rooms, told, inbox] and return it     *)
(* changed.                                                                *)

(* send(ws, ...) to each socket that news says what it knows afterwards:   *)
(* a closing one gets nothing.                                             *)
Tell(st, news) ==
    [st EXCEPT !.told =
        [s \in Sockets |-> IF s \in DOMAIN news /\ st.conn[s] = "open" THEN news[s] ELSE @[s]]]

(* The readers among the sockets get the messages. *)
Post(st, to, messages) ==
    [st EXCEPT !.inbox =
        [s \in Readers |-> IF s \in to /\ st.conn[s] = "open" THEN @[s] \o messages ELSE @[s]]]

(* notifyViewers: the room's viewers learn who the master is now. *)
notifyViewers(st, room, master) ==
    Post(Tell(st, [v \in room.viewers |-> [st.told[v] EXCEPT !.master = master]]),
         room.viewers, <<master>>)

(* The master, if there is one, learns of viewers that went and came. *)
TellMaster(st, room, went, came) ==
    Tell(st, [m \in {room.master} \ {None} |->
                 [st.told[m] EXCEPT !.viewers = (@ \ went) \cup came]])

ensure(st, name) ==
    IF name \in DOMAIN st.rooms THEN st
    ELSE [st EXCEPT !.rooms = [r \in DOMAIN @ \cup {name} |-> IF r = name THEN EmptyRoom ELSE @[r]]]

dropIfEmpty(st, name) ==
    IF st.rooms[name] = EmptyRoom
    THEN [st EXCEPT !.rooms = Restrict(@, DOMAIN @ \ {name})]
    ELSE st

(* A room's members by id. *)
ViewerIds(room) == {peer[v].id : v \in room.viewers}
MasterId(room) == IF room.master = None THEN None ELSE peer[room.master].id
roomHasId(room, id) == id = MasterId(room) \/ id \in ViewerIds(room)

-----------------------------------------------------------------------------
(* Mutant: the viewers are not told. *)
MasterLeavesSilently(st, s) == [st EXCEPT !.rooms[peer[s].room].master = None]

MasterLeaves(st, s) ==
    notifyViewers([st EXCEPT !.rooms[peer[s].room].master = None], st.rooms[peer[s].room], None)

ViewerLeaves(st, s) ==
    TellMaster([st EXCEPT !.rooms[peer[s].room].viewers = @ \ {s}], st.rooms[peer[s].room],
               {peer[s].id}, {})

(* Mutant: whoever leaves as a master empties the master's place. *)
leaveAnyMaster(st, s) ==
    IF peer[s] = None \/ peer[s].room \notin DOMAIN st.rooms THEN st
    ELSE LET room == st.rooms[peer[s].room]
         IN  dropIfEmpty(IF peer[s].role = "master" THEN MasterLeaves(st, s)
                         ELSE IF s \in room.viewers THEN ViewerLeaves(st, s) ELSE st,
                         peer[s].room)

(* leave(peer): only the room's own master or viewer is taken out, so that *)
(* a replaced master that goes later disturbs nobody.                      *)
leave(st, s) ==
    IF peer[s] = None \/ peer[s].room \notin DOMAIN st.rooms THEN st
    ELSE LET room == st.rooms[peer[s].room]
         IN  dropIfEmpty(IF peer[s].role = "master" /\ room.master = s THEN MasterLeaves(st, s)
                         ELSE IF peer[s].role = "viewer" /\ s \in room.viewers
                              THEN ViewerLeaves(st, s) ELSE st,
                         peer[s].room)

(* joinMaster, replacement: the old master is told, closed and announced   *)
(* as gone.                                                                *)
ReplaceMaster(st, name) ==
    LET room == st.rooms[name]
    IN  IF room.master = None THEN st
        ELSE notifyViewers([st EXCEPT !.conn[room.master] = "closing", !.rooms[name].master = None,
                                      !.told[room.master] = Unaware], room, None)

(* find: the master goes before the viewers. *)
find(name, id) ==
    IF name \notin DOMAIN rooms THEN None
    ELSE IF id = MasterId(rooms[name]) THEN rooms[name].master
    ELSE CHOOSE v \in rooms[name].viewers \cup {None} :
            IF id \in ViewerIds(rooms[name]) THEN v # None /\ peer[v].id = id ELSE v = None

(* joinMaster(ws, roomName, requestedId): the id is not compared with the  *)
(* viewers'.                                                               *)
joinMaster(st, s, name, id) ==
    LET replaced == ReplaceMaster(ensure(st, name), name)
        room == replaced.rooms[name]
        joined == Tell([replaced EXCEPT !.rooms[name].master = s],
                       [v \in {s} |-> [master |-> None, viewers |-> ViewerIds(room)]])
    IN  notifyViewers(joined, room, id)

(* joinViewer's two refusals. *)
Refused(room, id) == roomHasId(room, id) \/ Cardinality(room.viewers) >= MaxViewers

(* joinViewer(ws, roomName, requestedId).  viewers.set(id, peer) replaces  *)
(* an entry with the same id.  The viewer is told of the master twice, in  *)
(* joined and in peer-joined.                                              *)
joinViewer(st, s, name, id) ==
    LET room == st.rooms[name]
        others == {v \in room.viewers : peer[v].id # id}
        joined == Tell([st EXCEPT !.rooms[name].viewers = others \cup {s}],
                       [v \in {s} |-> [master |-> MasterId(room), viewers |-> {}]])
    IN  TellMaster(IF room.master = None THEN joined
                   ELSE Post(joined, {s}, <<MasterId(room), MasterId(room)>>),
                   room, {}, {id})

-----------------------------------------------------------------------------
Now == [conn |-> conn, rooms |-> rooms, told |-> told, inbox |-> inbox]

(* A client that has left or was refused believes nothing of a room. *)
Becomes(st, s, newPeer) ==
    /\ conn' = st.conn
    /\ rooms' = st.rooms
    /\ inbox' = st.inbox
    /\ told' = IF newPeer = None THEN [st.told EXCEPT ![s] = Unaware] ELSE st.told
    /\ peer' = [peer EXCEPT ![s] = newPeer]

(* wss connection with a valid token. *)
Connect(s) ==
    /\ conn[s] = "new"
    /\ Becomes([Now EXCEPT !.conn[s] = "open"], s, None)

(* Messages of a closing socket are still handled. *)
Heard(s) == conn[s] \in {"open", "closing"}

(* Mutant: an absent id is kept instead of being generated. *)
JoinMasterNameless(s, name, id) ==
    /\ Heard(s)
    /\ Becomes(joinMaster(leave(Now, s), s, name, None), s,
               [id |-> None, role |-> "master", room |-> name])

(* handleClientMessage, join: a socket that has joined before leaves first. *)
JoinMaster(s, name, id) ==
    /\ Heard(s)
    /\ Becomes(joinMaster(leave(Now, s), s, name, id), s,
               [id |-> id, role |-> "master", room |-> name])

JoinViewer(s, name, id) ==
    /\ Heard(s)
    /\ LET st == ensure(leave(Now, s), name)
       IN  IF Refused(st.rooms[name], id)
           THEN Becomes(st, s, None)
           ELSE Becomes(joinViewer(st, s, name, id), s,
                        [id |-> id, role |-> "viewer", room |-> name])

(* handleClientMessage, leave. *)
Leave(s) ==
    /\ Heard(s)
    /\ peer[s] # None
    /\ Becomes(leave(Now, s), s, None)

(* The socket's close event: the client went, the closing handshake ended, *)
(* or the heartbeat terminated a socket that had not answered.             *)
Close(s) ==
    /\ Heard(s)
    /\ Becomes(leave([Now EXCEPT !.conn[s] = "closed"], s), s, None)

-----------------------------------------------------------------------------
Init ==
    /\ conn = [s \in Sockets |-> "new"]
    /\ peer = [s \in Sockets |-> None]
    /\ rooms = [r \in {} |-> EmptyRoom]
    /\ told = [s \in Sockets |-> Unaware]
    /\ inbox = [s \in Readers |-> <<>>]

(* What a client may do, in whatever order, with ids it asks for. *)
ClientStep(s, ids) ==
    \/ Connect(s)
    \/ \E r \in RoomNames, id \in ids : JoinMaster(s, r, id) \/ JoinViewer(s, r, id)
    \/ Leave(s)
    \/ Close(s)

-----------------------------------------------------------------------------
TypeOK ==
    /\ conn \in [Sockets -> {"new", "open", "closing", "closed"}]
    /\ peer \in [Sockets -> {None} \cup [id : Ids, role : {"master", "viewer"}, room : RoomNames]]
    /\ \E S \in SUBSET RoomNames :
          rooms \in [S -> [master : Sockets \cup {None}, viewers : SUBSET Sockets]]
    /\ told \in [Sockets -> [master : Ids \cup {None}, viewers : SUBSET Ids]]
    /\ inbox \in [Readers -> Seq(Ids \cup {None})]

(* The table holds no empty room, whatever order members come and go in    *)
(* and whichever joins are refused (rooms.js:35-48,93-101).                *)
NoEmptyRooms == \A r \in DOMAIN rooms : rooms[r] # EmptyRoom

(* A room's members are live sockets that joined it in that role, so no    *)
(* socket has both roles or a place it has left (rooms.js:125-155,         *)
(* server.js:115-118).                                                     *)
MembersAreLive ==
    \A r \in DOMAIN rooms :
        /\ rooms[r].master # None =>
              /\ Heard(rooms[r].master)
              /\ peer[rooms[r].master] # None
              /\ peer[rooms[r].master].role = "master"
              /\ peer[rooms[r].master].room = r
        /\ \A v \in rooms[r].viewers :
              Heard(v) /\ peer[v] # None /\ peer[v].role = "viewer" /\ peer[v].room = r

(* A connected client that has joined is in its room: the late close of a  *)
(* master that was replaced never evicts its successor (rooms.js:134), and *)
(* a master without a place is on its way out (rooms.js:59-66).            *)
JoinedIsMember ==
    \A s \in Sockets :
        conn[s] = "open" /\ peer[s] # None =>
            /\ peer[s].room \in DOMAIN rooms
            /\ peer[s].role = "master" => rooms[peer[s].room].master = s
            /\ peer[s].role = "viewer" => s \in rooms[peer[s].room].viewers

(* Together: the table and the sockets agree whatever was refused,         *)
(* replaced, closed late or lost, and no room holds more viewers than the  *)
(* limit however they rejoin (rooms.js:98).                                *)
RoomsConsistent ==
    /\ NoEmptyRooms /\ MembersAreLive /\ JoinedIsMember
    /\ \A r \in DOMAIN rooms : Cardinality(rooms[r].viewers) <= MaxViewers

(* Every client that has read its messages knows the room: a viewer the    *)
(* current master (so that its offer goes to a device that is there), the  *)
(* master exactly the present viewers (so that it keeps no session for one *)
(* that left), through replacements, rejoins and lost connections          *)
(* (rooms.js:67-87,107-120,136-150).                                       *)
ViewsAgree ==
    \A r \in DOMAIN rooms :
        /\ \A v \in rooms[r].viewers : conn[v] = "open" => told[v].master = MasterId(rooms[r])
        /\ LET m == rooms[r].master
           IN  m # None /\ conn[m] = "open" => told[m].viewers = ViewerIds(rooms[r])
=============================================================================
