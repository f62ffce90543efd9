-------------------------- MODULE ViewerPageProofs --------------------------
(***************************************************************************)
(* The room table and a page that watches it, for any number of clients,   *)
(* rooms, ids and peer connections.  The first part is about the server:   *)
(* what each handler does to the table, and that the table, the sockets    *)
(* and what the clients were told stay consistent.  The second part is     *)
(* about the page: what it has yet to read tells it how the room is, and   *)
(* an offer to the camera is under way until it has been sent.             *)
(***************************************************************************)
EXTENDS ViewerPage, FiniteSetTheorems, TLAPS

PeerRecord == [id : Ids, role : {"master", "viewer"}, room : RoomNames]
Room == [master : Sockets \cup {None}, viewers : SUBSET Sockets]

(* The table is consistent; a room's viewers have different ids, and a     *)
(* socket that is not connected has no peer.                               *)
RoomsInv ==
    /\ TypeOK /\ RoomsConsistent /\ ViewsAgree
    /\ \A r \in DOMAIN rooms : IsFiniteSet(rooms[r].viewers)
    /\ \A r \in DOMAIN rooms : \A v, w \in rooms[r].viewers : peer[v].id = peer[w].id => v = w
    /\ \A s \in Sockets : conn[s] \in {"new", "closed"} => peer[s] = None

Tasks == [n : 1..MaxPeers, at : {"mic", "track", "offer"}, of : 0..MaxPeers]

(* The page's other variables have their types. *)
RestOK ==
    /\ ws \in Pages \cup {None}
    /\ joinSent \in BOOLEAN /\ wanted \in BOOLEAN /\ timer \in BOOLEAN
    /\ tasks \subseteq Tasks /\ made \in 0..MaxPeers
    /\ offered \subseteq Sockets \cup {None}
    /\ failed \in BOOLEAN /\ overtaken \in BOOLEAN

Globals ==
    [masterId : Ids \cup {None}, offerStarted : BOOLEAN, pc : 0..MaxPeers, mic : 0..MaxPeers,
     pcs : SUBSET (1..MaxPeers), mics : SUBSET (1..MaxPeers)]

(* The globals of the live view fit together. *)
GlobalsInv ==
    /\ page \in Globals
    /\ page.pc # 0 => page.masterId # None
    /\ page.offerStarted => page.pc # 0
    /\ ~failed => /\ page.masterId # None => page.pc # 0
                  /\ page.pc # 0 => page.offerStarted
                  /\ page.pcs \subseteq {page.pc}
                  /\ ~overtaken => page.mics \subseteq {page.pc} /\ page.mics \subseteq {page.mic}

(* Only the page's current socket is open, and until it has joined there   *)
(* is nothing on the page and nothing to read.                             *)
SocketsInv ==
    /\ \A s \in Pages : s # ws => conn[s] # "open" /\ inbox[s] = <<>>
    /\ \A s \in Pages : peer[s] # None => peer[s].role = "viewer" /\ peer[s].room = PageRoom
    /\ ws # None /\ (conn[ws] = "new" \/ (conn[ws] = "open" /\ peer[ws] = None)) =>
          inbox[ws] = <<>> /\ page.pc = 0 /\ page.masterId = None
    /\ ws # None /\ conn[ws] = "open" /\ peer[ws] # None => joinSent

Joined == ws # None /\ conn[ws] = "open" /\ peer[ws] # None
Master == rooms[PageRoom].master
MasterNow == MasterId(rooms[PageRoom])

(* The messages say of no master that it left. *)
NobodyLeft(x) == \A i \in 1..Len(x) : x[i] # None

(* What a joined page has yet to read, after masterId, ends with the room  *)
(* as it is: after the last peer-left there is nothing but the present     *)
(* master.                                                                 *)
EndsWith(x, masterId, now) ==
    /\ x = <<>> => masterId = now
    /\ x # <<>> => x[Len(x)] = now
    /\ \A i \in 1..Len(x) : (\A j \in i..Len(x) : x[j] # None) => x[i] = now
    /\ NobodyLeft(x) /\ masterId # None => masterId = now

NewsInv == Joined => EndsWith(inbox[ws], page.masterId, MasterNow)

(* A startPeer is under way that will offer pc to the master. *)
OfferComes == \E t \in tasks : t.at \in {"mic", "track"} \/ t.of = page.pc

OffersInv ==
    Joined /\ NobodyLeft(inbox[ws]) /\ page.pc # 0 /\ ~failed => OfferComes \/ Master \in offered

PageInv == RoomsInv /\ RestOK /\ GlobalsInv /\ SocketsInv /\ NewsInv /\ OffersInv

-----------------------------------------------------------------------------
(* The state the handlers work on, and what its helpers do to it.          *)

State(c, r, t, i) == [conn |-> c, rooms |-> r, told |-> t, inbox |-> i]

(* What the sockets believe, and what they have to read, after a Tell or a *)
(* Post.                                                                   *)
Told(c, t, news) ==
    [s \in Sockets |-> IF s \in DOMAIN news /\ c[s] = "open" THEN news[s] ELSE t[s]]
Posted(c, i, to, messages) ==
    [s \in Readers |-> IF s \in to /\ c[s] = "open" THEN i[s] \o messages ELSE i[s]]
Noted(c, i, to, m) == Posted(c, i, to, <<m>>)

LEMMA TellEffect ==
  ASSUME NEW c, NEW r, NEW t, NEW i, NEW news
  PROVE  Tell(State(c, r, t, i), news) = State(c, r, Told(c, t, news), i)
  BY DEF Tell, State, Told

LEMMA PostEffect ==
  ASSUME NEW c, NEW r, NEW t, NEW i, NEW to, NEW messages
  PROVE  Post(State(c, r, t, i), to, messages) = State(c, r, t, Posted(c, i, to, messages))
<1> DEFINE st == State(c, r, t, i)
<1>1. st.inbox = i /\ st.conn = c
  BY DEF State
<1>2. ASSUME NEW x PROVE [st EXCEPT !.inbox = x] = State(c, r, t, x)
  BY DEF State
<1> HIDE DEF st
<1>3. Post(st, to, messages) = [st EXCEPT !.inbox = Posted(c, i, to, messages)]
  BY <1>1 DEF Post, Posted
<1> QED BY <1>2, <1>3 DEF st

(* The viewers' beliefs once they know the master, the master's once it    *)
(* knows who went and came; the table with another room, or without it.    *)
MasterNews(t, vs, m) == [v \in vs |-> [t[v] EXCEPT !.master = m]]
ViewerNews(t, m, went, came) ==
    [q \in {m} \ {None} |-> [t[q] EXCEPT !.viewers = (@ \ went) \cup came]]
Put(r, n, room) == [r EXCEPT ![n] = room]
Dropped(r, n) == IF r[n] = EmptyRoom THEN Restrict(r, DOMAIN r \ {n}) ELSE r

LEMMA NotifyEffect ==
  ASSUME NEW c, NEW r, NEW t, NEW i, NEW room, NEW m
  PROVE  notifyViewers(State(c, r, t, i), room, m) =
           State(c, r, Told(c, t, MasterNews(t, room.viewers, m)), Noted(c, i, room.viewers, m))
<1>1. State(c, r, t, i).told = t
  BY DEF State
<1> QED BY <1>1, TellEffect, PostEffect DEF notifyViewers, MasterNews, Noted

LEMMA TellMasterEffect ==
  ASSUME NEW c, NEW r, NEW t, NEW i, NEW room, NEW went, NEW came
  PROVE  TellMaster(State(c, r, t, i), room, went, came) =
           State(c, r, Told(c, t, ViewerNews(t, room.master, went, came)), i)
<1>1. State(c, r, t, i).told = t
  BY DEF State
<1> QED BY <1>1, TellEffect DEF TellMaster, ViewerNews

LEMMA DropEffect ==
  ASSUME NEW c, NEW r, NEW t, NEW i, NEW n
  PROVE  dropIfEmpty(State(c, r, t, i), n) = State(c, Dropped(r, n), t, i)
  BY DEF dropIfEmpty, State, Dropped

-----------------------------------------------------------------------------
(* The invariant room by room, with the sockets, peers and beliefs as      *)
(* parameters.                                                             *)

IdOf(p, q) == IF q = None THEN None ELSE p[q].id
IdsOf(p, qs) == {p[q].id : q \in qs}

Member(c, p, q, role, n) ==
    c[q] \in {"open", "closing"} /\ p[q] # None /\ p[q].role = role /\ p[q].room = n

RoomFits(c, p, t, room, n) ==
    /\ room.master # None => Member(c, p, room.master, "master", n)
    /\ \A v \in room.viewers : Member(c, p, v, "viewer", n)
    /\ IsFiniteSet(room.viewers) /\ Cardinality(room.viewers) <= MaxViewers
    /\ \A v, w \in room.viewers : p[v].id = p[w].id => v = w
    /\ \A v \in room.viewers : c[v] = "open" => t[v].master = IdOf(p, room.master)
    /\ room.master # None /\ c[room.master] = "open" =>
          t[room.master].viewers = IdsOf(p, room.viewers)

RoomOK(c, p, t, room, n) == room # EmptyRoom /\ RoomFits(c, p, t, room, n)

InPlace(p, r, q) ==
    /\ p[q].room \in DOMAIN r
    /\ p[q].role = "master" => r[p[q].room].master = q
    /\ p[q].role = "viewer" => q \in r[p[q].room].viewers

Conns == [Sockets -> {"new", "open", "closing", "closed"}]
Beliefs == [Sockets -> [master : Ids \cup {None}, viewers : SUBSET Ids]]
Inboxes == [Readers -> Seq(Ids \cup {None})]
Table(r) == DOMAIN r \subseteq RoomNames /\ r \in [DOMAIN r -> Room]

ByRoom ==
    /\ conn \in Conns /\ peer \in [Sockets -> {None} \cup PeerRecord]
    /\ Table(rooms) /\ told \in Beliefs
    /\ inbox \in Inboxes
    /\ \A n \in DOMAIN rooms : RoomOK(conn, peer, told, rooms[n], n)
    /\ \A q \in Sockets : conn[q] = "open" /\ peer[q] # None => InPlace(peer, rooms, q)
    /\ \A q \in Sockets : conn[q] \in {"new", "closed"} => peer[q] = None

LEMMA InvByRoom == RoomsInv <=> ByRoom
<1>1. TypeOK <=> /\ conn \in Conns /\ peer \in [Sockets -> {None} \cup PeerRecord]
                 /\ Table(rooms) /\ told \in Beliefs
                 /\ inbox \in Inboxes
  <2>1. (\E S \in SUBSET RoomNames : rooms \in [S -> Room]) <=> Table(rooms)
    BY DEF Table
  <2> QED BY <2>1 DEF TypeOK, Conns, Beliefs, Inboxes, Room, PeerRecord
<1>2. \A n \in DOMAIN rooms : MasterId(rooms[n]) = IdOf(peer, rooms[n].master)
                              /\ ViewerIds(rooms[n]) = IdsOf(peer, rooms[n].viewers)
  BY DEF MasterId, IdOf, ViewerIds, IdsOf
<1>3. RoomsInv => \A n \in DOMAIN rooms : RoomOK(conn, peer, told, rooms[n], n)
  <2> SUFFICES ASSUME RoomsInv, NEW n \in DOMAIN rooms PROVE RoomOK(conn, peer, told, rooms[n], n)
    OBVIOUS
  <2>1. rooms[n] # EmptyRoom /\ IsFiniteSet(rooms[n].viewers)
        /\ Cardinality(rooms[n].viewers) <= MaxViewers
        /\ \A v, w \in rooms[n].viewers : peer[v].id = peer[w].id => v = w
    BY DEF RoomsInv, RoomsConsistent, NoEmptyRooms
  <2>2. /\ rooms[n].master # None => Member(conn, peer, rooms[n].master, "master", n)
        /\ \A v \in rooms[n].viewers : Member(conn, peer, v, "viewer", n)
    BY DEF RoomsInv, RoomsConsistent, MembersAreLive, Heard, Member
  <2>3. /\ \A v \in rooms[n].viewers :
              conn[v] = "open" => told[v].master = IdOf(peer, rooms[n].master)
        /\ rooms[n].master # None /\ conn[rooms[n].master] = "open" =>
              told[rooms[n].master].viewers = IdsOf(peer, rooms[n].viewers)
    BY <1>2 DEF RoomsInv, ViewsAgree
  <2> QED BY <2>1, <2>2, <2>3 DEF RoomOK, RoomFits
<1>4. ASSUME \A n \in DOMAIN rooms : RoomOK(conn, peer, told, rooms[n], n)
      PROVE  /\ NoEmptyRooms /\ MembersAreLive /\ ViewsAgree
             /\ \A r \in DOMAIN rooms : Cardinality(rooms[r].viewers) <= MaxViewers
             /\ \A r \in DOMAIN rooms : IsFiniteSet(rooms[r].viewers)
             /\ \A r \in DOMAIN rooms : \A v, w \in rooms[r].viewers :
                   peer[v].id = peer[w].id => v = w
  <2>1. NoEmptyRooms
    BY <1>4 DEF NoEmptyRooms, RoomOK, RoomFits
  <2>2. MembersAreLive
    BY <1>4 DEF MembersAreLive, RoomOK, RoomFits, Member, Heard
  <2>3. ViewsAgree
    BY <1>2, <1>4 DEF ViewsAgree, RoomOK, RoomFits
  <2>4. \A r \in DOMAIN rooms : /\ Cardinality(rooms[r].viewers) <= MaxViewers
                                /\ IsFiniteSet(rooms[r].viewers)
                                /\ \A v, w \in rooms[r].viewers : peer[v].id = peer[w].id => v = w
    BY <1>4 DEF RoomOK, RoomFits
  <2> QED BY <2>1, <2>2, <2>3, <2>4
<1>5. JoinedIsMember <=>
        \A q \in Sockets : conn[q] = "open" /\ peer[q] # None => InPlace(peer, rooms, q)
  BY DEF JoinedIsMember, InPlace
<1> QED BY <1>1, <1>3, <1>4, <1>5 DEF RoomsInv, RoomsConsistent, ByRoom

LEMMA InvByRoomNext == ByRoom' => RoomsInv'
  BY InvByRoom, PTL

(* A room stays as it should while its members keep their peers, their     *)
(* places and, those that listen, their beliefs.                           *)
LEMMA RoomFrame ==
  ASSUME NEW c, NEW c2, NEW p, NEW p2, NEW t, NEW t2, NEW room \in Room, NEW n,
         RoomOK(c, p, t, room, n),
         \A q \in room.viewers \cup ({room.master} \ {None}) :
            /\ p2[q] = p[q] /\ c2[q] \in {"open", "closing"}
            /\ c2[q] = "open" => c[q] = "open" /\ t2[q] = t[q]
  PROVE  RoomOK(c2, p2, t2, room, n)
<1>1. IdsOf(p2, room.viewers) = IdsOf(p, room.viewers) /\ IdOf(p2, room.master) = IdOf(p, room.master)
  BY DEF IdsOf, IdOf
<1>2. /\ room.master # None => Member(c2, p2, room.master, "master", n)
      /\ \A v \in room.viewers : Member(c2, p2, v, "viewer", n)
  BY DEF RoomOK, RoomFits, Member
<1>3. \A v, w \in room.viewers : p2[v].id = p2[w].id => v = w
  BY DEF RoomOK, RoomFits
<1>4. /\ \A v \in room.viewers : c2[v] = "open" => t2[v].master = IdOf(p2, room.master)
      /\ room.master # None /\ c2[room.master] = "open" =>
            t2[room.master].viewers = IdsOf(p2, room.viewers)
  BY <1>1 DEF RoomOK, RoomFits
<1> QED BY <1>2, <1>3, <1>4 DEF RoomOK, RoomFits

LEMMA Members ==
  ASSUME RoomsInv, NEW n \in DOMAIN rooms
  PROVE  /\ rooms[n] \in Room /\ RoomOK(conn, peer, told, rooms[n], n) /\ n \in RoomNames
         /\ \A v \in rooms[n].viewers :
               /\ v \in Sockets /\ v # None /\ conn[v] \in {"open", "closing"}
               /\ peer[v] \in PeerRecord /\ peer[v].role = "viewer" /\ peer[v].room = n
         /\ rooms[n].master # None =>
               /\ rooms[n].master \in Sockets /\ conn[rooms[n].master] \in {"open", "closing"}
               /\ peer[rooms[n].master] \in PeerRecord
               /\ peer[rooms[n].master].role = "master" /\ peer[rooms[n].master].room = n
<1>1. ByRoom
  BY InvByRoom
<1>2. rooms[n] \in Room /\ RoomOK(conn, peer, told, rooms[n], n) /\ n \in RoomNames
  BY <1>1 DEF ByRoom, Table
<1>3. rooms[n].viewers \subseteq Sockets /\ rooms[n].master \in Sockets \cup {None}
  BY <1>2 DEF Room
<1>4. peer \in [Sockets -> {None} \cup PeerRecord]
  BY <1>1 DEF ByRoom
<1>5. \A v \in rooms[n].viewers :
         /\ v \in Sockets /\ v # None /\ conn[v] \in {"open", "closing"}
         /\ peer[v] \in PeerRecord /\ peer[v].role = "viewer" /\ peer[v].room = n
  BY <1>2, <1>3, <1>4, RoomsAssumption DEF RoomOK, RoomFits, Member
<1>6. rooms[n].master # None =>
               /\ rooms[n].master \in Sockets /\ conn[rooms[n].master] \in {"open", "closing"}
               /\ peer[rooms[n].master] \in PeerRecord
               /\ peer[rooms[n].master].role = "master" /\ peer[rooms[n].master].room = n
  BY <1>2, <1>3, <1>4 DEF RoomOK, RoomFits, Member
<1> QED BY <1>2, <1>5, <1>6

-----------------------------------------------------------------------------
(* After leave: the table without s, consistent in itself.                 *)

Apart(c, r, t, s) ==
    /\ Table(r) /\ t \in Beliefs
    /\ \A n \in DOMAIN r : RoomOK(c, peer, t, r[n], n) /\ s \notin r[n].viewers /\ r[n].master # s
    /\ \A q \in Sockets \ {s} : c[q] = "open" /\ peer[q] # None => InPlace(peer, r, q)

(* The rooms that are left of the change of room n, in which s had a place. *)
LEMMA RoomLeft ==
  ASSUME RoomsInv, NEW s \in Sockets, NEW n \in DOMAIN rooms, NEW room \in Room,
         NEW c \in Conns, \A q \in Sockets : q # s => c[q] = conn[q],
         NEW t \in Beliefs,
         \A q \in Sockets : q \notin rooms[n].viewers \cup {rooms[n].master} => t[q] = told[q],
         peer[s].room = n,
         room.viewers \cup {room.master} \subseteq
            ((rooms[n].viewers \cup {rooms[n].master}) \ {s}) \cup {None},
         (rooms[n].viewers \cup {rooms[n].master}) \ {s, None} \subseteq
            room.viewers \cup {room.master},
         room.master # None => room.master = rooms[n].master,
         room.viewers \subseteq rooms[n].viewers,
         room # EmptyRoom => RoomOK(c, peer, t, room, n),
         NEW r2, r2 = Dropped(Put(rooms, n, room), n)
  PROVE  /\ Apart(c, r2, t, s)
         /\ \A k \in DOMAIN rooms : k # n => k \in DOMAIN r2 /\ r2[k] = rooms[k]
         /\ room # EmptyRoom => n \in DOMAIN r2 /\ r2[n] = room
<1>1. ByRoom
  BY InvByRoom
<1>2. Table(rooms)
  BY <1>1 DEF ByRoom
<1> DEFINE r1 == Put(rooms, n, room)
<1>3. /\ r1[n] = room /\ DOMAIN r1 = DOMAIN rooms /\ r1 \in [DOMAIN rooms -> Room]
      /\ \A k \in DOMAIN rooms : k # n => r1[k] = rooms[k]
      /\ r2 = IF room = EmptyRoom THEN Restrict(r1, DOMAIN rooms \ {n}) ELSE r1
  BY <1>2 DEF Table, Put, Dropped
<1> HIDE DEF r1
<1>4. /\ Table(r2) /\ DOMAIN r2 \subseteq DOMAIN rooms
      /\ \A k \in DOMAIN rooms : k # n => k \in DOMAIN r2 /\ r2[k] = rooms[k]
      /\ room # EmptyRoom <=> n \in DOMAIN r2
      /\ room # EmptyRoom => r2[n] = room
  <2>1. CASE room = EmptyRoom
    <3>1. r2 = [k \in DOMAIN rooms \ {n} |-> r1[k]]
      BY <1>3, <2>1 DEF Restrict
    <3>2. \A k \in DOMAIN rooms : k # n => k \in DOMAIN r2 /\ r2[k] = rooms[k]
      BY <1>3, <3>1
    <3>3. DOMAIN r2 = DOMAIN rooms \ {n}
      BY <3>1
    <3>4. r2 \in [DOMAIN r2 -> Room]
      <4>1. \A k \in DOMAIN r2 : r2[k] \in Room
        <5>1. \A k \in DOMAIN rooms : rooms[k] \in Room
          BY <1>2 DEF Table
        <5> QED BY ONLY <5>1, <3>2, <3>3
      <4>2. r2 = [k \in DOMAIN r2 |-> r2[k]]
        BY <3>1
      <4> QED BY <4>1, <4>2
    <3> QED BY <1>2, <2>1, <3>2, <3>3, <3>4 DEF Table
  <2>2. CASE room # EmptyRoom
    BY <1>2, <1>3, <2>2 DEF Table
  <2> QED BY <2>1, <2>2
<1>5. ASSUME NEW k \in DOMAIN r2
      PROVE  RoomOK(c, peer, t, r2[k], k) /\ s \notin r2[k].viewers /\ r2[k].master # s
  <2>1. CASE k = n
    <3>1. room # EmptyRoom /\ r2[k] = room
      BY <1>4, <1>5, <2>1
    <3>2. s # None
      BY RoomsAssumption
    <3> QED BY <2>1, <3>1, <3>2
  <2>2. CASE k # n
    <3>1. k \in DOMAIN rooms /\ r2[k] = rooms[k]
      BY <1>4, <1>5, <2>2
    <3>2. \A q \in rooms[k].viewers \cup ({rooms[k].master} \ {None}) :
             q \in Sockets /\ peer[q].room = k /\ conn[q] \in {"open", "closing"}
      BY <3>1, Members
    <3>3. \A q \in rooms[k].viewers \cup ({rooms[k].master} \ {None}) :
             q # s /\ q \notin rooms[n].viewers \cup {rooms[n].master}
      <4>1. \A q \in rooms[n].viewers \cup ({rooms[n].master} \ {None}) : peer[q].room = n
        BY Members
      <4>2. \A q \in rooms[k].viewers \cup ({rooms[k].master} \ {None}) : q # None
        BY <3>2, RoomsAssumption
      <4> QED BY <2>2, <3>2, <4>1, <4>2
    <3>4. rooms[k] \in Room /\ RoomOK(conn, peer, told, rooms[k], k)
      BY <3>1, Members
    <3>5. RoomOK(c, peer, t, rooms[k], k)
      BY <3>2, <3>3, <3>4, RoomFrame
    <3>6. s # None
      BY RoomsAssumption
    <3> QED BY <3>1, <3>3, <3>5, <3>6
  <2> QED BY <2>1, <2>2
<1>6. ASSUME NEW q \in Sockets \ {s}, c[q] = "open", peer[q] # None
      PROVE  InPlace(peer, r2, q)
  <2>1. InPlace(peer, rooms, q)
    BY <1>1, <1>6 DEF ByRoom
  <2>2. CASE peer[q].room # n
    BY <1>4, <2>1, <2>2 DEF InPlace
  <2>3. CASE peer[q].room = n
    <3>1. q # None
      BY RoomsAssumption
    <3>2. peer[q].role = "master" => rooms[n].master = q
      BY <2>1, <2>3 DEF InPlace
    <3>3. peer[q].role = "viewer" => q \in rooms[n].viewers
      BY <2>1, <2>3 DEF InPlace
    <3>4. peer[q].role \in {"master", "viewer"}
      BY <1>1, <1>6 DEF ByRoom, PeerRecord
    <3>5. q \in room.viewers \cup {room.master}
      BY <1>6, <3>1, <3>2, <3>3, <3>4
    <3>6. room # EmptyRoom
      BY <3>1, <3>5 DEF EmptyRoom
    <3>7. n \in DOMAIN r2 /\ r2[n] = room
      BY <1>4, <3>6
    <3>8. \A v \in rooms[n].viewers : peer[v].role = "viewer"
      BY Members
    <3>9. rooms[n].master # None => peer[rooms[n].master].role = "master"
      BY Members
    <3>10. peer[q].role = "master" => room.master = q
      BY <3>5, <3>8
    <3>11. peer[q].role = "viewer" => q \in room.viewers
      BY <3>1, <3>5, <3>9
    <3> QED BY <2>3, <3>7, <3>10, <3>11 DEF InPlace
  <2> QED BY <2>2, <2>3
<1> QED BY <1>4, <1>5, <1>6 DEF Apart

(* What the readers hear of it: that their master went, if it was s. *)
LeaveNews(c, r, i, s) ==
    /\ i \in Inboxes
    /\ \A v \in Readers : c[v] # "open" \/ peer[v] = None => i[v] = inbox[v]
    /\ \A v \in Readers, n \in DOMAIN rooms :
          v # s /\ c[v] = "open" /\ v \in rooms[n].viewers =>
             /\ n \in DOMAIN r /\ v \in r[n].viewers
             /\ \/ r[n].master = rooms[n].master /\ i[v] = inbox[v]
                \/ r[n].master = None /\ rooms[n].master # None /\ i[v] = inbox[v] \o <<None>>

LEMMA NotedTyped ==
  ASSUME NEW c, NEW i \in Inboxes, NEW to, NEW m \in Ids \cup {None}
  PROVE  /\ Noted(c, i, to, m) \in Inboxes
         /\ \A v \in Readers : Noted(c, i, to, m)[v] =
               IF v \in to /\ c[v] = "open" THEN i[v] \o <<m>> ELSE i[v]
<1>1. \A v \in Readers : i[v] \o <<m>> \in Seq(Ids \cup {None})
  BY DEF Inboxes
<1> QED BY <1>1 DEF Noted, Posted, Inboxes

LEMMA MasterNewsTyped ==
  ASSUME NEW c, NEW t \in Beliefs, NEW vs \in SUBSET Sockets, NEW m \in Ids \cup {None}
  PROVE  /\ Told(c, t, MasterNews(t, vs, m)) \in Beliefs
         /\ \A q \in Sockets :
               IF q \in vs /\ c[q] = "open"
               THEN /\ Told(c, t, MasterNews(t, vs, m))[q].master = m
                    /\ Told(c, t, MasterNews(t, vs, m))[q].viewers = t[q].viewers
               ELSE Told(c, t, MasterNews(t, vs, m))[q] = t[q]
<1> DEFINE news == MasterNews(t, vs, m)
<1>1. /\ DOMAIN news = vs
      /\ \A q \in vs : /\ news[q] \in [master : Ids \cup {None}, viewers : SUBSET Ids]
                       /\ news[q].master = m /\ news[q].viewers = t[q].viewers
  BY DEF MasterNews, Beliefs
<1> HIDE DEF news
<1>2. \A q \in Sockets : Told(c, t, news)[q] = IF q \in vs /\ c[q] = "open" THEN news[q] ELSE t[q]
  BY <1>1 DEF Told
<1>3. Told(c, t, news) \in Beliefs
  BY <1>1 DEF Told, Beliefs
<1>4. \A q \in Sockets :
         IF q \in vs /\ c[q] = "open"
         THEN Told(c, t, news)[q].master = m /\ Told(c, t, news)[q].viewers = t[q].viewers
         ELSE Told(c, t, news)[q] = t[q]
  BY <1>1, <1>2
<1> QED BY <1>3, <1>4 DEF news

LEMMA ViewerNewsTyped ==
  ASSUME NEW c, NEW t \in Beliefs, NEW m \in Sockets \cup {None},
         NEW went, NEW came \in SUBSET Ids
  PROVE  /\ Told(c, t, ViewerNews(t, m, went, came)) \in Beliefs
         /\ \A q \in Sockets :
               q = m /\ c[q] = "open" =>
                  /\ Told(c, t, ViewerNews(t, m, went, came))[q].viewers =
                        (t[q].viewers \ went) \cup came
                  /\ Told(c, t, ViewerNews(t, m, went, came))[q].master = t[q].master
         /\ \A q \in Sockets :
               q # m \/ c[q] # "open" => Told(c, t, ViewerNews(t, m, went, came))[q] = t[q]
<1> DEFINE news == ViewerNews(t, m, went, came)
<1>1. /\ DOMAIN news = {m} \ {None}
      /\ m # None => /\ news[m] \in [master : Ids \cup {None}, viewers : SUBSET Ids]
                     /\ news[m].viewers = (t[m].viewers \ went) \cup came
                     /\ news[m].master = t[m].master
  BY DEF ViewerNews, Beliefs
<1> HIDE DEF news
<1>2. \A q \in Sockets : Told(c, t, news)[q] = IF q = m /\ c[q] = "open" THEN news[q] ELSE t[q]
  BY <1>1, RoomsAssumption DEF Told
<1>3. Told(c, t, news) \in Beliefs
  BY <1>1 DEF Told, Beliefs
<1>4. \A q \in Sockets :
         /\ q = m /\ c[q] = "open" => /\ Told(c, t, news)[q].viewers = (t[q].viewers \ went) \cup came
                                      /\ Told(c, t, news)[q].master = t[q].master
         /\ q # m \/ c[q] # "open" => Told(c, t, news)[q] = t[q]
  BY <1>1, <1>2, RoomsAssumption
<1> QED BY <1>3, <1>4 DEF news

LEMMA MasterLeft ==
  ASSUME RoomsInv, NEW s \in Sockets, NEW n \in DOMAIN rooms, rooms[n].master = s, peer[s].room = n,
         NEW c \in Conns, \A q \in Sockets : q # s => c[q] = conn[q]
  PROVE  \E r, t, i :
           /\ dropIfEmpty(MasterLeaves(State(c, rooms, told, inbox), s), n) = State(c, r, t, i)
           /\ Apart(c, r, t, s) /\ LeaveNews(c, r, i, s)
<1> DEFINE vs == rooms[n].viewers
           t == Told(c, told, MasterNews(told, vs, None))
           i == Noted(c, inbox, vs, None)
           room == [rooms[n] EXCEPT !.master = None]
           r == Dropped(Put(rooms, n, room), n)
<1>1. dropIfEmpty(MasterLeaves(State(c, rooms, told, inbox), s), n) = State(c, r, t, i)
  <2>1. State(c, rooms, told, inbox).rooms = rooms
    BY DEF State
  <2>2. [State(c, rooms, told, inbox) EXCEPT !.rooms[n].master = None]
          = State(c, Put(rooms, n, room), told, inbox)
    BY DEF State, Put
  <2> HIDE DEF room
  <2>3. MasterLeaves(State(c, rooms, told, inbox), s) = State(c, Put(rooms, n, room), t, i)
    BY <2>1, <2>2, NotifyEffect DEF MasterLeaves
  <2> QED BY <2>3, DropEffect
<1>2. /\ rooms[n] \in Room /\ told \in Beliefs /\ inbox \in Inboxes
      /\ RoomOK(conn, peer, told, rooms[n], n) /\ vs \in SUBSET Sockets
  <2>1. rooms[n] \in Room /\ RoomOK(conn, peer, told, rooms[n], n)
    BY Members
  <2> QED BY <2>1, InvByRoom DEF ByRoom, Room
<1>3. room \in Room /\ room.master = None /\ room.viewers = vs /\ s # None
  BY <1>2, RoomsAssumption DEF Room
<1>4. \A v \in vs : /\ v \in Sockets /\ v # s /\ v # None /\ conn[v] \in {"open", "closing"}
                    /\ peer[v] \in PeerRecord /\ peer[v].role = "viewer" /\ peer[v].room = n
  BY <1>3, Members
<1>5. /\ t \in Beliefs
      /\ \A q \in Sockets : IF q \in vs /\ c[q] = "open" THEN t[q].master = None
                                                         ELSE t[q] = told[q]
  <2>1. None \in Ids \cup {None} /\ told \in Beliefs /\ vs \in SUBSET Sockets
    BY <1>2
  <2> HIDE DEF vs
  <2>2. t \in Beliefs
    BY ONLY <2>1, MasterNewsTyped DEF t
  <2> QED BY ONLY <2>1, <2>2, MasterNewsTyped DEF t
<1>6. /\ i \in Inboxes
      /\ \A v \in Readers : i[v] = IF v \in vs /\ c[v] = "open" THEN inbox[v] \o <<None>> ELSE inbox[v]
  <2>1. None \in Ids \cup {None} /\ inbox \in Inboxes
    BY <1>2
  <2> HIDE DEF vs
  <2> QED BY ONLY <2>1, NotedTyped DEF i
<1> HIDE DEF r, t, room, i
<1>7. room # EmptyRoom => RoomOK(c, peer, t, room, n)
  <2>1. \A v \in vs : Member(c, peer, v, "viewer", n)
    BY <1>4, RoomsAssumption DEF Member, PeerRecord
  <2>2. IsFiniteSet(vs) /\ Cardinality(vs) <= MaxViewers
        /\ \A v, w \in vs : peer[v].id = peer[w].id => v = w
    BY <1>2 DEF RoomOK, RoomFits
  <2>3. \A v \in vs : c[v] = "open" => t[v].master = None
    BY <1>4, <1>5
  <2> HIDE DEF vs
  <2> QED BY <1>3, <2>1, <2>2, <2>3 DEF RoomOK, RoomFits, IdOf
<1>8. /\ Apart(c, r, t, s)
      /\ \A k \in DOMAIN rooms : k # n => k \in DOMAIN r /\ r[k] = rooms[k]
      /\ room # EmptyRoom => n \in DOMAIN r /\ r[n] = room
  <2>1. r = Dropped(Put(rooms, n, room), n)
    BY DEF r
  <2>2. \A q \in Sockets : q \notin rooms[n].viewers \cup {rooms[n].master} => t[q] = told[q]
    BY <1>5
  <2>3. /\ room.viewers \cup {room.master} \subseteq
              ((rooms[n].viewers \cup {rooms[n].master}) \ {s}) \cup {None}
        /\ (rooms[n].viewers \cup {rooms[n].master}) \ {s, None} \subseteq
              room.viewers \cup {room.master}
        /\ room.master # None => room.master = rooms[n].master
        /\ room.viewers \subseteq rooms[n].viewers
    BY <1>3, <1>4
  <2> QED BY <1>3, <1>5, <1>7, <2>1, <2>2, <2>3, RoomLeft
<1>9. LeaveNews(c, r, i, s)
  <2>1. ASSUME NEW v \in Readers, NEW k \in DOMAIN rooms, v # s, c[v] = "open", v \in rooms[k].viewers
        PROVE  /\ k \in DOMAIN r /\ v \in r[k].viewers
               /\ \/ r[k].master = rooms[k].master /\ i[v] = inbox[v]
                  \/ r[k].master = None /\ rooms[k].master # None /\ i[v] = inbox[v] \o <<None>>
    <3>1. peer[v].room = k
      BY <2>1, Members
    <3>2. CASE k # n
      <4>1. v \notin vs
        BY <1>4, <3>1, <3>2
      <4> QED BY <1>6, <1>8, <2>1, <3>2, <4>1
    <3>3. CASE k = n
      <4>1. room # EmptyRoom
        BY <1>3, <2>1, <3>3 DEF EmptyRoom
      <4> QED BY <1>3, <1>6, <1>8, <2>1, <3>3, <4>1
    <3> QED BY <3>2, <3>3
  <2>2. \A v \in Readers : c[v] # "open" \/ peer[v] = None => i[v] = inbox[v]
    BY <1>4, <1>6, RoomsAssumption DEF PeerRecord
  <2> QED BY <1>6, <2>1, <2>2 DEF LeaveNews
<1> QED BY <1>1, <1>8, <1>9

LEMMA ViewerLeft ==
  ASSUME RoomsInv, NEW s \in Sockets, NEW n \in DOMAIN rooms, s \in rooms[n].viewers, peer[s].room = n,
         NEW c \in Conns, \A q \in Sockets : q # s => c[q] = conn[q]
  PROVE  \E r, t, i :
           /\ dropIfEmpty(ViewerLeaves(State(c, rooms, told, inbox), s), n) = State(c, r, t, i)
           /\ Apart(c, r, t, s) /\ LeaveNews(c, r, i, s)
<1> DEFINE m == rooms[n].master
           vs == rooms[n].viewers
           went == {peer[s].id}
           none == {}
           t == Told(c, told, ViewerNews(told, m, went, none))
           room == [rooms[n] EXCEPT !.viewers = @ \ {s}]
           r == Dropped(Put(rooms, n, room), n)
<1>1. dropIfEmpty(ViewerLeaves(State(c, rooms, told, inbox), s), n) = State(c, r, t, inbox)
  <2>1. State(c, rooms, told, inbox).rooms = rooms
    BY DEF State
  <2>2. [State(c, rooms, told, inbox) EXCEPT !.rooms[n].viewers = @ \ {s}]
          = State(c, Put(rooms, n, room), told, inbox)
    BY DEF State, Put
  <2> HIDE DEF room
  <2>3. ViewerLeaves(State(c, rooms, told, inbox), s) = State(c, Put(rooms, n, room), t, inbox)
    BY <2>1, <2>2, TellMasterEffect DEF ViewerLeaves
  <2> QED BY <2>3, DropEffect
<1>2. /\ rooms[n] \in Room /\ told \in Beliefs /\ inbox \in Inboxes
      /\ RoomOK(conn, peer, told, rooms[n], n) /\ vs \in SUBSET Sockets /\ m \in Sockets \cup {None}
  <2>1. rooms[n] \in Room /\ RoomOK(conn, peer, told, rooms[n], n)
    BY Members
  <2> QED BY <2>1, InvByRoom DEF ByRoom, Room
<1>3. room \in Room /\ room.master = m /\ room.viewers = vs \ {s} /\ s # None
  BY <1>2, RoomsAssumption DEF Room
<1>4. \A v \in vs : /\ v \in Sockets /\ v # None /\ conn[v] \in {"open", "closing"}
                    /\ peer[v] \in PeerRecord /\ peer[v].role = "viewer" /\ peer[v].room = n
  BY Members
<1>5. m # None => /\ m \in Sockets /\ conn[m] \in {"open", "closing"}
                  /\ peer[m] \in PeerRecord /\ peer[m].role = "master" /\ peer[m].room = n
  BY Members
<1>6. /\ t \in Beliefs
      /\ \A q \in Sockets : IF q = m /\ c[q] = "open"
                            THEN t[q].viewers = told[q].viewers \ {peer[s].id}
                            ELSE t[q] = told[q]
  <2>1. none \in SUBSET Ids /\ told \in Beliefs /\ m \in Sockets \cup {None}
    BY <1>2
  <2> HIDE DEF m, went, none
  <2>2. t \in Beliefs
    BY ONLY <2>1, ViewerNewsTyped DEF t
  <2>3. \A q \in Sockets : q # m \/ c[q] # "open" => t[q] = told[q]
    BY DEF t, Told, ViewerNews
  <2>4. \A q \in Sockets :
           q = m /\ c[q] = "open" => t[q].viewers = (told[q].viewers \ went) \cup none
    BY ONLY <2>1, ViewerNewsTyped DEF t
  <2> QED BY <2>2, <2>3, <2>4 DEF went, none
<1> HIDE DEF r, t, room
<1>7. room # EmptyRoom => RoomOK(c, peer, t, room, n)
  <2>1. \A v \in vs \ {s} : Member(c, peer, v, "viewer", n)
    BY <1>4, RoomsAssumption DEF Member, PeerRecord
  <2>2. m # None => Member(c, peer, m, "master", n) /\ m # s
    BY <1>4, <1>5, RoomsAssumption DEF Member, PeerRecord
  <2>3. IsFiniteSet(vs) /\ Cardinality(vs) <= MaxViewers
        /\ \A v, w \in vs : peer[v].id = peer[w].id => v = w
    BY <1>2 DEF RoomOK, RoomFits
  <2>4. IsFiniteSet(vs \ {s}) /\ Cardinality(vs \ {s}) <= MaxViewers
    <3>1. vs \ {s} \subseteq vs
      OBVIOUS
    <3>2. /\ IsFiniteSet(vs \ {s}) /\ Cardinality(vs \ {s}) <= Cardinality(vs)
          /\ Cardinality(vs) \in Nat /\ Cardinality(vs \ {s}) \in Nat
      BY <2>3, <3>1, FS_Subset, FS_CardinalityType
    <3> QED BY <2>3, <3>2, RoomsAssumption
  <2>5. \A v \in vs \ {s} : c[v] = "open" => t[v].master = IdOf(peer, m)
    <3>1. \A v \in vs \ {s} : v # m /\ c[v] = conn[v] /\ t[v] = told[v]
      BY <1>4, <1>5, <1>6
    <3> QED BY <1>2, <3>1 DEF RoomOK, RoomFits
  <2>6. m # None /\ c[m] = "open" => t[m].viewers = IdsOf(peer, vs \ {s})
    <3>1. IdsOf(peer, vs) \ {peer[s].id} = IdsOf(peer, vs \ {s})
      BY <2>3 DEF IdsOf
    <3>2. m # None /\ c[m] = "open" => told[m].viewers = IdsOf(peer, vs)
      BY <1>2, <1>5, <2>2 DEF RoomOK, RoomFits
    <3> QED BY <1>5, <1>6, <3>1, <3>2
  <2> HIDE DEF vs, m
  <2> QED BY <1>3, <2>1, <2>2, <2>3, <2>4, <2>5, <2>6 DEF RoomOK, RoomFits
<1>8. /\ Apart(c, r, t, s)
      /\ \A k \in DOMAIN rooms : k # n => k \in DOMAIN r /\ r[k] = rooms[k]
      /\ room # EmptyRoom => n \in DOMAIN r /\ r[n] = room
  <2>1. r = Dropped(Put(rooms, n, room), n)
    BY DEF r
  <2>2. \A q \in Sockets : q \notin rooms[n].viewers \cup {rooms[n].master} => t[q] = told[q]
    BY <1>6
  <2>3. /\ room.viewers \cup {room.master} \subseteq
              ((rooms[n].viewers \cup {rooms[n].master}) \ {s}) \cup {None}
        /\ (rooms[n].viewers \cup {rooms[n].master}) \ {s, None} \subseteq
              room.viewers \cup {room.master}
        /\ room.master # None => room.master = rooms[n].master
        /\ room.viewers \subseteq rooms[n].viewers
    BY <1>3, <1>4, <1>5
  <2> QED BY <1>3, <1>6, <1>7, <2>1, <2>2, <2>3, RoomLeft
<1>9. LeaveNews(c, r, inbox, s)
  <2>1. ASSUME NEW v \in Readers, NEW k \in DOMAIN rooms, v # s, v \in rooms[k].viewers
        PROVE  k \in DOMAIN r /\ v \in r[k].viewers /\ r[k].master = rooms[k].master
    <3>1. CASE k # n
      BY <1>8, <2>1, <3>1
    <3>2. CASE k = n
      <4>1. room # EmptyRoom
        BY <1>3, <2>1, <3>2 DEF EmptyRoom
      <4> QED BY <1>3, <1>8, <2>1, <3>2, <4>1
    <3> QED BY <3>1, <3>2
  <2> QED BY <1>2, <2>1 DEF LeaveNews
<1> QED BY <1>1, <1>8, <1>9

(* leave, whoever s is: a member of its room, somebody whose place was     *)
(* taken, or nobody.                                                       *)
LEMMA LeaveEffect ==
  ASSUME RoomsInv, NEW s \in Sockets, NEW c \in Conns,
         \A q \in Sockets : q # s => c[q] = conn[q]
  PROVE  \E r, t, i :
           /\ leave(State(c, rooms, told, inbox), s) = State(c, r, t, i)
           /\ Apart(c, r, t, s) /\ LeaveNews(c, r, i, s)
<1>1. /\ ByRoom /\ Table(rooms) /\ told \in Beliefs /\ inbox \in Inboxes
      /\ peer \in [Sockets -> {None} \cup PeerRecord]
      /\ State(c, rooms, told, inbox).rooms = rooms /\ s # None
  BY InvByRoom, RoomsAssumption DEF ByRoom, State
<1> DEFINE n == peer[s].room
<1>2. ASSUME \A k \in DOMAIN rooms : s \notin rooms[k].viewers /\ rooms[k].master # s
      PROVE  Apart(c, rooms, told, s) /\ LeaveNews(c, rooms, inbox, s)
  <2>1. ASSUME NEW k \in DOMAIN rooms PROVE RoomOK(c, peer, told, rooms[k], k)
    <3>1. \A q \in rooms[k].viewers \cup ({rooms[k].master} \ {None}) :
             q \in Sockets /\ conn[q] \in {"open", "closing"} /\ q # s
      BY <1>2, Members
    <3>2. rooms[k] \in Room /\ RoomOK(conn, peer, told, rooms[k], k)
      BY Members
    <3> QED BY <3>1, <3>2, RoomFrame
  <2>2. Apart(c, rooms, told, s)
    BY <1>1, <1>2, <2>1 DEF Apart, ByRoom
  <2>3. LeaveNews(c, rooms, inbox, s)
    BY <1>1 DEF LeaveNews
  <2> QED BY <2>2, <2>3
<1>3. CASE peer[s] = None \/ n \notin DOMAIN rooms
  <2>1. leave(State(c, rooms, told, inbox), s) = State(c, rooms, told, inbox)
    BY <1>1, <1>3 DEF leave
  <2>2. \A k \in DOMAIN rooms : s \notin rooms[k].viewers /\ rooms[k].master # s
    BY <1>1, <1>3, Members, RoomsAssumption DEF PeerRecord
  <2> QED BY <1>2, <2>1, <2>2
<1>4. CASE peer[s] # None /\ n \in DOMAIN rooms
  <2>1. peer[s].role \in {"master", "viewer"}
    BY <1>1, <1>4 DEF PeerRecord
  <2>2. CASE peer[s].role = "master" /\ rooms[n].master = s
    <3>1. leave(State(c, rooms, told, inbox), s)
            = dropIfEmpty(MasterLeaves(State(c, rooms, told, inbox), s), n)
      BY <1>1, <1>4, <2>2 DEF leave
    <3> QED BY <1>4, <2>2, <3>1, MasterLeft
  <2>3. CASE peer[s].role = "viewer" /\ s \in rooms[n].viewers
    <3>1. leave(State(c, rooms, told, inbox), s)
            = dropIfEmpty(ViewerLeaves(State(c, rooms, told, inbox), s), n)
      BY <1>1, <1>4, <2>3 DEF leave
    <3> QED BY <1>4, <2>3, <3>1, ViewerLeft
  <2>4. CASE ~(peer[s].role = "master" /\ rooms[n].master = s)
             /\ ~(peer[s].role = "viewer" /\ s \in rooms[n].viewers)
    <3>1. leave(State(c, rooms, told, inbox), s) = dropIfEmpty(State(c, rooms, told, inbox), n)
      BY <1>1, <1>4, <2>4 DEF leave
    <3>2. rooms[n] # EmptyRoom
      BY <1>4, Members DEF RoomOK, RoomFits
    <3>3. leave(State(c, rooms, told, inbox), s) = State(c, rooms, told, inbox)
      <4>1. Dropped(rooms, n) = rooms
        BY <3>2 DEF Dropped
      <4> QED BY <3>1, <4>1, DropEffect
    <3>4. \A k \in DOMAIN rooms : s \notin rooms[k].viewers /\ rooms[k].master # s
      BY <1>1, <2>4, Members
    <3> QED BY <1>2, <3>3, <3>4
  <2> QED BY <2>2, <2>3, <2>4
<1> QED BY <1>3, <1>4

-----------------------------------------------------------------------------
(* Whoever has left, was refused or has just connected has no peer.        *)

LEMMA BecomesNobody ==
  ASSUME RoomsInv, NEW s \in Sockets, NEW c \in Conns, \A q \in Sockets : q # s => c[q] = conn[q],
         NEW r, NEW t, NEW i \in Inboxes, Apart(c, r, t, s), Becomes(State(c, r, t, i), s, None)
  PROVE  RoomsInv' /\ conn' = c /\ rooms' = r /\ inbox' = i /\ peer' = [peer EXCEPT ![s] = None]
<1>1. /\ conn' = c /\ rooms' = r /\ inbox' = i /\ told' = [t EXCEPT ![s] = Unaware]
      /\ peer' = [peer EXCEPT ![s] = None]
  BY DEF Becomes, State
<1>2. /\ peer \in [Sockets -> {None} \cup PeerRecord]
      /\ \A q \in Sockets : conn[q] \in {"new", "closed"} => peer[q] = None
  BY InvByRoom DEF ByRoom
<1>3. /\ Table(r) /\ t \in Beliefs
      /\ \A n \in DOMAIN r : RoomOK(c, peer, t, r[n], n) /\ s \notin r[n].viewers /\ r[n].master # s
      /\ \A q \in Sockets \ {s} : c[q] = "open" /\ peer[q] # None => InPlace(peer, r, q)
  BY DEF Apart
<1>4. /\ peer' \in [Sockets -> {None} \cup PeerRecord] /\ peer'[s] = None
      /\ \A q : q \in Sockets /\ q # s => peer'[q] = peer[q]
  BY <1>1, <1>2
<1>5. told' \in Beliefs /\ \A q : q \in Sockets /\ q # s => told'[q] = t[q]
  BY <1>1, <1>3 DEF Beliefs, Unaware
<1>6. ASSUME NEW n \in DOMAIN rooms' PROVE RoomOK(conn', peer', told', rooms'[n], n)
  <2>1. n \in DOMAIN r /\ rooms'[n] = r[n] /\ r[n] \in Room
    BY <1>1, <1>3 DEF Table
  <2>2. RoomOK(c, peer, t, r[n], n)
    BY <1>3, <2>1
  <2>3. \A q \in r[n].viewers \cup ({r[n].master} \ {None}) : q \in Sockets /\ q # s
    BY <1>3, <2>1 DEF Room
  <2>4. \A q \in r[n].viewers \cup ({r[n].master} \ {None}) : c[q] \in {"open", "closing"}
    BY <2>2 DEF RoomOK, RoomFits, Member
  <2>5. RoomOK(c, peer', told', r[n], n)
    <3>1. \A q \in r[n].viewers \cup ({r[n].master} \ {None}) :
             /\ peer'[q] = peer[q] /\ c[q] \in {"open", "closing"}
             /\ c[q] = "open" => c[q] = "open" /\ told'[q] = t[q]
      BY <1>4, <1>5, <2>3, <2>4
    <3>2. r[n] \in Room
      BY <2>1
    <3> QED BY ONLY <2>2, <3>1, <3>2, RoomFrame
  <2> QED BY <1>1, <2>1, <2>5
<1>7. \A q \in Sockets : conn'[q] = "open" /\ peer'[q] # None => InPlace(peer', rooms', q)
  BY <1>1, <1>3, <1>4 DEF InPlace
<1>8. \A q \in Sockets : conn'[q] \in {"new", "closed"} => peer'[q] = None
  BY <1>1, <1>2, <1>4
<1>9. ByRoom'
  BY <1>1, <1>3, <1>4, <1>5, <1>6, <1>7, <1>8 DEF ByRoom
<1> QED BY <1>1, <1>9, InvByRoomNext

-----------------------------------------------------------------------------
(* joinMaster.                                                             *)

Ensured(r, n) ==
    IF n \in DOMAIN r THEN r ELSE [k \in DOMAIN r \cup {n} |-> IF k = n THEN EmptyRoom ELSE r[k]]

LEMMA EnsureEffect ==
  ASSUME NEW c, NEW r, NEW t, NEW i, NEW n
  PROVE  ensure(State(c, r, t, i), n) = State(c, Ensured(r, n), t, i)
<1>1. State(c, r, t, i).rooms = r
  BY DEF State
<1>2. CASE n \in DOMAIN r
  BY <1>1, <1>2 DEF ensure, Ensured
<1>3. CASE n \notin DOMAIN r
  <2>1. ensure(State(c, r, t, i), n) =
          [State(c, r, t, i) EXCEPT !.rooms = [k \in DOMAIN r \cup {n} |-> IF k = n THEN EmptyRoom ELSE r[k]]]
    BY <1>1, <1>3 DEF ensure
  <2>2. \A x : [State(c, r, t, i) EXCEPT !.rooms = x] = State(c, x, t, i)
    BY DEF State
  <2> QED BY <1>3, <2>1, <2>2 DEF Ensured
<1> QED BY <1>2, <1>3

LEMMA EnsuredTable ==
  ASSUME NEW r, Table(r), NEW n \in RoomNames
  PROVE  /\ Table(Ensured(r, n)) /\ DOMAIN Ensured(r, n) = DOMAIN r \cup {n}
         /\ \A k \in DOMAIN r : Ensured(r, n)[k] = r[k]
         /\ n \notin DOMAIN r => Ensured(r, n)[n] = EmptyRoom
         /\ Ensured(r, n)[n] \in Room
<1>1. EmptyRoom \in Room
  BY DEF EmptyRoom, Room
<1>2. CASE n \in DOMAIN r
  BY <1>2 DEF Ensured, Table
<1>3. CASE n \notin DOMAIN r
  <2>1. Ensured(r, n) = [k \in DOMAIN r \cup {n} |-> IF k = n THEN EmptyRoom ELSE r[k]]
    BY <1>3 DEF Ensured
  <2>2. \A k \in DOMAIN r : r[k] \in Room
    BY DEF Table
  <2>3. \A k \in DOMAIN r \cup {n} : (IF k = n THEN EmptyRoom ELSE r[k]) \in Room
    BY <1>1, <2>2
  <2>4. Ensured(r, n) \in [DOMAIN r \cup {n} -> Room]
    BY <2>1, <2>3
  <2>5. DOMAIN Ensured(r, n) = DOMAIN r \cup {n} /\ DOMAIN r \subseteq RoomNames
    BY <2>1 DEF Table
  <2>6. Table(Ensured(r, n))
    BY <2>4, <2>5 DEF Table
  <2>7. /\ \A k \in DOMAIN r : Ensured(r, n)[k] = r[k]
        /\ Ensured(r, n)[n] = EmptyRoom
    BY <1>3, <2>1
  <2> QED BY <1>1, <2>5, <2>6, <2>7
<1> QED BY <1>2, <1>3

LEMMA PutTable ==
  ASSUME NEW r, Table(r), NEW n \in DOMAIN r, NEW room \in Room
  PROVE  /\ Table(Put(r, n, room)) /\ DOMAIN Put(r, n, room) = DOMAIN r
         /\ Put(r, n, room)[n] = room
         /\ \A k \in DOMAIN r : k # n => Put(r, n, room)[k] = r[k]
  BY DEF Put, Table

(* A room that s is to join, which may be new. *)
LEMMA EnsuredFits ==
  ASSUME NEW s \in Sockets, NEW c, NEW r, NEW t, Apart(c, r, t, s), NEW n \in RoomNames,
         NEW room, room = Ensured(r, n)[n]
  PROVE  /\ room \in Room /\ RoomFits(c, peer, t, room, n)
         /\ s \notin room.viewers /\ room.master # s
         /\ room.viewers \in SUBSET Sockets /\ room.master \in Sockets \cup {None}
         /\ room.master \notin room.viewers
         /\ room.master # None => c[room.master] \in {"open", "closing"}
<1>1. Table(r) /\ \A k \in DOMAIN r : RoomOK(c, peer, t, r[k], k) /\ s \notin r[k].viewers /\ r[k].master # s
  BY DEF Apart
<1>2. /\ \A k \in DOMAIN r : Ensured(r, n)[k] = r[k]
      /\ n \notin DOMAIN r => room = EmptyRoom
      /\ room \in Room
  BY <1>1, EnsuredTable
<1>3. RoomFits(c, peer, t, room, n) /\ s \notin room.viewers /\ room.master # s
  <2>1. CASE n \in DOMAIN r
    BY <1>1, <1>2, <2>1 DEF RoomOK
  <2>2. CASE n \notin DOMAIN r
    <3>1. room.master = None /\ room.viewers = {}
      BY <1>2, <2>2 DEF EmptyRoom
    <3>2. IsFiniteSet({}) /\ Cardinality({}) = 0 /\ 0 <= MaxViewers
      BY FS_EmptySet, RoomsAssumption
    <3> QED BY <3>1, <3>2, RoomsAssumption DEF RoomFits
  <2> QED BY <2>1, <2>2
<1>4. room.viewers \in SUBSET Sockets /\ room.master \in Sockets \cup {None}
  BY <1>2 DEF Room
<1>5. room.master \notin room.viewers
  <2>1. \A v \in room.viewers : v # None /\ peer[v].role = "viewer"
    BY <1>3, <1>4, RoomsAssumption DEF RoomFits, Member
  <2>2. room.master # None => peer[room.master].role = "master"
    BY <1>3 DEF RoomFits, Member
  <2> QED BY <2>1, <2>2
<1>6. room.master # None => c[room.master] \in {"open", "closing"}
  BY <1>3 DEF RoomFits, Member
<1> QED BY <1>2, <1>3, <1>4, <1>5, <1>6

(* The state after ReplaceMaster in room n of e, whose master was m: m's   *)
(* socket is closing and the readers among the viewers vs are told.        *)
MasterReplaced(c, e, t, i, n, m, vs, c2, r2, t2, i2) ==
    /\ c2 \in Conns /\ \A q \in Sockets : c2[q] = IF q = m THEN "closing" ELSE c[q]
    /\ Table(r2) /\ DOMAIN r2 = DOMAIN e /\ r2[n].master = None /\ r2[n].viewers = vs
    /\ \A k \in DOMAIN e : k # n => r2[k] = e[k]
    /\ t2 \in Beliefs /\ \A q \in Sockets : q \notin vs \cup {m} => t2[q] = t[q]
    /\ i2 \in Inboxes
    /\ \A v \in Readers : i2[v] = IF m # None /\ v \in vs /\ c[v] = "open"
                                  THEN i[v] \o <<None>> ELSE i[v]

(* ReplaceMaster: the place is free, its old owner is being closed and the *)
(* viewers know. *)
LEMMA ReplaceEffect ==
  ASSUME NEW c \in Conns, NEW e, Table(e), NEW t \in Beliefs, NEW i \in Inboxes,
         NEW n \in DOMAIN e, NEW m, m = e[n].master, NEW vs, vs = e[n].viewers, m \notin vs
  PROVE  \E c2, r2, t2, i2 :
           /\ ReplaceMaster(State(c, e, t, i), n) = State(c2, r2, t2, i2)
           /\ MasterReplaced(c, e, t, i, n, m, vs, c2, r2, t2, i2)
<1>1. e[n] \in Room /\ vs \in SUBSET Sockets /\ m \in Sockets \cup {None}
  BY DEF Table, Room
<1>2. State(c, e, t, i).rooms = e
  BY DEF State
<1>3. CASE m = None
  <2>1. ReplaceMaster(State(c, e, t, i), n) = State(c, e, t, i)
    BY <1>2, <1>3 DEF ReplaceMaster
  <2>2. \A q \in Sockets : c[q] = IF q = m THEN "closing" ELSE c[q]
    BY <1>3, RoomsAssumption
  <2>3. \A v \in Readers : i[v] = IF m # None /\ v \in vs /\ c[v] = "open" THEN i[v] \o <<None>> ELSE i[v]
    BY <1>3
  <2> WITNESS c, e, t, i
  <2> QED BY <1>3, <2>1, <2>2, <2>3 DEF MasterReplaced
<1>4. CASE m # None
  <2> DEFINE c2 == [c EXCEPT ![m] = "closing"]
             room == [e[n] EXCEPT !.master = None]
             r2 == Put(e, n, room)
             t1 == [t EXCEPT ![m] = Unaware]
             t2 == Told(c2, t1, MasterNews(t1, vs, None))
             i2 == Noted(c2, i, vs, None)
  <2>1. c2 \in Conns /\ \A q \in Sockets : c2[q] = IF q = m THEN "closing" ELSE c[q]
    BY <1>1, <1>4 DEF Conns
  <2>2. room \in Room /\ room.master = None /\ room.viewers = vs
    BY <1>1 DEF Room
  <2>3. t1 \in Beliefs /\ \A q \in Sockets : q # m => t1[q] = t[q]
    BY <1>1, <1>4 DEF Beliefs, Unaware
  <2>4. [State(c, e, t, i) EXCEPT !.conn[m] = "closing", !.rooms[n].master = None,
                                  !.told[m] = Unaware] = State(c2, r2, t1, i)
    <3>1. [State(c, e, t, i) EXCEPT !.conn[m] = "closing"] = State(c2, e, t, i)
      BY DEF State
    <3>2. [State(c2, e, t, i) EXCEPT !.rooms[n].master = None] = State(c2, r2, t, i)
      BY DEF State, Put
    <3>3. [State(c2, r2, t, i) EXCEPT !.told[m] = Unaware] = State(c2, r2, t1, i)
      BY DEF State
    <3> HIDE DEF c2, r2, t1
    <3> QED BY <3>1, <3>2, <3>3
  <2>5. ReplaceMaster(State(c, e, t, i), n)
          = notifyViewers([State(c, e, t, i) EXCEPT !.conn[m] = "closing", !.rooms[n].master = None,
                                                    !.told[m] = Unaware], e[n], None)
    BY <1>2, <1>4 DEF ReplaceMaster
  <2> HIDE DEF c2, room, t1
  <2>6. ReplaceMaster(State(c, e, t, i), n) = State(c2, r2, t2, i2)
    BY <2>4, <2>5, NotifyEffect
  <2>7. /\ Table(r2) /\ DOMAIN r2 = DOMAIN e /\ r2[n] = room
        /\ \A k \in DOMAIN e : k # n => r2[k] = e[k]
    BY <2>2, PutTable
  <2>8. None \in Ids \cup {None}
    OBVIOUS
  <2>9. t2 \in Beliefs
    BY ONLY <1>1, <2>3, <2>8, MasterNewsTyped
  <2>10. \A q \in Sockets : IF q \in vs /\ c2[q] = "open" THEN t2[q].master = None ELSE t2[q] = t1[q]
    BY ONLY <1>1, <2>3, <2>8, MasterNewsTyped
  <2>11. i2 \in Inboxes
    BY ONLY i \in Inboxes, <2>8, NotedTyped
  <2>12. \A v \in Readers : i2[v] = IF v \in vs /\ c2[v] = "open" THEN i[v] \o <<None>> ELSE i[v]
    BY ONLY i \in Inboxes, <2>8, NotedTyped
  <2> HIDE DEF r2, t2, i2
  <2>13. \A q \in Sockets : q \notin vs \cup {m} => t2[q] = t[q]
    BY <2>3, <2>10
  <2>14. \A v \in Readers : v \in vs => c2[v] = c[v]
    BY <1>1, <2>1
  <2>15. \A v \in Readers : i2[v] = IF m # None /\ v \in vs /\ c[v] = "open" THEN i[v] \o <<None>> ELSE i[v]
    BY <1>4, <2>12, <2>14
  <2> WITNESS c2, r2, t2, i2
  <2> QED BY <2>1, <2>2, <2>6, <2>7, <2>9, <2>11, <2>13, <2>15 DEF MasterReplaced
<1> QED BY <1>3, <1>4

(* What joined tells the newcomer itself. *)
SelfNews(s, b) == [v \in {s} |-> b]

LEMMA SelfNewsTyped ==
  ASSUME NEW c, NEW t \in Beliefs, NEW s \in Sockets,
         NEW b \in [master : Ids \cup {None}, viewers : SUBSET Ids]
  PROVE  /\ Told(c, t, SelfNews(s, b)) \in Beliefs
         /\ c[s] = "open" => Told(c, t, SelfNews(s, b))[s] = b
         /\ \A q \in Sockets : q # s => Told(c, t, SelfNews(s, b))[q] = t[q]
  BY DEF Told, SelfNews, Beliefs

(* The state after joinMaster in a room that m and vs were in: m's socket   *)
(* is closing, the viewers know of s, and the readers among them are sent  *)
(* what happened.                                                          *)
MasterJoined(s, st, n, id, m, vs, c2, r2, t2, i2) ==
    /\ c2 \in Conns /\ \A q \in Sockets : c2[q] = IF q = m THEN "closing" ELSE st.conn[q]
    /\ Table(r2) /\ DOMAIN r2 = DOMAIN st.rooms \cup {n} /\ r2[n] = [master |-> s, viewers |-> vs]
    /\ \A k \in DOMAIN st.rooms : k # n => r2[k] = st.rooms[k]
    /\ t2 \in Beliefs /\ \A q \in Sockets : q \notin vs \cup {m, s} => t2[q] = st.told[q]
    /\ \A v \in vs : c2[v] = "open" => t2[v].master = id
    /\ c2[s] = "open" => t2[s].viewers = IdsOf(peer, vs)
    /\ i2 \in Inboxes
    /\ \A v \in Readers :
          i2[v] = IF v \in vs /\ st.conn[v] = "open"
                  THEN (IF m # None THEN st.inbox[v] \o <<None>> ELSE st.inbox[v]) \o <<id>> ELSE st.inbox[v]

LEMMA JoinMasterEffect ==
  ASSUME NEW s \in Sockets, NEW c \in Conns, NEW r, NEW t, NEW i \in Inboxes, Apart(c, r, t, s),
         NEW n \in RoomNames, NEW id \in Ids, peer \in [Sockets -> {None} \cup PeerRecord],
         NEW m, m = Ensured(r, n)[n].master, NEW vs, vs = Ensured(r, n)[n].viewers
  PROVE  \E c2, r2, t2, i2 :
           /\ joinMaster(State(c, r, t, i), s, n, id) = State(c2, r2, t2, i2)
           /\ MasterJoined(s, State(c, r, t, i), n, id, m, vs, c2, r2, t2, i2)
<1> DEFINE e == Ensured(r, n)
<1>1. Table(r) /\ t \in Beliefs
  BY DEF Apart
<1>2. Table(e) /\ DOMAIN e = DOMAIN r \cup {n} /\ \A k \in DOMAIN r : e[k] = r[k]
  BY <1>1, EnsuredTable
<1>3. /\ e[n] \in Room /\ RoomFits(c, peer, t, e[n], n)
      /\ s \notin vs /\ m # s /\ vs \in SUBSET Sockets /\ m \in Sockets \cup {None} /\ m \notin vs
  BY EnsuredFits
<1> HIDE DEF e
<1>0. PICK c2, r1, t1, i1 :
           /\ ReplaceMaster(State(c, e, t, i), n) = State(c2, r1, t1, i1)
           /\ MasterReplaced(c, e, t, i, n, m, vs, c2, r1, t1, i1)
  <2>1. n \in DOMAIN e /\ m = e[n].master /\ vs = e[n].viewers
    BY <1>2 DEF e
  <2>2. c \in Conns /\ Table(e) /\ t \in Beliefs /\ i \in Inboxes /\ m \notin vs
    BY <1>1, <1>2, <1>3
  <2> QED BY ONLY <2>1, <2>2, ReplaceEffect
<1>4. /\ ReplaceMaster(State(c, e, t, i), n) = State(c2, r1, t1, i1)
      /\ c2 \in Conns /\ \A q \in Sockets : c2[q] = IF q = m THEN "closing" ELSE c[q]
      /\ Table(r1) /\ DOMAIN r1 = DOMAIN e /\ r1[n].master = None /\ r1[n].viewers = vs
      /\ \A k \in DOMAIN e : k # n => r1[k] = e[k]
      /\ t1 \in Beliefs /\ \A q \in Sockets : q \notin vs \cup {m} => t1[q] = t[q]
      /\ i1 \in Inboxes
      /\ \A v \in Readers : i1[v] = IF m # None /\ v \in vs /\ c[v] = "open"
                                    THEN i[v] \o <<None>> ELSE i[v]
  BY <1>0 DEF MasterReplaced
<1> DEFINE b == [master |-> None, viewers |-> IdsOf(peer, vs)]
           room == [r1[n] EXCEPT !.master = s]
           r2 == Put(r1, n, room)
           t2 == Told(c2, t1, SelfNews(s, b))
           t3 == Told(c2, t2, MasterNews(t2, vs, id))
           i3 == Noted(c2, i1, vs, id)
<1>5. ReplaceMaster(ensure(State(c, r, t, i), n), n) = State(c2, r1, t1, i1)
  BY <1>4, EnsureEffect DEF e
<1>6. r1[n] \in Room /\ n \in DOMAIN r1
  BY <1>2, <1>4 DEF Table
<1>7. room \in Room /\ room = [master |-> s, viewers |-> vs]
  BY <1>4, <1>6 DEF Room
<1>8. /\ Table(r2) /\ DOMAIN r2 = DOMAIN r1 /\ r2[n] = room
      /\ \A k \in DOMAIN r1 : k # n => r2[k] = r1[k]
  <2> HIDE DEF room
  <2> QED BY <1>4, <1>6, <1>7, PutTable
<1>9. joinMaster(State(c, r, t, i), s, n, id) = State(c2, r2, t3, i3)
  <2>1. State(c2, r1, t1, i1).rooms[n] = r1[n]
    BY DEF State
  <2>2. [State(c2, r1, t1, i1) EXCEPT !.rooms[n].master = s] = State(c2, r2, t1, i1)
    BY DEF State, Put
  <2>3. ViewerIds(r1[n]) = IdsOf(peer, vs)
    BY <1>4 DEF ViewerIds, IdsOf
  <2>4. [v \in {s} |-> [master |-> None, viewers |-> ViewerIds(r1[n])]] = SelfNews(s, b)
    BY <2>3 DEF SelfNews
  <2> HIDE DEF r2, b
  <2>5. joinMaster(State(c, r, t, i), s, n, id)
          = notifyViewers(Tell(State(c2, r2, t1, i1), SelfNews(s, b)), r1[n], id)
    BY <1>5, <2>1, <2>2, <2>4 DEF joinMaster
  <2>6. Tell(State(c2, r2, t1, i1), SelfNews(s, b)) = State(c2, r2, t2, i1)
    BY TellEffect
  <2> HIDE DEF t2
  <2> QED BY <1>4, <2>5, <2>6, NotifyEffect
<1>10. b \in [master : Ids \cup {None}, viewers : SUBSET Ids]
  <2>1. \A v \in vs : v \in Sockets /\ peer[v] # None
    BY <1>3 DEF RoomFits, Member, e
  <2>2. \A v \in vs : peer[v].id \in Ids
    BY <2>1 DEF PeerRecord
  <2> QED BY <2>2 DEF IdsOf
<1>11. b.viewers = IdsOf(peer, vs)
  OBVIOUS
<1> HIDE DEF b, room, r2
<1>12. /\ t2 \in Beliefs
       /\ c2[s] = "open" => t2[s] = b
       /\ \A q \in Sockets : q # s => t2[q] = t1[q]
  BY ONLY <1>4, <1>10, s \in Sockets, SelfNewsTyped
<1> HIDE DEF t2
<1>13. t3 \in Beliefs
  BY ONLY <1>3, <1>12, id \in Ids, MasterNewsTyped
<1>14. \A q \in Sockets : IF q \in vs /\ c2[q] = "open" THEN t3[q].master = id ELSE t3[q] = t2[q]
  BY ONLY <1>3, <1>12, id \in Ids, MasterNewsTyped
<1>15. i3 \in Inboxes
  BY ONLY <1>4, id \in Ids, NotedTyped
<1>16. \A v \in Readers : i3[v] = IF v \in vs /\ c2[v] = "open" THEN i1[v] \o <<id>> ELSE i1[v]
  BY ONLY <1>4, id \in Ids, NotedTyped
<1> HIDE DEF t3, i3
<1>17. \A q \in Sockets : q \notin vs \cup {m, s} => t3[q] = t[q]
  BY <1>4, <1>12, <1>14
<1>18. \A v \in vs : c2[v] = "open" => t3[v].master = id
  BY <1>3, <1>14
<1>19. c2[s] = "open" => t3[s].viewers = IdsOf(peer, vs)
  BY <1>3, <1>11, <1>12, <1>14
<1>20. \A v \in Readers :
          i3[v] = IF v \in vs /\ c[v] = "open"
                  THEN (IF m # None THEN i[v] \o <<None>> ELSE i[v]) \o <<id>> ELSE i[v]
  <2>1. \A v \in Readers : v \in vs => c2[v] = c[v]
    BY <1>3, <1>4
  <2>2. \A v \in Readers : v \in vs /\ c[v] = "open" => i1[v] = IF m # None THEN i[v] \o <<None>> ELSE i[v]
    BY <1>4
  <2>3. \A v \in Readers : ~(v \in vs /\ c[v] = "open") => i1[v] = i[v]
    BY <1>4
  <2> QED BY <1>16, <2>1, <2>2, <2>3
<1>21. /\ DOMAIN r2 = DOMAIN r \cup {n} /\ r2[n] = [master |-> s, viewers |-> vs]
       /\ \A k \in DOMAIN r : k # n => r2[k] = r[k]
  BY <1>2, <1>4, <1>7, <1>8
<1>22. MasterJoined(s, State(c, r, t, i), n, id, m, vs, c2, r2, t3, i3)
  BY <1>4, <1>8, <1>13, <1>15, <1>17, <1>18, <1>19, <1>20, <1>21 DEF MasterJoined, State
<1> QED BY <1>9, <1>22

(* What a step of client s means to a reader of another socket: its room's *)
(* master is the one it was and there is no news, or the news is that the  *)
(* master went, that one came, or both in this order.                      *)
StepNews(s) ==
    /\ \A v \in Readers : v # s /\ (conn[v] # "open" \/ peer[v] = None) => inbox'[v] = inbox[v]
    /\ \A v \in Readers, n \in DOMAIN rooms :
          v # s /\ conn[v] = "open" /\ v \in rooms[n].viewers =>
             /\ conn'[v] = "open" /\ n \in DOMAIN rooms'
             /\ \/ /\ rooms'[n].master = rooms[n].master /\ inbox'[v] = inbox[v]
                   /\ rooms[n].master # None => peer'[rooms[n].master] = peer[rooms[n].master]
                \/ rooms'[n].master = None /\ inbox'[v] = inbox[v] \o <<None>>
                \/ /\ rooms[n].master = None /\ rooms'[n].master # None
                   /\ inbox'[v] = inbox[v] \o <<peer'[rooms'[n].master].id>>
                \/ /\ rooms'[n].master # None
                   /\ inbox'[v] = (inbox[v] \o <<None>>) \o <<peer'[rooms'[n].master].id>>

LEMMA JoinMasterKeeps ==
  ASSUME RoomsInv, NEW s \in Sockets, NEW n \in RoomNames, NEW id \in Ids, JoinMaster(s, n, id)
  PROVE  /\ RoomsInv' /\ StepNews(s)
         /\ \A q \in Sockets : q # s => peer'[q] = peer[q] /\ conn'[q] \in {conn[q], "closing"}
<1> DEFINE newPeer == [id |-> id, role |-> "master", room |-> n]
<1>1. /\ conn \in Conns /\ peer \in [Sockets -> {None} \cup PeerRecord]
      /\ \A q \in Sockets : conn[q] \in {"new", "closed"} => peer[q] = None
  BY InvByRoom DEF ByRoom
<1>2. PICK r, t, i : /\ leave(State(conn, rooms, told, inbox), s) = State(conn, r, t, i)
                     /\ Apart(conn, r, t, s) /\ LeaveNews(conn, r, i, s)
  BY <1>1, LeaveEffect
<1>3. i \in Inboxes /\ Table(r) /\ t \in Beliefs
  BY <1>2 DEF LeaveNews, Apart
<1> DEFINE e == Ensured(r, n)
<1>21. PICK m, vs : m = e[n].master /\ vs = e[n].viewers
  OBVIOUS
<1>22. PICK c2, r2, t2, i2 :
           /\ joinMaster(State(conn, r, t, i), s, n, id) = State(c2, r2, t2, i2)
           /\ MasterJoined(s, State(conn, r, t, i), n, id, m, vs, c2, r2, t2, i2)
  <2>1. conn \in Conns /\ i \in Inboxes /\ Apart(conn, r, t, s) /\ s \in Sockets
        /\ n \in RoomNames /\ id \in Ids /\ peer \in [Sockets -> {None} \cup PeerRecord]
    BY <1>1, <1>2, <1>3
  <2>2. m = Ensured(r, n)[n].master /\ vs = Ensured(r, n)[n].viewers
    BY <1>21
  <2> QED BY ONLY <2>1, <2>2, JoinMasterEffect
<1>4. /\ joinMaster(State(conn, r, t, i), s, n, id) = State(c2, r2, t2, i2)
      /\ c2 \in Conns /\ \A q \in Sockets : c2[q] = IF q = m THEN "closing" ELSE conn[q]
      /\ Table(r2) /\ DOMAIN r2 = DOMAIN r \cup {n} /\ r2[n] = [master |-> s, viewers |-> vs]
      /\ \A k \in DOMAIN r : k # n => r2[k] = r[k]
      /\ t2 \in Beliefs /\ \A q \in Sockets : q \notin vs \cup {m, s} => t2[q] = t[q]
      /\ \A v \in vs : c2[v] = "open" => t2[v].master = id
      /\ c2[s] = "open" => t2[s].viewers = IdsOf(peer, vs)
      /\ i2 \in Inboxes
      /\ \A v \in Readers :
            i2[v] = IF v \in vs /\ conn[v] = "open"
                    THEN (IF m # None THEN i[v] \o <<None>> ELSE i[v]) \o <<id>> ELSE i[v]
  BY <1>22 DEF MasterJoined, State
<1>5. /\ RoomFits(conn, peer, t, e[n], n)
      /\ s \notin vs /\ m # s /\ vs \in SUBSET Sockets /\ m \in Sockets \cup {None} /\ m \notin vs
      /\ m # None => conn[m] \in {"open", "closing"}
  BY <1>2, <1>21, EnsuredFits
<1>6. /\ conn[s] \in {"open", "closing"} /\ conn' = c2 /\ rooms' = r2 /\ inbox' = i2 /\ told' = t2
      /\ peer' = [peer EXCEPT ![s] = newPeer]
  <2>1. Now = State(conn, rooms, told, inbox)
    BY DEF Now, State
  <2>2. Becomes(State(c2, r2, t2, i2), s, newPeer) /\ conn[s] \in {"open", "closing"}
    BY <1>2, <1>4, <2>1 DEF JoinMaster, Heard
  <2>3. newPeer # None
    BY RoomsAssumption DEF PeerRecord
  <2> HIDE DEF newPeer
  <2> QED BY <2>2, <2>3 DEF Becomes, State
<1>7. /\ newPeer \in PeerRecord /\ newPeer # None
      /\ newPeer.id = id /\ newPeer.role = "master" /\ newPeer.room = n
  BY RoomsAssumption DEF PeerRecord
<1>8. /\ peer' \in [Sockets -> {None} \cup PeerRecord] /\ peer'[s] = newPeer
      /\ \A q : q \in Sockets /\ q # s => peer'[q] = peer[q]
  BY <1>1, <1>6, <1>7
<1>9. /\ \A k \in DOMAIN r : r[k] \in Room /\ RoomOK(conn, peer, t, r[k], k)
                             /\ s \notin r[k].viewers /\ r[k].master # s
      /\ \A q \in Sockets \ {s} : conn[q] = "open" /\ peer[q] # None => InPlace(peer, r, q)
  BY <1>2, <1>3 DEF Apart, Table
<1>10. n \in DOMAIN r => e[n] = r[n]
  BY <1>3, EnsuredTable
<1> HIDE DEF e, newPeer
<1>12. c2[s] = conn[s]
  BY <1>4, <1>5
<1>13. ASSUME NEW k \in DOMAIN rooms' PROVE RoomOK(conn', peer', told', rooms'[k], k)
  <2>1. CASE k = n
    <3> DEFINE room == [master |-> s, viewers |-> vs]
    <3>1. rooms'[k] = room /\ room.master = s /\ room.viewers = vs /\ s # None
      BY <1>4, <1>6, <2>1, RoomsAssumption
    <3>2. room # EmptyRoom
      BY <3>1 DEF EmptyRoom
    <3>3. Member(c2, peer', s, "master", n)
      BY <1>6, <1>7, <1>8, <1>12 DEF Member
    <3>4. \A v \in vs : Member(c2, peer', v, "viewer", n) /\ peer'[v] = peer[v]
      <4>1. \A v \in vs : Member(conn, peer, v, "viewer", n)
        BY <1>5, <1>21 DEF RoomFits
      <4>2. \A v \in vs : v \in Sockets /\ v # s /\ v # m
        BY <1>5
      <4> QED BY <1>4, <1>8, <4>1, <4>2 DEF Member
    <3>5. /\ IsFiniteSet(vs) /\ Cardinality(vs) <= MaxViewers
          /\ \A v, w \in vs : peer[v].id = peer[w].id => v = w
      BY <1>5, <1>21 DEF RoomFits
    <3>6. \A v, w \in vs : peer'[v].id = peer'[w].id => v = w
      BY <3>4, <3>5
    <3>7. IdOf(peer', s) = id /\ IdsOf(peer', vs) = IdsOf(peer, vs)
      BY <1>7, <1>8, <3>1, <3>4 DEF IdOf, IdsOf
    <3>8. /\ \A v \in vs : c2[v] = "open" => t2[v].master = id
          /\ c2[s] = "open" => t2[s].viewers = IdsOf(peer, vs)
      BY <1>4
    <3> HIDE DEF room
    <3>9. RoomFits(c2, peer', t2, room, n)
      BY ONLY <3>1, <3>3, <3>4, <3>5, <3>6, <3>7, <3>8 DEF RoomFits
    <3> QED BY <1>6, <2>1, <3>1, <3>2, <3>9 DEF RoomOK
  <2>2. CASE k # n
    <3>1. k \in DOMAIN r /\ rooms'[k] = r[k] /\ r[k] \in Room /\ RoomOK(conn, peer, t, r[k], k)
      BY <1>4, <1>6, <1>9, <1>13, <2>2
    <3>2. \A q \in r[k].viewers \cup ({r[k].master} \ {None}) :
             /\ q \in Sockets /\ q # s /\ peer[q].room = k /\ conn[q] \in {"open", "closing"}
      <4>1. \A q \in r[k].viewers \cup ({r[k].master} \ {None}) : q \in Sockets /\ q # s
        BY <1>9, <3>1 DEF Room
      <4>2. \A q \in r[k].viewers \cup ({r[k].master} \ {None}) :
               peer[q].room = k /\ conn[q] \in {"open", "closing"}
        BY <3>1 DEF RoomOK, RoomFits, Member
      <4> QED BY <4>1, <4>2
    <3>3. /\ \A v \in vs : peer[v].room = n
          /\ m # None => peer[m].room = n
      BY <1>5, <1>21 DEF RoomFits, Member
    <3>4. \A q \in r[k].viewers \cup ({r[k].master} \ {None}) : q \notin vs \cup {m, s}
      <4>1. None \notin r[k].viewers
        BY <3>2, RoomsAssumption
      <4> QED BY <2>2, <3>2, <3>3, <4>1
    <3>5. \A q \in r[k].viewers \cup ({r[k].master} \ {None}) :
             /\ peer'[q] = peer[q] /\ c2[q] \in {"open", "closing"}
             /\ c2[q] = "open" => conn[q] = "open" /\ t2[q] = t[q]
      BY <1>4, <1>8, <3>2, <3>4
    <3>6. RoomOK(c2, peer', t2, r[k], k)
      BY ONLY <3>1, <3>5, RoomFrame
    <3> QED BY <1>6, <3>1, <3>6
  <2> QED BY <2>1, <2>2
<1>14. ASSUME NEW q \in Sockets, conn'[q] = "open", peer'[q] # None
       PROVE  InPlace(peer', rooms', q)
  <2>1. CASE q = s
    BY <1>4, <1>6, <1>7, <1>8, <2>1 DEF InPlace
  <2>2. CASE q # s
    <3>1. q # m /\ conn[q] = "open" /\ peer'[q] = peer[q]
      BY <1>4, <1>6, <1>8, <1>14, <2>2
    <3>2. InPlace(peer, r, q)
      BY <1>9, <1>14, <2>2, <3>1
    <3>3. CASE peer[q].room # n
      <4>1. peer[q].room \in DOMAIN r2 /\ r2[peer[q].room] = r[peer[q].room]
        BY <1>4, <3>2, <3>3 DEF InPlace
      <4> QED BY <1>6, <3>1, <3>2, <4>1 DEF InPlace
    <3>4. CASE peer[q].room = n
      <4>1. n \in DOMAIN r /\ e[n] = r[n]
        BY <1>10, <3>2, <3>4 DEF InPlace
      <4>2. peer[q].role # "master"
        BY <1>21, <3>1, <3>2, <3>4, <4>1 DEF InPlace
      <4>3. peer[q].role = "viewer" => q \in vs
        BY <1>21, <3>2, <3>4, <4>1 DEF InPlace
      <4>4. n \in DOMAIN r2 /\ r2[n].viewers = vs
        BY <1>4
      <4> QED BY <1>6, <3>1, <3>4, <4>2, <4>3, <4>4 DEF InPlace
    <3> QED BY <3>3, <3>4
  <2> QED BY <2>1, <2>2
<1>15. \A q \in Sockets : conn'[q] \in {"new", "closed"} => peer'[q] = None
  <2>1. \A q \in Sockets : c2[q] \in {"new", "closed"} => q # s /\ conn[q] = c2[q]
    BY <1>4, <1>6, <1>12
  <2> QED BY <1>1, <1>6, <1>8, <2>1
<1>16. ByRoom'
  BY <1>4, <1>6, <1>8, <1>13, <1>14, <1>15 DEF ByRoom
<1>17. \A q \in Sockets : q # s => peer'[q] = peer[q] /\ conn'[q] \in {conn[q], "closing"}
  BY <1>4, <1>6, <1>8
<1>18. ASSUME NEW v \in Readers, v # s, conn[v] # "open" \/ peer[v] = None
       PROVE  inbox'[v] = inbox[v]
  <2>1. i[v] = inbox[v]
    BY <1>2, <1>18 DEF LeaveNews
  <2>2. v \in vs => conn[v] # "open"
    <3>1. v \in vs => peer[v] # None
      BY <1>5, <1>21 DEF RoomFits, Member
    <3> QED BY <1>18, <3>1
  <2> QED BY <1>4, <1>6, <2>1, <2>2
<1>19. ASSUME NEW v \in Readers, NEW k \in DOMAIN rooms, v # s, conn[v] = "open", v \in rooms[k].viewers
       PROVE  /\ conn'[v] = "open" /\ k \in DOMAIN rooms'
              /\ \/ /\ rooms'[k].master = rooms[k].master /\ inbox'[v] = inbox[v]
                    /\ rooms[k].master # None => peer'[rooms[k].master] = peer[rooms[k].master]
                 \/ rooms'[k].master = None /\ inbox'[v] = inbox[v] \o <<None>>
                 \/ /\ rooms[k].master = None /\ rooms'[k].master # None
                    /\ inbox'[v] = inbox[v] \o <<peer'[rooms'[k].master].id>>
                 \/ /\ rooms'[k].master # None
                    /\ inbox'[v] = (inbox[v] \o <<None>>) \o <<peer'[rooms'[k].master].id>>
  <2>1. /\ k \in DOMAIN r /\ v \in r[k].viewers
        /\ \/ r[k].master = rooms[k].master /\ i[v] = inbox[v]
           \/ r[k].master = None /\ rooms[k].master # None /\ i[v] = inbox[v] \o <<None>>
    BY <1>2, <1>19 DEF LeaveNews
  <2>2. v \in Sockets /\ peer[v].room = k /\ peer[v].role = "viewer"
    BY <1>19, Members
  <2>3. v # m
    <3>1. m # None => peer[m].role = "master"
      BY <1>5, <1>21 DEF RoomFits, Member
    <3> QED BY <2>2, <3>1, RoomsAssumption
  <2>4. conn'[v] = "open" /\ k \in DOMAIN rooms'
    BY <1>4, <1>6, <1>19, <2>1, <2>2, <2>3
  <2>5. CASE k # n
    <3>1. v \notin vs
      BY <1>5, <1>21, <2>2, <2>5 DEF RoomFits, Member
    <3>2. rooms'[k].master = r[k].master /\ inbox'[v] = i[v]
      BY <1>4, <1>6, <2>1, <2>5, <3>1
    <3>3. r[k].master # None => r[k].master \in Sockets /\ r[k].master # s
      BY <1>9, <2>1 DEF Room
    <3>4. r[k].master # None => peer'[r[k].master] = peer[r[k].master]
      BY <1>8, <3>3
    <3> QED BY <2>1, <2>4, <3>2, <3>4
  <2>6. CASE k = n
    <3>1. v \in vs /\ m = r[k].master
      BY <1>10, <1>21, <2>1, <2>6
    <3>2. rooms'[k].master = s /\ s # None /\ peer'[s].id = id
      BY <1>4, <1>6, <1>7, <1>8, <2>6, RoomsAssumption
    <3>3. inbox'[v] = (IF m # None THEN i[v] \o <<None>> ELSE i[v]) \o <<id>>
      BY <1>4, <1>6, <1>19, <3>1
    <3>4. CASE m # None
      <4>1. inbox'[v] = (inbox[v] \o <<None>>) \o <<id>>
        BY <2>1, <3>1, <3>3, <3>4
      <4> QED BY <2>4, <3>2, <4>1
    <3>5. CASE m = None /\ rooms[k].master = None
      <4>1. inbox'[v] = inbox[v] \o <<id>>
        BY <2>1, <3>1, <3>3, <3>5
      <4> QED BY <2>4, <3>2, <3>5, <4>1
    <3>6. CASE m = None /\ rooms[k].master # None
      <4>1. inbox'[v] = (inbox[v] \o <<None>>) \o <<id>>
        BY <2>1, <3>1, <3>3, <3>6
      <4> QED BY <2>4, <3>2, <4>1
    <3> QED BY <3>4, <3>5, <3>6
  <2> QED BY <2>5, <2>6
<1>20. StepNews(s)
  BY <1>18, <1>19 DEF StepNews
<1> QED BY <1>16, <1>17, <1>20, InvByRoomNext


(* A client that is nobody afterwards: it left, closed, connected or was   *)
(* refused.                                                                *)
LEMMA NobodyKeeps ==
  ASSUME RoomsInv, NEW s \in Sockets, NEW c \in Conns, \A q \in Sockets : q # s => c[q] = conn[q],
         NEW r, NEW t, NEW i, Apart(c, r, t, s), LeaveNews(c, r, i, s),
         Becomes(State(c, r, t, i), s, None)
  PROVE  /\ RoomsInv' /\ StepNews(s)
         /\ conn' = c /\ inbox' = i /\ peer'[s] = None
         /\ \A q \in Sockets : q # s => peer'[q] = peer[q]
<1>1. i \in Inboxes
  BY DEF LeaveNews
<1>2. RoomsInv' /\ conn' = c /\ rooms' = r /\ inbox' = i /\ peer' = [peer EXCEPT ![s] = None]
  BY <1>1, BecomesNobody
<1>3. peer \in [Sockets -> {None} \cup PeerRecord] /\ Readers \subseteq Sockets
  BY InvByRoom, RoomsAssumption DEF ByRoom
<1>4. peer'[s] = None /\ \A q \in Sockets : q # s => peer'[q] = peer[q]
  BY <1>2, <1>3
<1>5. \A v \in Readers : v # s /\ (conn[v] # "open" \/ peer[v] = None) => inbox'[v] = inbox[v]
  BY <1>2, <1>3 DEF LeaveNews
<1>6. ASSUME NEW v \in Readers, NEW n \in DOMAIN rooms, v # s, conn[v] = "open", v \in rooms[n].viewers
      PROVE  /\ conn'[v] = "open" /\ n \in DOMAIN rooms'
             /\ \/ /\ rooms'[n].master = rooms[n].master /\ inbox'[v] = inbox[v]
                   /\ rooms[n].master # None => peer'[rooms[n].master] = peer[rooms[n].master]
                \/ rooms'[n].master = None /\ inbox'[v] = inbox[v] \o <<None>>
  <2>1. c[v] = "open"
    BY <1>3, <1>6
  <2>2. /\ n \in DOMAIN r
        /\ \/ r[n].master = rooms[n].master /\ i[v] = inbox[v]
           \/ r[n].master = None /\ i[v] = inbox[v] \o <<None>>
    BY <1>6, <2>1 DEF LeaveNews
  <2>3. r[n].master # s /\ rooms[n].master \in Sockets \cup {None}
    BY <1>6, <2>2, Members DEF Apart, Room
  <2> QED BY <1>2, <1>4, <2>1, <2>2, <2>3
<1>7. StepNews(s)
  BY <1>5, <1>6 DEF StepNews
<1> QED BY <1>2, <1>4, <1>7

LEMMA LeaveKeeps ==
  ASSUME RoomsInv, NEW s \in Sockets, Leave(s)
  PROVE  /\ RoomsInv' /\ StepNews(s) /\ conn' = conn
         /\ \A q \in Sockets : q # s => peer'[q] = peer[q]
<1>1. conn \in Conns
  BY InvByRoom DEF ByRoom
<1>2. PICK r, t, i : /\ leave(State(conn, rooms, told, inbox), s) = State(conn, r, t, i)
                     /\ Apart(conn, r, t, s) /\ LeaveNews(conn, r, i, s)
  BY <1>1, LeaveEffect
<1>3. Now = State(conn, rooms, told, inbox)
  BY DEF Now, State
<1>4. Becomes(State(conn, r, t, i), s, None)
  BY <1>2, <1>3 DEF Leave
<1> QED BY <1>1, <1>2, <1>4, NobodyKeeps

LEMMA CloseKeeps ==
  ASSUME RoomsInv, NEW s \in Sockets, Close(s)
  PROVE  /\ RoomsInv' /\ StepNews(s) /\ conn'[s] = "closed" /\ peer'[s] = None
         /\ \A q \in Sockets : q # s => peer'[q] = peer[q] /\ conn'[q] = conn[q]
         /\ s \in Readers => inbox'[s] = inbox[s]
<1>1. conn \in Conns
  BY InvByRoom DEF ByRoom
<1>2. PICK c : c = [conn EXCEPT ![s] = "closed"]
  OBVIOUS
<1>3. c \in Conns /\ c[s] = "closed" /\ \A q \in Sockets : q # s => c[q] = conn[q]
  BY <1>1, <1>2 DEF Conns
<1>4. PICK r, t, i : /\ leave(State(c, rooms, told, inbox), s) = State(c, r, t, i)
                     /\ Apart(c, r, t, s) /\ LeaveNews(c, r, i, s)
  BY <1>3, LeaveEffect
<1>5. [Now EXCEPT !.conn[s] = "closed"] = State(c, rooms, told, inbox)
  BY <1>2 DEF Now, State
<1>6. Becomes(State(c, r, t, i), s, None)
  BY <1>4, <1>5 DEF Close
<1>7. /\ RoomsInv' /\ StepNews(s) /\ conn' = c /\ inbox' = i /\ peer'[s] = None
      /\ \A q \in Sockets : q # s => peer'[q] = peer[q]
  BY <1>3, <1>4, <1>6, NobodyKeeps
<1>8. s \in Readers => i[s] = inbox[s]
  BY <1>3, <1>4 DEF LeaveNews
<1> QED BY <1>3, <1>7, <1>8

LEMMA ConnectKeeps ==
  ASSUME RoomsInv, NEW s \in Sockets, Connect(s)
  PROVE  /\ RoomsInv' /\ StepNews(s) /\ conn'[s] = "open" /\ peer'[s] = None /\ inbox' = inbox
         /\ \A q \in Sockets : q # s => peer'[q] = peer[q] /\ conn'[q] = conn[q]
<1>1. conn \in Conns /\ ByRoom /\ conn[s] = "new" /\ peer[s] = None
  BY InvByRoom DEF ByRoom, Connect
<1>2. PICK c : c = [conn EXCEPT ![s] = "open"]
  OBVIOUS
<1>3. c \in Conns /\ c[s] = "open" /\ \A q \in Sockets : q # s => c[q] = conn[q]
  BY <1>1, <1>2 DEF Conns
<1>4. Becomes(State(c, rooms, told, inbox), s, None)
  <2>1. [Now EXCEPT !.conn[s] = "open"] = State(c, rooms, told, inbox)
    BY <1>2 DEF Now, State
  <2> QED BY <2>1 DEF Connect
<1>5. \A n \in DOMAIN rooms : s \notin rooms[n].viewers /\ rooms[n].master # s
  <2>1. s # None
    BY RoomsAssumption
  <2> QED BY <1>1, <2>1, Members
<1>6. ASSUME NEW n \in DOMAIN rooms PROVE RoomOK(c, peer, told, rooms[n], n)
  <2>1. rooms[n] \in Room /\ RoomOK(conn, peer, told, rooms[n], n)
    BY Members
  <2>2. \A q \in rooms[n].viewers \cup ({rooms[n].master} \ {None}) :
           q \in Sockets /\ conn[q] \in {"open", "closing"} /\ q # s
    BY <1>5, Members
  <2> QED BY <1>3, <2>1, <2>2, RoomFrame
<1>7. Apart(c, rooms, told, s)
  <2>1. \A q \in Sockets \ {s} : c[q] = "open" /\ peer[q] # None => InPlace(peer, rooms, q)
    BY <1>1, <1>3 DEF ByRoom
  <2> QED BY <1>1, <1>5, <1>6, <2>1 DEF Apart, ByRoom
<1>8. LeaveNews(c, rooms, inbox, s)
  BY <1>1 DEF LeaveNews, ByRoom
<1> QED BY <1>3, <1>4, <1>7, <1>8, NobodyKeeps


(* The state after joinViewer in a room of m and vs: only s has something  *)
(* new to read.                                                            *)
ViewerJoined(s, st, n, id, m, vs, r2, t2, i2) ==
    /\ Table(r2) /\ DOMAIN r2 = DOMAIN st.rooms \cup {n}
    /\ r2[n] = [master |-> m, viewers |-> vs \cup {s}]
    /\ \A k \in DOMAIN st.rooms : k # n => r2[k] = st.rooms[k]
    /\ t2 \in Beliefs /\ \A q \in Sockets : q \notin {m, s} => t2[q] = st.told[q]
    /\ st.conn[s] = "open" => t2[s].master = IdOf(peer, m)
    /\ m # None /\ st.conn[m] = "open" => t2[m].viewers = st.told[m].viewers \cup {id}
    /\ i2 \in Inboxes /\ \A v \in Readers : v # s => i2[v] = st.inbox[v]
    /\ s \in Readers /\ m = None => i2[s] = st.inbox[s]
    /\ s \in Readers /\ m # None /\ st.conn[s] = "open" =>
          i2[s] = st.inbox[s] \o <<IdOf(peer, m), IdOf(peer, m)>>

LEMMA PostedTyped ==
  ASSUME NEW c, NEW i \in Inboxes, NEW s, NEW m \in Ids \cup {None}
  PROVE  /\ Posted(c, i, {s}, <<m, m>>) \in Inboxes
         /\ \A v \in Readers : v # s => Posted(c, i, {s}, <<m, m>>)[v] = i[v]
         /\ s \in Readers /\ c[s] = "open" => Posted(c, i, {s}, <<m, m>>)[s] = i[s] \o <<m, m>>
<1>1. <<m, m>> \in Seq(Ids \cup {None})
  OBVIOUS
<1>2. \A v \in Readers : i[v] \o <<m, m>> \in Seq(Ids \cup {None})
  BY <1>1 DEF Inboxes
<1> QED BY <1>2 DEF Posted, Inboxes

LEMMA JoinViewerEffect ==
  ASSUME NEW s \in Sockets, NEW c \in Conns, NEW r, NEW t, NEW i \in Inboxes, Apart(c, r, t, s),
         NEW n \in RoomNames, NEW id \in Ids, peer \in [Sockets -> {None} \cup PeerRecord],
         NEW m, m = Ensured(r, n)[n].master, NEW vs, vs = Ensured(r, n)[n].viewers,
         id \notin IdsOf(peer, vs)
  PROVE  \E r2, t2, i2 :
           /\ joinViewer(ensure(State(c, r, t, i), n), s, n, id) = State(c, r2, t2, i2)
           /\ ViewerJoined(s, State(c, r, t, i), n, id, m, vs, r2, t2, i2)
<1>1. PICK e : e = Ensured(r, n)
  OBVIOUS
<1>2. /\ Table(r) /\ Table(e) /\ DOMAIN e = DOMAIN r \cup {n} /\ t \in Beliefs
      /\ \A k \in DOMAIN r : e[k] = r[k]
      /\ e[n] \in Room
  BY <1>1, EnsuredTable DEF Apart
<1>3. /\ RoomFits(c, peer, t, e[n], n)
      /\ s \notin vs /\ m # s /\ vs \in SUBSET Sockets /\ m \in Sockets \cup {None}
  BY <1>1, EnsuredFits
<1>18. PICK mid : mid = IdOf(peer, m)
  OBVIOUS
<1> DEFINE room == [e[n] EXCEPT !.viewers = vs \cup {s}]
           r2 == Put(e, n, room)
           b == [master |-> mid, viewers |-> {}]
           t1 == Told(c, t, SelfNews(s, b))
           t2 == Told(c, t1, ViewerNews(t1, m, {}, {id}))
           i2 == IF m = None THEN i ELSE Posted(c, i, {s}, <<mid, mid>>)
<1>4. ensure(State(c, r, t, i), n) = State(c, e, t, i)
  BY <1>1, EnsureEffect
<1>5. room \in Room /\ room = [master |-> m, viewers |-> vs \cup {s}]
  BY <1>1, <1>2, <1>3 DEF Room
<1>6. mid \in Ids \cup {None} /\ b \in [master : Ids \cup {None}, viewers : SUBSET Ids]
  <2>1. m # None => m \in Sockets /\ peer[m] # None
    BY <1>1, <1>3 DEF RoomFits, Member
  <2>2. m # None => peer[m].id \in Ids
    BY <2>1 DEF PeerRecord
  <2> QED BY <1>18, <2>2 DEF IdOf
<1>7. joinViewer(State(c, e, t, i), s, n, id) = State(c, r2, t2, i2)
  <2> DEFINE rm == State(c, e, t, i).rooms[n]
  <2>1. rm = e[n] /\ rm.master = m /\ rm.viewers = vs
    BY <1>1 DEF State
  <2>2. {v \in rm.viewers : peer[v].id # id} = vs
    BY <2>1 DEF IdsOf
  <2>3. MasterId(rm) = mid
    BY <1>18, <2>1 DEF MasterId, IdOf
  <2>4. [State(c, e, t, i) EXCEPT !.rooms[n].viewers = vs \cup {s}] = State(c, r2, t, i)
    BY DEF State, Put
  <2>5. [v \in {s} |-> [master |-> mid, viewers |-> {}]] = SelfNews(s, b)
    BY DEF SelfNews
  <2> HIDE DEF r2, b, rm
  <2>6. joinViewer(State(c, e, t, i), s, n, id) =
          TellMaster(IF rm.master = None THEN Tell(State(c, r2, t, i), SelfNews(s, b))
                     ELSE Post(Tell(State(c, r2, t, i), SelfNews(s, b)), {s}, <<mid, mid>>),
                     rm, {}, {id})
    BY <2>2, <2>3, <2>4, <2>5 DEF joinViewer, rm
  <2>7. Tell(State(c, r2, t, i), SelfNews(s, b)) = State(c, r2, t1, i)
    BY TellEffect
  <2> HIDE DEF t1
  <2>8. Post(State(c, r2, t1, i), {s}, <<mid, mid>>) =
           State(c, r2, t1, Posted(c, i, {s}, <<mid, mid>>))
    BY PostEffect
  <2>9. joinViewer(State(c, e, t, i), s, n, id) = TellMaster(State(c, r2, t1, i2), rm, {}, {id})
    BY <2>1, <2>6, <2>7, <2>8
  <2> HIDE DEF i2
  <2> QED BY <2>1, <2>9, TellMasterEffect
<1> HIDE DEF room, r2, b
<1>8. /\ Table(r2) /\ DOMAIN r2 = DOMAIN e /\ r2[n] = room
      /\ \A k \in DOMAIN e : k # n => r2[k] = e[k]
  <2>1. Table(e) /\ n \in DOMAIN e /\ room \in Room
    BY <1>2, <1>5
  <2> QED BY ONLY <2>1, PutTable DEF r2
<1>9. /\ t1 \in Beliefs
      /\ c[s] = "open" => t1[s] = b
      /\ \A q \in Sockets : q # s => t1[q] = t[q]
  <2>1. t \in Beliefs /\ s \in Sockets
    BY <1>2
  <2>2. b \in [master : Ids \cup {None}, viewers : SUBSET Ids]
    BY <1>6
  <2>3. Told(c, t, SelfNews(s, b)) \in Beliefs
    BY ONLY <2>1, <2>2, SelfNewsTyped
  <2>4. c[s] = "open" => Told(c, t, SelfNews(s, b))[s] = b
    BY ONLY <2>1, <2>2, SelfNewsTyped
  <2>5. \A q \in Sockets : q # s => Told(c, t, SelfNews(s, b))[q] = t[q]
    BY DEF Told, SelfNews
  <2> QED BY ONLY <2>3, <2>4, <2>5
<1> HIDE DEF t1
<1>10. /\ t2 \in Beliefs
       /\ \A q \in Sockets : q = m /\ c[q] = "open" => t2[q].viewers = (t1[q].viewers \ {}) \cup {id}
       /\ \A q \in Sockets : q # m \/ c[q] # "open" => t2[q] = t1[q]
  <2>1. {id} \in SUBSET Ids
    OBVIOUS
  <2> QED BY ONLY <1>3, <1>9, <2>1, ViewerNewsTyped
<1>11. /\ i2 \in Inboxes /\ \A v \in Readers : v # s => i2[v] = i[v]
       /\ s \in Readers /\ m = None => i2[s] = i[s]
       /\ s \in Readers /\ m # None /\ c[s] = "open" => i2[s] = i[s] \o <<mid, mid>>
  <2> DEFINE x == Posted(c, i, {s}, <<mid, mid>>)
  <2>1. mid \in Ids \cup {None}
    BY <1>6
  <2>2. /\ x \in Inboxes /\ \A v \in Readers : v # s => x[v] = i[v]
        /\ s \in Readers /\ c[s] = "open" => x[s] = i[s] \o <<mid, mid>>
    <3>1. x \in Inboxes
      BY ONLY <2>1, i \in Inboxes, PostedTyped
    <3>2. s \in Readers /\ c[s] = "open" => x[s] = i[s] \o <<mid, mid>>
      BY DEF Posted
    <3>3. \A v \in Readers : v # s => x[v] = i[v]
      BY DEF Posted
    <3> QED BY <3>1, <3>2, <3>3
  <2>3. i2 = IF m = None THEN i ELSE x
    OBVIOUS
  <2> HIDE DEF x, i2
  <2> QED BY <2>2, <2>3
<1> HIDE DEF t2, i2
<1>12. b.master = mid
  BY DEF b
<1>13. c[s] = "open" => t2[s].master = mid
  BY <1>3, <1>9, <1>10, <1>12
<1>14. m # None /\ c[m] = "open" => t2[m].viewers = t[m].viewers \cup {id}
  BY <1>3, <1>9, <1>10
<1>15. \A q \in Sockets : q \notin {m, s} => t2[q] = t[q]
  BY <1>9, <1>10
<1>16. \A k \in DOMAIN r : k # n => r2[k] = r[k]
  BY <1>2, <1>8
<1>17. ViewerJoined(s, State(c, r, t, i), n, id, m, vs, r2, t2, i2)
  BY <1>2, <1>5, <1>8, <1>10, <1>11, <1>13, <1>14, <1>15, <1>16, <1>18 DEF ViewerJoined, State
<1> QED BY <1>4, <1>7, <1>17


(* What joinViewer brings the newcomer: a peer and, twice, the master. *)
Newcomer(s, n, id) ==
    \/ peer'[s] = None /\ (s \in Readers /\ peer[s] = None => inbox'[s] = inbox[s])
    \/ /\ peer'[s] = [id |-> id, role |-> "viewer", room |-> n]
       /\ n \in DOMAIN rooms' /\ s \in rooms'[n].viewers
       /\ s \in Readers /\ peer[s] = None /\ conn[s] = "open" =>
             inbox'[s] = IF rooms'[n].master = None THEN inbox[s]
                         ELSE inbox[s] \o <<peer'[rooms'[n].master].id, peer'[rooms'[n].master].id>>

LEMMA JoinViewerKeeps ==
  ASSUME RoomsInv, NEW s \in Sockets, NEW n \in RoomNames, NEW id \in Ids, JoinViewer(s, n, id)
  PROVE  /\ RoomsInv' /\ StepNews(s) /\ conn' = conn /\ Newcomer(s, n, id)
         /\ \A q \in Sockets : q # s => peer'[q] = peer[q]
<1> DEFINE newPeer == [id |-> id, role |-> "viewer", room |-> n]
<1>1. /\ conn \in Conns /\ peer \in [Sockets -> {None} \cup PeerRecord]
      /\ \A q \in Sockets : conn[q] \in {"new", "closed"} => peer[q] = None
  BY InvByRoom DEF ByRoom
<1>2. PICK r, t, i : /\ leave(State(conn, rooms, told, inbox), s) = State(conn, r, t, i)
                     /\ Apart(conn, r, t, s) /\ LeaveNews(conn, r, i, s)
  BY <1>1, LeaveEffect
<1>3. i \in Inboxes /\ Table(r) /\ t \in Beliefs
  BY <1>2 DEF LeaveNews, Apart
<1>4. PICK e, m, vs : e = Ensured(r, n) /\ m = e[n].master /\ vs = e[n].viewers
  OBVIOUS
<1>5. ensure(leave(Now, s), n) = State(conn, e, t, i) /\ State(conn, e, t, i).rooms[n] = e[n]
  <2>1. Now = State(conn, rooms, told, inbox)
    BY DEF Now, State
  <2>2. ensure(leave(Now, s), n) = State(conn, e, t, i)
    BY <1>2, <1>4, <2>1, EnsureEffect
  <2> QED BY <2>2 DEF State
<1>6. /\ RoomFits(conn, peer, t, e[n], n) /\ e[n] \in Room
      /\ s \notin vs /\ m # s /\ vs \in SUBSET Sockets /\ m \in Sockets \cup {None} /\ m \notin vs
      /\ m # None => conn[m] \in {"open", "closing"}
  BY <1>2, <1>4, EnsuredFits
<1>7. /\ n \in DOMAIN r => e[n] = r[n]
      /\ n \notin DOMAIN r => e[n] = EmptyRoom
  BY <1>3, <1>4, EnsuredTable
<1>8. CASE Refused(e[n], id)
  <2>1. n \in DOMAIN r
    <3>1. ASSUME e[n] = EmptyRoom PROVE FALSE
      <4>1. e[n].master = None /\ e[n].viewers = {}
        BY <3>1 DEF EmptyRoom
      <4>2. ~roomHasId(e[n], id)
        BY <4>1, RoomsAssumption DEF roomHasId, MasterId, ViewerIds
      <4>3. Cardinality(e[n].viewers) = 0
        BY <4>1, FS_EmptySet
      <4> QED BY <1>8, <4>2, <4>3, RoomsAssumption DEF Refused
    <3> QED BY <1>7, <3>1
  <2>2. e = r
    BY <1>4, <2>1 DEF Ensured
  <2>3. Becomes(State(conn, r, t, i), s, None)
    BY <1>5, <1>8, <2>2 DEF JoinViewer
  <2>4. /\ RoomsInv' /\ StepNews(s) /\ conn' = conn /\ inbox' = i /\ peer'[s] = None
        /\ \A q \in Sockets : q # s => peer'[q] = peer[q]
    BY <1>1, <1>2, <2>3, NobodyKeeps
  <2>5. s \in Readers /\ peer[s] = None => inbox'[s] = inbox[s]
    BY <1>2, <2>4 DEF LeaveNews
  <2> QED BY <2>4, <2>5 DEF Newcomer
<1>9. CASE ~Refused(e[n], id)
  <2>1. id \notin IdsOf(peer, vs) /\ ~(Cardinality(vs) >= MaxViewers)
    BY <1>4, <1>9 DEF Refused, roomHasId, ViewerIds, IdsOf
  <2>2. PICK r2, t2, i2 :
           /\ joinViewer(ensure(State(conn, r, t, i), n), s, n, id) = State(conn, r2, t2, i2)
           /\ ViewerJoined(s, State(conn, r, t, i), n, id, m, vs, r2, t2, i2)
    <3>1. conn \in Conns /\ i \in Inboxes /\ Apart(conn, r, t, s) /\ s \in Sockets
          /\ n \in RoomNames /\ id \in Ids /\ peer \in [Sockets -> {None} \cup PeerRecord]
      BY <1>1, <1>2, <1>3
    <3>2. m = Ensured(r, n)[n].master /\ vs = Ensured(r, n)[n].viewers
      BY <1>4
    <3> QED BY ONLY <2>1, <3>1, <3>2, JoinViewerEffect
  <2>3. /\ Table(r2) /\ DOMAIN r2 = DOMAIN r \cup {n}
        /\ r2[n] = [master |-> m, viewers |-> vs \cup {s}]
        /\ \A k \in DOMAIN r : k # n => r2[k] = r[k]
        /\ t2 \in Beliefs /\ \A q \in Sockets : q \notin {m, s} => t2[q] = t[q]
        /\ conn[s] = "open" => t2[s].master = IdOf(peer, m)
        /\ m # None /\ conn[m] = "open" => t2[m].viewers = t[m].viewers \cup {id}
        /\ i2 \in Inboxes /\ \A v \in Readers : v # s => i2[v] = i[v]
        /\ s \in Readers /\ m = None => i2[s] = i[s]
        /\ s \in Readers /\ m # None /\ conn[s] = "open" =>
              i2[s] = i[s] \o <<IdOf(peer, m), IdOf(peer, m)>>
    BY <2>2 DEF ViewerJoined, State
  <2>4. /\ conn[s] \in {"open", "closing"} /\ conn' = conn /\ rooms' = r2 /\ inbox' = i2 /\ told' = t2
        /\ peer' = [peer EXCEPT ![s] = newPeer]
    <3>1. State(conn, e, t, i) = ensure(State(conn, r, t, i), n)
      BY <1>4, EnsureEffect
    <3>2. Becomes(State(conn, r2, t2, i2), s, newPeer) /\ conn[s] \in {"open", "closing"}
      BY <1>5, <1>9, <2>2, <3>1 DEF JoinViewer, Heard
    <3>3. newPeer # None
      BY RoomsAssumption DEF PeerRecord
    <3> HIDE DEF newPeer
    <3> QED BY <3>2, <3>3 DEF Becomes, State
  <2>5. /\ newPeer \in PeerRecord /\ newPeer # None
        /\ newPeer.id = id /\ newPeer.role = "viewer" /\ newPeer.room = n
    BY RoomsAssumption DEF PeerRecord
  <2>6. /\ peer' \in [Sockets -> {None} \cup PeerRecord] /\ peer'[s] = newPeer
        /\ \A q : q \in Sockets /\ q # s => peer'[q] = peer[q]
    BY <1>1, <2>4, <2>5
  <2>7. /\ \A k \in DOMAIN r : r[k] \in Room /\ RoomOK(conn, peer, t, r[k], k)
                               /\ s \notin r[k].viewers /\ r[k].master # s
        /\ \A q \in Sockets \ {s} : conn[q] = "open" /\ peer[q] # None => InPlace(peer, r, q)
    BY <1>2, <1>3 DEF Apart, Table
  <2>8. s # None
    BY RoomsAssumption
  <2> HIDE DEF newPeer
  <2>9. IdOf(peer', m) = IdOf(peer, m)
    BY <1>6, <2>6 DEF IdOf
  <2>10. ASSUME NEW k \in DOMAIN rooms' PROVE RoomOK(conn', peer', told', rooms'[k], k)
    <3>1. CASE k = n
      <4> DEFINE room == [master |-> m, viewers |-> vs \cup {s}]
      <4>1. rooms'[k] = room /\ room.master = m /\ room.viewers = vs \cup {s}
        BY <2>3, <2>4, <3>1
      <4>2. room # EmptyRoom
        BY <4>1 DEF EmptyRoom
      <4>3. m # None => Member(conn, peer', m, "master", n)
        <5>1. m # None => Member(conn, peer, m, "master", n)
          BY <1>4, <1>6 DEF RoomFits
        <5> QED BY <1>6, <2>6, <5>1 DEF Member
      <4>4. \A v \in vs : v \in Sockets /\ v # s /\ peer'[v] = peer[v]
        BY <1>6, <2>6
      <4>5. \A v \in vs \cup {s} : Member(conn, peer', v, "viewer", n)
        <5>1. \A v \in vs : Member(conn, peer, v, "viewer", n)
          BY <1>4, <1>6 DEF RoomFits
        <5> QED BY <2>4, <2>5, <2>6, <4>4, <5>1 DEF Member
      <4>6. IsFiniteSet(vs) /\ Cardinality(vs) \in Nat /\ Cardinality(vs) <= MaxViewers
        BY <1>4, <1>6, FS_CardinalityType DEF RoomFits
      <4>7. IsFiniteSet(vs \cup {s}) /\ Cardinality(vs \cup {s}) = Cardinality(vs) + 1
        BY <1>6, <4>6, FS_AddElement
      <4>8. Cardinality(vs \cup {s}) <= MaxViewers
        BY <2>1, <4>6, <4>7, RoomsAssumption
      <4>9. \A v, w \in vs \cup {s} : peer'[v].id = peer'[w].id => v = w
        <5>1. \A v, w \in vs : peer'[v].id = peer'[w].id => v = w
          BY <1>4, <1>6, <4>4 DEF RoomFits
        <5>2. \A v \in vs : peer'[v].id # id
          BY <2>1, <4>4 DEF IdsOf
        <5> QED BY <2>5, <2>6, <5>1, <5>2
      <4>10. \A v \in vs \cup {s} : conn[v] = "open" => t2[v].master = IdOf(peer', m)
        <5>1. \A v \in vs : conn[v] = "open" => t[v].master = IdOf(peer, m)
          BY <1>4, <1>6 DEF RoomFits
        <5>2. \A v \in vs : t2[v] = t[v]
          BY <1>6, <2>3, <4>4
        <5> QED BY <2>3, <2>9, <5>1, <5>2
      <4>11. m # None /\ conn[m] = "open" => t2[m].viewers = IdsOf(peer', vs \cup {s})
        <5>1. m # None /\ conn[m] = "open" => t[m].viewers = IdsOf(peer, vs)
          BY <1>4, <1>6 DEF RoomFits
        <5>2. IdsOf(peer', vs \cup {s}) = IdsOf(peer, vs) \cup {id}
          BY <2>5, <2>6, <4>4 DEF IdsOf
        <5> QED BY <2>3, <5>1, <5>2
      <4> HIDE DEF room
      <4>12. RoomFits(conn, peer', t2, room, n)
        BY ONLY <4>1, <4>3, <4>5, <4>7, <4>8, <4>9, <4>10, <4>11 DEF RoomFits
      <4> QED BY <2>4, <3>1, <4>1, <4>2, <4>12 DEF RoomOK
    <3>2. CASE k # n
      <4>1. k \in DOMAIN r /\ rooms'[k] = r[k] /\ r[k] \in Room /\ RoomOK(conn, peer, t, r[k], k)
        BY <2>3, <2>4, <2>7, <2>10, <3>2
      <4>2. \A q \in r[k].viewers \cup ({r[k].master} \ {None}) : q \in Sockets /\ q # s
        BY <2>7, <4>1 DEF Room
      <4>3. \A q \in r[k].viewers \cup ({r[k].master} \ {None}) :
               peer[q].room = k /\ conn[q] \in {"open", "closing"}
        BY <4>1 DEF RoomOK, RoomFits, Member
      <4>4. m # None => peer[m].room = n
        BY <1>4, <1>6 DEF RoomFits, Member
      <4>5. \A q \in r[k].viewers \cup ({r[k].master} \ {None}) : q \notin {m, s}
        BY <3>2, <4>2, <4>3, <4>4, RoomsAssumption
      <4>6. \A q \in r[k].viewers \cup ({r[k].master} \ {None}) :
               /\ peer'[q] = peer[q] /\ conn[q] \in {"open", "closing"}
               /\ conn[q] = "open" => conn[q] = "open" /\ t2[q] = t[q]
        BY <2>3, <2>6, <4>2, <4>3, <4>5
      <4>7. RoomOK(conn, peer', t2, r[k], k)
        BY ONLY <4>1, <4>6, RoomFrame
      <4> QED BY <2>4, <4>1, <4>7
    <3> QED BY <3>1, <3>2
  <2>11. ASSUME NEW q \in Sockets, conn[q] = "open", peer'[q] # None
         PROVE  InPlace(peer', r2, q)
    <3>1. CASE q = s
      <4>1. n \in DOMAIN r2 /\ s \in r2[n].viewers
        BY <2>3
      <4> QED BY <2>5, <2>6, <3>1, <4>1 DEF InPlace
    <3>2. CASE q # s
      <4>1. peer'[q] = peer[q] /\ InPlace(peer, r, q)
        BY <2>6, <2>7, <2>11, <3>2
      <4>2. CASE peer[q].room # n
        <5>1. peer[q].room \in DOMAIN r2 /\ r2[peer[q].room] = r[peer[q].room]
          BY <2>3, <4>1, <4>2 DEF InPlace
        <5> QED BY <4>1, <5>1 DEF InPlace
      <4>3. CASE peer[q].room = n
        <5>1. n \in DOMAIN r /\ r[n].master = m /\ r[n].viewers = vs
          BY <1>4, <1>7, <4>1, <4>3 DEF InPlace
        <5>2. n \in DOMAIN r2 /\ r2[n].master = m /\ vs \subseteq r2[n].viewers
          BY <2>3
        <5> QED BY <4>1, <4>3, <5>1, <5>2 DEF InPlace
      <4> QED BY <4>2, <4>3
    <3> QED BY <3>1, <3>2
  <2>12. \A q \in Sockets : conn[q] \in {"new", "closed"} => peer'[q] = None
    BY <1>1, <2>4, <2>6
  <2>13. ByRoom'
    BY <1>1, <2>3, <2>4, <2>6, <2>10, <2>11, <2>12 DEF ByRoom
  <2>14. ASSUME NEW v \in Readers, v # s, conn[v] # "open" \/ peer[v] = None
         PROVE  inbox'[v] = inbox[v]
    BY <1>2, <2>3, <2>4, <2>14 DEF LeaveNews
  <2>15. ASSUME NEW v \in Readers, NEW k \in DOMAIN rooms, v # s, conn[v] = "open", v \in rooms[k].viewers
         PROVE  /\ conn'[v] = "open" /\ k \in DOMAIN rooms'
                /\ \/ /\ rooms'[k].master = rooms[k].master /\ inbox'[v] = inbox[v]
                      /\ rooms[k].master # None => peer'[rooms[k].master] = peer[rooms[k].master]
                   \/ rooms'[k].master = None /\ inbox'[v] = inbox[v] \o <<None>>
    <3>1. /\ k \in DOMAIN r
          /\ \/ r[k].master = rooms[k].master /\ i[v] = inbox[v]
             \/ r[k].master = None /\ i[v] = inbox[v] \o <<None>>
      BY <1>2, <2>15 DEF LeaveNews
    <3>2. k \in DOMAIN r2 /\ r2[k].master = r[k].master /\ inbox'[v] = i[v]
      BY <1>4, <1>7, <2>3, <2>4, <2>15, <3>1
    <3>3. r[k].master # None => r[k].master \in Sockets /\ r[k].master # s
      BY <2>7, <3>1 DEF Room
    <3>4. r[k].master # None => peer'[r[k].master] = peer[r[k].master]
      BY <2>6, <3>3
    <3> QED BY <2>4, <2>15, <3>1, <3>2, <3>4
  <2>16. StepNews(s)
    BY <2>14, <2>15 DEF StepNews
  <2>17. Newcomer(s, n, id)
    <3>1. n \in DOMAIN r2 /\ s \in r2[n].viewers /\ r2[n].master = m
      BY <2>3
    <3>2. m # None => peer'[m].id = IdOf(peer, m)
      BY <2>9 DEF IdOf
    <3>3. s \in Readers /\ peer[s] = None => i[s] = inbox[s]
      BY <1>2 DEF LeaveNews
    <3>4. s \in Readers /\ peer[s] = None /\ conn[s] = "open" =>
             inbox'[s] = IF rooms'[n].master = None THEN inbox[s]
                         ELSE inbox[s] \o <<peer'[rooms'[n].master].id, peer'[rooms'[n].master].id>>
      BY <2>3, <2>4, <3>1, <3>2, <3>3
    <3> QED BY <2>4, <2>6, <3>1, <3>4 DEF Newcomer, newPeer
  <2> QED BY <2>4, <2>6, <2>13, <2>16, <2>17, InvByRoomNext
<1> QED BY <1>8, <1>9


(* Any step of client s, and what it leaves the others. *)
LEMMA ClientKeeps ==
  ASSUME RoomsInv, NEW s \in Sockets, NEW ids \in SUBSET Ids, ClientStep(s, ids)
  PROVE  /\ RoomsInv' /\ StepNews(s)
         /\ \A q \in Sockets : q # s => peer'[q] = peer[q] /\ conn'[q] \in {conn[q], "closing"}
<1>1. CASE Connect(s)
  BY <1>1, ConnectKeeps
<1>2. ASSUME NEW n \in RoomNames, NEW id \in ids, JoinMaster(s, n, id) \/ JoinViewer(s, n, id)
      PROVE  /\ RoomsInv' /\ StepNews(s)
             /\ \A q \in Sockets : q # s => peer'[q] = peer[q] /\ conn'[q] \in {conn[q], "closing"}
  <2>1. id \in Ids
    OBVIOUS
  <2>2. CASE JoinMaster(s, n, id)
    BY <2>1, <2>2, JoinMasterKeeps
  <2>3. CASE JoinViewer(s, n, id)
    BY <2>1, <2>3, JoinViewerKeeps
  <2> QED BY <1>2, <2>2, <2>3
<1>3. CASE Leave(s)
  BY <1>3, LeaveKeeps
<1>4. CASE Close(s)
  BY <1>4, CloseKeeps
<1> QED BY <1>1, <1>2, <1>3, <1>4 DEF ClientStep

(* What the page does to its sockets by itself leaves the table alone. *)
LEMMA SocketsChange ==
  ASSUME RoomsInv, UNCHANGED <<peer, rooms, told>>, conn' \in Conns, inbox' \in Inboxes,
         \A q \in Sockets :
            \/ conn'[q] = conn[q]
            \/ conn[q] \in {"new", "closed"} /\ conn'[q] \in {"new", "closed"}
            \/ conn[q] = "open" /\ conn'[q] = "closing"
  PROVE  RoomsInv'
<1>1. ByRoom /\ peer' = peer /\ rooms' = rooms /\ told' = told
  BY InvByRoom
<1>2. ASSUME NEW n \in DOMAIN rooms PROVE RoomOK(conn', peer, told, rooms[n], n)
  <2>1. rooms[n] \in Room /\ RoomOK(conn, peer, told, rooms[n], n)
    BY Members
  <2>2. \A q \in rooms[n].viewers \cup ({rooms[n].master} \ {None}) :
           q \in Sockets /\ conn[q] \in {"open", "closing"}
    BY Members
  <2>3. PICK c : c = conn'
    OBVIOUS
  <2>4. \A q \in rooms[n].viewers \cup ({rooms[n].master} \ {None}) :
           /\ peer[q] = peer[q] /\ c[q] \in {"open", "closing"}
           /\ c[q] = "open" => conn[q] = "open" /\ told[q] = told[q]
    BY <2>2, <2>3
  <2>5. RoomOK(c, peer, told, rooms[n], n)
    BY ONLY <2>1, <2>4, RoomFrame
  <2> QED BY <2>3, <2>5
<1>3. \A q \in Sockets : conn'[q] = "open" /\ peer[q] # None => InPlace(peer, rooms, q)
  BY <1>1 DEF ByRoom
<1>4. \A q \in Sockets : conn'[q] \in {"new", "closed"} => peer[q] = None
  BY <1>1 DEF ByRoom
<1>5. ByRoom'
  BY <1>1, <1>2, <1>3, <1>4 DEF ByRoom
<1> QED BY <1>5, InvByRoomNext

LEMMA InitRooms == Init => RoomsInv
<1> SUFFICES ASSUME Init PROVE ByRoom
  BY InvByRoom
<1>1. DOMAIN rooms = {} /\ Table(rooms)
  BY DEF Init, Table
<1>2. conn \in Conns /\ peer \in [Sockets -> {None} \cup PeerRecord] /\ \A q \in Sockets : peer[q] = None
  BY DEF Init, Conns
<1>3. told \in Beliefs
  BY DEF Init, Beliefs, Unaware
<1>4. inbox \in Inboxes
  BY DEF Init, Inboxes
<1> QED BY <1>1, <1>2, <1>3, <1>4 DEF ByRoom


-----------------------------------------------------------------------------
(* The page. *)

LEMMA PageIsTyped == PageInv => PageTypeOK
  BY DEF PageInv, RoomsInv, RestOK, GlobalsInv, PageTypeOK, Tasks, Globals

(* closePeer leaves the page without a peer, and closes what it has. *)
LEMMA PeerClosesEffect ==
  ASSUME RestOK, GlobalsInv, PeerCloses
  PROVE  /\ GlobalsInv' /\ page'.pc = 0 /\ page'.masterId = None
         /\ tasks' \subseteq Tasks /\ made' \in 0..MaxPeers /\ offered' \subseteq Sockets \cup {None}
         /\ failed' \in BOOLEAN /\ overtaken' \in BOOLEAN
<1>1. page \in Globals
  BY DEF GlobalsInv
<1>2. page' = [masterId |-> None, offerStarted |-> FALSE, pc |-> 0, mic |-> 0,
               pcs |-> page.pcs \ {page.pc}, mics |-> page.mics \ {page.mic}]
  BY DEF PeerCloses, closePeer, NoPeer
<1>3. /\ page'.masterId = None /\ page'.offerStarted = FALSE /\ page'.pc = 0 /\ page'.mic = 0
      /\ page'.pcs = page.pcs \ {page.pc} /\ page'.mics = page.mics \ {page.mic}
  BY <1>2
<1>4. 0 \in 0..MaxPeers
  BY PageAssumption
<1>5. page' \in Globals
  BY <1>1, <1>2, <1>4 DEF Globals
<1>6. failed' = failed /\ overtaken' = overtaken /\ made' = made /\ offered' = {}
  BY DEF PeerCloses
<1>7. ~failed => /\ page'.pcs = {}
                 /\ ~overtaken => page'.mics = {}
  BY <1>3 DEF GlobalsInv
<1>8. GlobalsInv'
  BY <1>3, <1>5, <1>6, <1>7 DEF GlobalsInv
<1>9. tasks' \subseteq Tasks
  BY DEF PeerCloses, Pending, RestOK
<1> QED BY <1>3, <1>6, <1>8, <1>9 DEF RestOK

(* A page without a peer, on no socket that has joined, has no news. *)
LEMMA NothingToSay ==
  ASSUME ~Joined' \/ (page'.pc = 0 /\ NewsInv')
  PROVE  NewsInv' /\ OffersInv'
  BY DEF NewsInv, OffersInv

LEMMA ConnectStep ==
  ASSUME PageInv, connect
  PROVE  PageInv'
<1>1. PICK s \in Pages : /\ ws = None /\ conn[s] \in {"new", "closed"}
                         /\ ws' = s /\ conn' = [conn EXCEPT ![s] = "new"]
  BY DEF connect
<1>2. /\ joinSent' = FALSE /\ wanted' = TRUE /\ timer' = FALSE /\ PeerCloses
      /\ UNCHANGED <<peer, rooms, told, inbox>>
  BY DEF connect
<1>3. conn \in Conns /\ inbox \in Inboxes /\ s \in Sockets /\ Pages \subseteq Sockets /\ s # None
  BY InvByRoom, RoomsAssumption DEF PageInv, ByRoom, Pages
<1>4. conn' \in Conns /\ conn'[s] = "new" /\ \A q \in Sockets : q # s => conn'[q] = conn[q]
  BY <1>1, <1>3 DEF Conns
<1>5. RoomsInv'
  BY <1>1, <1>2, <1>3, <1>4, SocketsChange DEF PageInv
<1>6. /\ GlobalsInv' /\ page'.pc = 0 /\ page'.masterId = None
      /\ tasks' \subseteq Tasks /\ made' \in 0..MaxPeers /\ offered' \subseteq Sockets \cup {None}
      /\ failed' \in BOOLEAN /\ overtaken' \in BOOLEAN
  BY <1>2, PeerClosesEffect DEF PageInv
<1>7. RestOK'
  BY <1>1, <1>2, <1>6 DEF RestOK, Pages
<1>8. SocketsInv'
  <2>1. \A q \in Pages : conn[q] # "open" /\ inbox[q] = <<>>
    BY <1>1, <1>3, RoomsAssumption DEF PageInv, SocketsInv
  <2>2. \A q \in Pages : peer[q] # None => peer[q].role = "viewer" /\ peer[q].room = PageRoom
    BY DEF PageInv, SocketsInv
  <2>3. \A q \in Pages : conn'[q] # "open" /\ inbox'[q] = <<>>
    BY <1>2, <1>3, <1>4, <2>1
  <2> QED BY <1>1, <1>2, <1>6, <2>2, <2>3 DEF SocketsInv, Pages
<1>9. ~Joined'
  BY <1>1, <1>4 DEF Joined
<1> QED BY <1>5, <1>6, <1>7, <1>8, <1>9, NothingToSay DEF PageInv

LEMMA OncloseStep ==
  ASSUME PageInv, onclose
  PROVE  PageInv'
<1>1. /\ ws # None /\ conn[ws] \in {"new", "closed"}
      /\ conn' = [conn EXCEPT ![ws] = "closed"] /\ inbox' = [inbox EXCEPT ![ws] = <<>>]
      /\ ws' = None /\ joinSent' = FALSE /\ timer' = TRUE /\ wanted' = wanted /\ PeerCloses
      /\ UNCHANGED <<peer, rooms, told>>
  BY DEF onclose
<1>2. conn \in Conns /\ inbox \in Inboxes /\ ws \in Pages /\ Pages \subseteq Sockets /\ Pages = Readers
  BY <1>1, InvByRoom, RoomsAssumption DEF PageInv, ByRoom, Pages, RestOK
<1>3. conn' \in Conns /\ conn'[ws] = "closed" /\ \A q \in Sockets : q # ws => conn'[q] = conn[q]
  BY <1>1, <1>2 DEF Conns
<1>4. inbox' \in Inboxes /\ inbox'[ws] = <<>> /\ \A q \in Pages : q # ws => inbox'[q] = inbox[q]
  BY <1>1, <1>2 DEF Inboxes
<1>5. RoomsInv'
  BY <1>1, <1>2, <1>3, <1>4, SocketsChange DEF PageInv
<1>6. /\ GlobalsInv' /\ page'.pc = 0 /\ page'.masterId = None
      /\ tasks' \subseteq Tasks /\ made' \in 0..MaxPeers /\ offered' \subseteq Sockets \cup {None}
      /\ failed' \in BOOLEAN /\ overtaken' \in BOOLEAN
  BY <1>1, PeerClosesEffect DEF PageInv
<1>7. RestOK'
  BY <1>1, <1>6 DEF PageInv, RestOK, Pages
<1>8. SocketsInv'
  <2>1. \A q \in Pages : q # ws => conn[q] # "open" /\ inbox[q] = <<>>
    BY DEF PageInv, SocketsInv
  <2>2. \A q \in Pages : peer[q] # None => peer[q].role = "viewer" /\ peer[q].room = PageRoom
    BY DEF PageInv, SocketsInv
  <2>3. \A q \in Pages : conn'[q] # "open" /\ inbox'[q] = <<>>
    BY <1>2, <1>3, <1>4, <2>1
  <2> QED BY <1>1, <2>2, <2>3 DEF SocketsInv, Pages
<1>9. ~Joined'
  BY <1>1 DEF Joined
<1> QED BY <1>5, <1>6, <1>7, <1>8, <1>9, NothingToSay DEF PageInv

LEMMA DisconnectStep ==
  ASSUME PageInv, disconnect
  PROVE  PageInv'
<1>1. /\ ws' = None /\ joinSent' = FALSE /\ timer' = FALSE /\ wanted' = FALSE /\ PeerCloses
      /\ UNCHANGED <<peer, rooms, told>>
  BY DEF disconnect
<1>2. /\ conn \in Conns /\ inbox \in Inboxes /\ ws \in Pages \cup {None} /\ Pages \subseteq Sockets
      /\ Pages = Readers
  BY <1>1, InvByRoom, RoomsAssumption DEF PageInv, ByRoom, Pages, RestOK
<1>3. /\ conn' \in Conns /\ inbox' \in Inboxes
      /\ \A q \in Sockets : \/ conn'[q] = conn[q]
                            \/ conn[q] = "new" /\ conn'[q] = "closed"
                            \/ conn[q] = "open" /\ conn'[q] = "closing"
      /\ \A q \in Sockets : q # ws => conn'[q] = conn[q]
      /\ \A q \in Pages : q # ws => inbox'[q] = inbox[q]
      /\ ws # None => conn'[ws] # "open" /\ inbox'[ws] = <<>>
  <2>1. CASE ws = None
    BY <1>2, <2>1 DEF disconnect
  <2>2. CASE ws # None
    <3>1. PICK x : x = CASE conn[ws] = "new" -> "closed"
                         [] conn[ws] = "open" -> "closing"
                         [] OTHER -> conn[ws]
      OBVIOUS
    <3>2. conn' = [conn EXCEPT ![ws] = x] /\ inbox' = [inbox EXCEPT ![ws] = <<>>]
      BY <2>2, <3>1 DEF disconnect
    <3>3. conn[ws] \in {"new", "open", "closing", "closed"}
      BY <1>2, <2>2 DEF Conns
    <3>4. /\ x \in {"closing", "closed"}
          /\ \/ x = conn[ws]
             \/ conn[ws] = "new" /\ x = "closed"
             \/ conn[ws] = "open" /\ x = "closing"
      BY <3>1, <3>3
    <3>5. inbox' \in Inboxes /\ inbox'[ws] = <<>> /\ \A q \in Pages : q # ws => inbox'[q] = inbox[q]
      BY <1>2, <2>2, <3>2 DEF Inboxes
    <3>6. conn' \in Conns /\ conn'[ws] = x /\ \A q \in Sockets : q # ws => conn'[q] = conn[q]
      BY <1>2, <2>2, <3>2, <3>4 DEF Conns
    <3> QED BY <2>2, <3>4, <3>5, <3>6
  <2> QED BY <2>1, <2>2
<1>4. RoomsInv'
  BY <1>1, <1>3, SocketsChange DEF PageInv
<1>5. /\ GlobalsInv' /\ page'.pc = 0 /\ page'.masterId = None
      /\ tasks' \subseteq Tasks /\ made' \in 0..MaxPeers /\ offered' \subseteq Sockets \cup {None}
      /\ failed' \in BOOLEAN /\ overtaken' \in BOOLEAN
  BY <1>1, PeerClosesEffect DEF PageInv
<1>6. RestOK'
  BY <1>1, <1>5 DEF RestOK, Pages
<1>7. SocketsInv'
  <2>1. \A q \in Pages : q # ws => conn[q] # "open" /\ inbox[q] = <<>>
    BY DEF PageInv, SocketsInv
  <2>2. \A q \in Pages : peer[q] # None => peer[q].role = "viewer" /\ peer[q].room = PageRoom
    BY DEF PageInv, SocketsInv
  <2>3. None \notin Pages
    BY <1>2, RoomsAssumption
  <2>4. \A q \in Pages : conn'[q] # "open" /\ inbox'[q] = <<>>
    BY <1>2, <1>3, <2>1, <2>3
  <2> QED BY <1>1, <2>2, <2>4 DEF SocketsInv, Pages
<1>8. ~Joined'
  BY <1>1 DEF Joined
<1> QED BY <1>4, <1>5, <1>6, <1>7, <1>8, NothingToSay DEF PageInv


(* Reading the first message, and the three kinds of news. *)
LEMMA ReadNews ==
  ASSUME NEW S, NEW x \in Seq(S), x # <<>>, NEW m, NEW now, EndsWith(x, m, now)
  PROVE  /\ EndsWith(Tail(x), Head(x), now)
         /\ Head(x) # None /\ NobodyLeft(Tail(x)) => NobodyLeft(x)
<1> DEFINE y == Tail(x)
<1>1. /\ Len(x) \in Nat /\ Len(x) >= 1 /\ y \in Seq(S) /\ Len(y) = Len(x) - 1 /\ Head(x) = x[1]
      /\ \A k \in 1..Len(y) : y[k] = x[k + 1]
  OBVIOUS
<1> HIDE DEF y
<1>2. y = <<>> <=> Len(y) = 0
  <2>1. \A z \in Seq(S) : z = <<>> <=> Len(z) = 0
    OBVIOUS
  <2> QED BY <1>1, <2>1
<1>3. y = <<>> => x[1] = now
  <2>1. y = <<>> => Len(x) = 1
    BY <1>1, <1>2
  <2>2. x[Len(x)] = now
    BY DEF EndsWith
  <2> QED BY <2>1, <2>2
<1>4. y # <<>> => y[Len(y)] = now
  BY <1>1, <1>2 DEF EndsWith
<1>5. ASSUME NEW k \in 1..Len(y), \A j \in k..Len(y) : y[j] # None PROVE y[k] = now
  <2>1. k + 1 \in 1..Len(x) /\ y[k] = x[k + 1]
    BY <1>1, <1>5
  <2>2. \A j \in (k + 1)..Len(x) : x[j] # None
    <3> SUFFICES ASSUME NEW j \in (k + 1)..Len(x) PROVE x[j] # None
      OBVIOUS
    <3>1. j - 1 \in k..Len(y) /\ j - 1 \in 1..Len(y) /\ (j - 1) + 1 = j
      BY <1>1
    <3> QED BY <1>1, <1>5, <3>1
  <2> QED BY <2>1, <2>2 DEF EndsWith
<1>6. Head(x) # None /\ NobodyLeft(y) => NobodyLeft(x)
  <2> SUFFICES ASSUME Head(x) # None, NobodyLeft(y), NEW k \in 1..Len(x) PROVE x[k] # None
    BY DEF NobodyLeft
  <2>1. CASE k = 1
    BY <1>1, <2>1
  <2>2. CASE k # 1
    <3>1. k - 1 \in 1..Len(y) /\ (k - 1) + 1 = k
      BY <1>1, <2>2
    <3> QED BY <1>1, <3>1 DEF NobodyLeft
  <2> QED BY <2>1, <2>2
<1>7. NobodyLeft(y) /\ Head(x) # None => Head(x) = now
  <2> SUFFICES ASSUME NobodyLeft(y), Head(x) # None PROVE Head(x) = now
    OBVIOUS
  <2>1. \A j \in 1..Len(x) : x[j] # None
    BY <1>6 DEF NobodyLeft
  <2> QED BY <1>1, <2>1 DEF EndsWith
<1>8. EndsWith(y, Head(x), now)
  BY <1>1, <1>3, <1>4, <1>5, <1>7 DEF EndsWith
<1> QED BY <1>6, <1>8 DEF y

LEMMA GoneNews ==
  ASSUME NEW S, NEW x \in Seq(S), NEW m, NEW y, y = x \o <<None>>
  PROVE  EndsWith(y, m, None) /\ ~NobodyLeft(y)
<1>1. Len(y) = Len(x) + 1 /\ y[Len(y)] = None /\ Len(x) \in Nat /\ y # <<>>
  OBVIOUS
<1>2. Len(y) \in 1..Len(y) /\ \A k \in 1..Len(y) : Len(y) \in k..Len(y)
  BY <1>1
<1> QED BY <1>1, <1>2 DEF EndsWith, NobodyLeft

LEMMA CameNews ==
  ASSUME NEW S, NEW x \in Seq(S), NEW m, EndsWith(x, m, None), NEW id, id # None,
         NEW y, y = x \o <<id>>
  PROVE  /\ EndsWith(y, m, id)
         /\ NobodyLeft(y) => m = None /\ NobodyLeft(x)
<1>1. /\ Len(y) = Len(x) + 1 /\ y[Len(y)] = id /\ Len(x) \in Nat /\ y # <<>>
      /\ \A k \in 1..Len(x) : y[k] = x[k]
  OBVIOUS
<1>2. NobodyLeft(y) => m = None /\ NobodyLeft(x)
  <2> SUFFICES ASSUME NobodyLeft(y) PROVE m = None /\ NobodyLeft(x)
    OBVIOUS
  <2>1. NobodyLeft(x)
    BY <1>1 DEF NobodyLeft
  <2> QED BY <2>1 DEF EndsWith
<1>3. ASSUME NEW k \in 1..Len(y), \A j \in k..Len(y) : y[j] # None PROVE y[k] = id
  <2>1. CASE k = Len(y)
    BY <1>1, <2>1
  <2>2. CASE k # Len(y)
    <3>1. k \in 1..Len(x) /\ \A j \in k..Len(x) : j \in 1..Len(x) /\ j \in k..Len(y)
      BY <1>1, <2>2
    <3>2. \A j \in k..Len(x) : x[j] # None
      BY <1>1, <1>3, <3>1
    <3>3. x[k] = None /\ k \in k..Len(x)
      BY <3>1, <3>2 DEF EndsWith
    <3> QED BY <3>2, <3>3
  <2> QED BY <2>1, <2>2
<1> QED BY <1>1, <1>2, <1>3 DEF EndsWith

LEMMA ReplacedNews ==
  ASSUME NEW S, NEW x \in Seq(S), NEW m, NEW id, id # None, NEW y, y = (x \o <<None>>) \o <<id>>
  PROVE  EndsWith(y, m, id) /\ ~NobodyLeft(y)
<1>1. PICK z : z = x \o <<None>>
  OBVIOUS
<1>2. z \in Seq(S \cup {None})
  <2>1. x \in Seq(S \cup {None}) /\ <<None>> \in Seq(S \cup {None})
    OBVIOUS
  <2> QED BY <1>1, <2>1
<1>3. EndsWith(z, m, None) /\ ~NobodyLeft(z)
  BY <1>1, GoneNews
<1> QED BY <1>1, <1>2, <1>3, CameNews


(* A joined page is a viewer in its room. *)
LEMMA JoinedPage ==
  ASSUME RoomsInv, RestOK, SocketsInv, Joined
  PROVE  /\ ws \in Pages /\ ws \in Sockets /\ inbox[ws] \in Seq(Ids \cup {None})
         /\ PageRoom \in DOMAIN rooms /\ ws \in rooms[PageRoom].viewers
         /\ peer[ws].room = PageRoom
         /\ Master \in Sockets \cup {None}
         /\ MasterNow = IF Master = None THEN None ELSE peer[Master].id
         /\ Master # None => peer[Master].id \in Ids
<1>1. ws \in Pages /\ ws \in Sockets /\ ws \in Readers
  BY RoomsAssumption DEF RestOK, Joined, Pages
<1>2. ByRoom /\ inbox[ws] \in Seq(Ids \cup {None})
  BY <1>1, InvByRoom DEF ByRoom, Inboxes
<1>3. peer[ws].role = "viewer" /\ peer[ws].room = PageRoom
  BY <1>1 DEF SocketsInv, Joined
<1>4. InPlace(peer, rooms, ws)
  BY <1>1, <1>2 DEF ByRoom, Joined
<1>5. PageRoom \in DOMAIN rooms /\ ws \in rooms[PageRoom].viewers
  BY <1>3, <1>4 DEF InPlace
<1>6. Master \in Sockets \cup {None} /\ (Master # None => peer[Master] \in PeerRecord)
  BY <1>5, Members DEF Master, Room
<1>7. Master # None => peer[Master].id \in Ids
  BY <1>6 DEF PeerRecord
<1>8. MasterNow = IF Master = None THEN None ELSE peer[Master].id
  BY DEF MasterNow, Master, MasterId
<1> QED BY <1>1, <1>2, <1>3, <1>5, <1>6, <1>7, <1>8

(* A message has been read: only the page's inbox is shorter. *)
LEMMA ReadStep ==
  ASSUME PageInv, ws # None, inbox[ws] # <<>>, inbox' = [inbox EXCEPT ![ws] = Tail(@)],
         UNCHANGED <<conn, peer, rooms, told, ws, joinSent>>
  PROVE  /\ RoomsInv' /\ SocketsInv' /\ Head(inbox[ws]) \in Ids \cup {None}
         /\ Joined' <=> Joined
         /\ MasterNow' = MasterNow /\ Master' = Master
         /\ Joined => /\ EndsWith(inbox'[ws'], Head(inbox[ws]), MasterNow)
                      /\ Head(inbox[ws]) # None /\ NobodyLeft(inbox'[ws']) => NobodyLeft(inbox[ws])
<1>1. /\ conn \in Conns /\ inbox \in Inboxes /\ ws \in Pages /\ Pages \subseteq Sockets
      /\ Pages = Readers
  BY InvByRoom, RoomsAssumption DEF PageInv, ByRoom, Pages, RestOK
<1>2. inbox[ws] \in Seq(Ids \cup {None})
  BY <1>1 DEF Inboxes
<1>3. Head(inbox[ws]) \in Ids \cup {None} /\ Tail(inbox[ws]) \in Seq(Ids \cup {None})
  BY <1>2
<1>4. /\ inbox' \in Inboxes /\ inbox'[ws] = Tail(inbox[ws])
      /\ \A q \in Pages : q # ws => inbox'[q] = inbox[q]
  BY <1>1, <1>3 DEF Inboxes
<1>5. RoomsInv'
  BY <1>1, <1>4, SocketsChange DEF PageInv
<1>6. ~(conn[ws] = "new" \/ (conn[ws] = "open" /\ peer[ws] = None))
  BY <1>1 DEF PageInv, SocketsInv
<1>7. SocketsInv'
  BY <1>1, <1>4, <1>6 DEF PageInv, SocketsInv, Pages
<1>8. (Joined' <=> Joined) /\ MasterNow' = MasterNow /\ Master' = Master
  BY DEF Joined, MasterNow, Master, MasterId
<1>9. Joined => /\ EndsWith(inbox'[ws'], Head(inbox[ws]), MasterNow)
                /\ Head(inbox[ws]) # None /\ NobodyLeft(inbox'[ws']) => NobodyLeft(inbox[ws])
  <2> SUFFICES ASSUME Joined
               PROVE /\ EndsWith(Tail(inbox[ws]), Head(inbox[ws]), MasterNow)
                     /\ Head(inbox[ws]) # None /\ NobodyLeft(Tail(inbox[ws])) => NobodyLeft(inbox[ws])
    BY <1>4
  <2>1. EndsWith(inbox[ws], page.masterId, MasterNow)
    BY DEF PageInv, NewsInv
  <2> QED BY <1>2, <2>1, ReadNews
<1> QED BY <1>3, <1>5, <1>7, <1>8, <1>9

LEMMA MasterGoneStep ==
  ASSUME PageInv, MasterGone
  PROVE  PageInv'
<1>1. /\ ws # None /\ inbox[ws] # <<>> /\ Head(inbox[ws]) = None
      /\ inbox' = [inbox EXCEPT ![ws] = Tail(@)] /\ PeerCloses
      /\ UNCHANGED <<conn, peer, rooms, told, ws, joinSent, wanted, timer>>
  BY DEF MasterGone
<1>2. /\ RoomsInv' /\ SocketsInv' /\ (Joined' <=> Joined) /\ MasterNow' = MasterNow
      /\ Joined => EndsWith(inbox'[ws'], None, MasterNow)
  BY <1>1, ReadStep
<1>3. /\ GlobalsInv' /\ page'.pc = 0 /\ page'.masterId = None
      /\ tasks' \subseteq Tasks /\ made' \in 0..MaxPeers /\ offered' \subseteq Sockets \cup {None}
      /\ failed' \in BOOLEAN /\ overtaken' \in BOOLEAN
  BY <1>1, PeerClosesEffect DEF PageInv
<1>4. RestOK'
  BY <1>1, <1>3 DEF PageInv, RestOK, Pages
<1>5. NewsInv'
  BY <1>2, <1>3 DEF NewsInv
<1> QED BY <1>2, <1>3, <1>4, <1>5, NothingToSay DEF PageInv

LEMMA MasterThereStep ==
  ASSUME PageInv, MasterThere
  PROVE  PageInv'
<1>1. /\ ws # None /\ inbox[ws] # <<>> /\ Head(inbox[ws]) # None
      /\ inbox' = [inbox EXCEPT ![ws] = Tail(@)]
      /\ UNCHANGED <<conn, peer, rooms, told, ws, joinSent, wanted, timer, offered, overtaken>>
  BY DEF MasterThere
<1>2. /\ RoomsInv' /\ SocketsInv' /\ Head(inbox[ws]) \in Ids \cup {None}
      /\ (Joined' <=> Joined) /\ MasterNow' = MasterNow /\ Master' = Master
      /\ Joined => /\ EndsWith(inbox'[ws'], Head(inbox[ws]), MasterNow)
                   /\ NobodyLeft(inbox'[ws']) => NobodyLeft(inbox[ws])
  BY <1>1, ReadStep
<1>3. PICK h : h = Head(inbox[ws])
  OBVIOUS
<1>4. page \in Globals /\ GlobalsInv /\ RestOK
  BY DEF PageInv, GlobalsInv
<1>5. CASE page.offerStarted
  <2>1. page' = [page EXCEPT !.masterId = h] /\ tasks' = tasks /\ made' = made /\ failed' = failed
    BY <1>3, <1>5 DEF MasterThere
  <2>2. /\ page' \in Globals /\ page'.masterId = h /\ page'.pc = page.pc
        /\ page'.offerStarted = page.offerStarted /\ page'.pcs = page.pcs
        /\ page'.mics = page.mics /\ page'.mic = page.mic
    BY <1>2, <1>3, <1>4, <2>1 DEF Globals
  <2>3. GlobalsInv'
    BY <1>1, <1>3, <1>4, <1>5, <2>1, <2>2 DEF GlobalsInv
  <2>4. RestOK'
    BY <1>1, <1>4, <2>1 DEF RestOK, Pages
  <2>5. NewsInv'
    BY <1>2, <1>3, <2>2 DEF NewsInv
  <2>6. OfferComes' <=> OfferComes
    BY <2>1, <2>2 DEF OfferComes
  <2>7. OffersInv'
    BY <1>1, <1>2, <2>1, <2>2, <2>6 DEF PageInv, OffersInv
  <2> QED BY <1>2, <2>3, <2>4, <2>5, <2>7 DEF PageInv
<1>6. CASE ~page.offerStarted /\ StartPeerAwaits(Head(inbox[ws]))
  <2>1. PICK k : k = made + 1
    OBVIOUS
  <2>2. /\ made < MaxPeers /\ made' = k
        /\ page' = [page EXCEPT !.masterId = h, !.offerStarted = TRUE, !.pc = k, !.pcs = @ \cup {k}]
        /\ tasks' = tasks \cup {[n |-> k, at |-> "mic", of |-> 0]} /\ failed' = failed
    BY <1>3, <1>6, <2>1 DEF StartPeerAwaits
  <2>3. k \in 1..MaxPeers /\ k \in 0..MaxPeers /\ k # 0 /\ 0 \in 0..MaxPeers
    BY <1>4, <2>1, <2>2, PageAssumption DEF RestOK
  <2>4. /\ page' \in Globals /\ page'.masterId = h /\ page'.pc = k
        /\ page'.offerStarted = TRUE /\ page'.pcs = page.pcs \cup {k}
        /\ page'.mics = page.mics /\ page'.mic = page.mic
    BY <1>2, <1>3, <1>4, <2>2, <2>3 DEF Globals
  <2>5. ~failed => page.pcs = {} /\ (~overtaken => page.mics = {})
    <3>1. page.pcs \subseteq 1..MaxPeers /\ page.mics \subseteq 1..MaxPeers
      BY <1>4 DEF Globals
    <3>2. 0 \notin page.pcs /\ 0 \notin page.mics
      BY <3>1
    <3>3. ~failed => page.pc = 0
      BY <1>4, <1>6 DEF GlobalsInv
    <3> QED BY <1>4, <3>2, <3>3 DEF GlobalsInv
  <2>6. GlobalsInv'
    BY <1>1, <1>3, <2>2, <2>3, <2>4, <2>5 DEF GlobalsInv
  <2>7. RestOK'
    <3>1. [n |-> k, at |-> "mic", of |-> 0] \in Tasks
      BY <2>3 DEF Tasks
    <3> QED BY <1>1, <1>4, <2>2, <2>3, <3>1 DEF RestOK, Pages
  <2>8. NewsInv'
    BY <1>2, <1>3, <2>4 DEF NewsInv
  <2>9. OfferComes'
    <3>1. PICK u : u = [n |-> k, at |-> "mic", of |-> 0]
      OBVIOUS
    <3>2. u \in tasks' /\ u.at = "mic"
      BY <2>2, <3>1
    <3> QED BY <3>2 DEF OfferComes
  <2>10. OffersInv'
    BY <2>9 DEF OffersInv
  <2> QED BY <1>2, <2>6, <2>7, <2>8, <2>10 DEF PageInv
<1>7. CASE ~page.offerStarted /\ StartPeerThrows(Head(inbox[ws]))
  <2>1. PICK k : k = made + 1
    OBVIOUS
  <2>2. /\ failed' = TRUE /\ tasks' = tasks
        /\ \/ page' = [page EXCEPT !.masterId = h] /\ made' = made
           \/ /\ made < MaxPeers /\ made' = k
              /\ page' = [page EXCEPT !.masterId = h, !.pc = k, !.pcs = @ \cup {k}]
    BY <1>3, <1>7, <2>1 DEF StartPeerThrows
  <2>3. made' \in 0..MaxPeers /\ (made < MaxPeers => k \in 1..MaxPeers /\ k \in 0..MaxPeers)
    BY <1>4, <2>1, <2>2, PageAssumption DEF RestOK
  <2>4. /\ page' \in Globals /\ page'.masterId = h /\ page'.offerStarted = FALSE
    <3>1. page \in Globals /\ page.offerStarted = FALSE /\ h \in Ids \cup {None}
      BY <1>2, <1>3, <1>4, <1>7 DEF Globals
    <3>2. CASE page' = [page EXCEPT !.masterId = h]
      BY <3>1, <3>2 DEF Globals
    <3>3. CASE made < MaxPeers /\ page' = [page EXCEPT !.masterId = h, !.pc = k, !.pcs = @ \cup {k}]
      <4>1. page.pcs \cup {k} \in SUBSET (1..MaxPeers)
        BY <2>3, <3>1, <3>3 DEF Globals
      <4>2. page' = [page EXCEPT !.masterId = h, !.pc = k, !.pcs = page.pcs \cup {k}]
        BY <3>1, <3>3 DEF Globals
      <4> QED BY <2>3, <3>1, <3>3, <4>1, <4>2 DEF Globals
    <3> QED BY <2>2, <3>2, <3>3
  <2>5. GlobalsInv'
    BY <1>1, <1>3, <2>2, <2>4 DEF GlobalsInv
  <2>6. RestOK'
    BY <1>1, <1>4, <2>2, <2>3 DEF RestOK, Pages
  <2>7. NewsInv'
    BY <1>2, <1>3, <2>4 DEF NewsInv
  <2>8. OffersInv'
    BY <2>2 DEF OffersInv
  <2> QED BY <1>2, <2>5, <2>6, <2>7, <2>8 DEF PageInv
<1> QED BY <1>5, <1>6, <1>7 DEF MasterThere


(* Where nothing but the page's own work goes on, its sockets and its news *)
(* are as they were.                                                       *)
LEMMA TaskFrame ==
  ASSUME PageInv, UNCHANGED <<roomVars, ws, joinSent, wanted, timer>>, GlobalsInv',
         page'.masterId = page.masterId, page'.pc = page.pc
  PROVE  /\ RoomsInv' /\ SocketsInv' /\ NewsInv'
         /\ Joined' <=> Joined
         /\ Master' = Master
<1>1. /\ conn' = conn /\ peer' = peer /\ rooms' = rooms /\ told' = told /\ inbox' = inbox
      /\ ws' = ws /\ joinSent' = joinSent
  BY DEF roomVars
<1>2. RoomsInv'
  BY <1>1, InvByRoom, SocketsChange DEF PageInv, ByRoom
<1>3. SocketsInv'
  BY <1>1 DEF PageInv, SocketsInv, Pages
<1>4. Joined' <=> Joined
  BY <1>1 DEF Joined
<1>5. Master' = Master /\ MasterNow' = MasterNow
  BY <1>1 DEF Master, MasterNow, MasterId
<1>6. NewsInv'
  BY <1>1, <1>4, <1>5 DEF PageInv, NewsInv
<1> QED BY <1>1, <1>2, <1>3, <1>4, <1>5, <1>6

LEMMA MicGrantedStep ==
  ASSUME PageInv, NEW t \in tasks, MicGranted(t)
  PROVE  PageInv'
<1> DEFINE p == [page EXCEPT !.mic = t.n, !.mics = @ \cup {t.n}]
<1>1. /\ t.at = "mic" /\ overtaken' = (overtaken \/ page.pc # t.n)
      /\ UNCHANGED <<roomVars, ws, joinSent, wanted, timer, made, offered>>
  BY DEF MicGranted, GoesOn
<1>2. page \in Globals /\ GlobalsInv /\ RestOK
  BY DEF PageInv, GlobalsInv
<1>3. t \in Tasks /\ t.n \in 1..MaxPeers /\ t.n \in 0..MaxPeers /\ t.n # 0
  BY <1>2, PageAssumption DEF RestOK, Tasks
<1>4. /\ p \in Globals /\ p.masterId = page.masterId /\ p.offerStarted = page.offerStarted
      /\ p.pc = page.pc /\ p.mic = t.n /\ p.pcs = page.pcs /\ p.mics = page.mics \cup {t.n}
  BY <1>2, <1>3 DEF Globals
<1>5. overtaken' \in BOOLEAN
  BY <1>1, <1>2 DEF RestOK
<1>6. CASE page.pc = 0
  <2> HIDE DEF p
  <2>1. Catch(t, p)
    BY <1>4, <1>6 DEF MicGranted, CreateOffer, p
  <2>2. /\ page' = [p EXCEPT !.offerStarted = FALSE] /\ tasks' = tasks \ {t}
        /\ failed' = (failed \/ p.pc # 0)
    BY <2>1 DEF Catch, Others
  <2>3. /\ page' \in Globals /\ page'.masterId = page.masterId /\ page'.offerStarted = FALSE
        /\ page'.pc = 0 /\ page'.pcs = page.pcs
    BY <1>4, <1>6, <2>2 DEF Globals
  <2>4. failed' = failed /\ overtaken'
    BY <1>1, <1>2, <1>3, <1>4, <1>6, <2>2 DEF RestOK
  <2>5. GlobalsInv'
    BY <1>2, <1>6, <2>3, <2>4 DEF GlobalsInv
  <2>6. RestOK'
    BY <1>1, <1>2, <1>5, <2>2, <2>4 DEF RestOK, Pages
  <2>7. OffersInv'
    BY <2>3 DEF OffersInv
  <2> QED BY <1>1, <1>6, <2>3, <2>5, <2>6, <2>7, TaskFrame DEF PageInv
<1>7. CASE page.pc # 0
  <2>1. PICK u : u = [t EXCEPT !.at = "track"]
    OBVIOUS
  <2>2. u \in Tasks /\ u.at = "track"
    BY <1>3, <2>1 DEF Tasks
  <2>3. page' = p /\ tasks' = (tasks \ {t}) \cup {u} /\ failed' = failed
    BY <1>4, <1>7, <2>1 DEF MicGranted, Others
  <2> HIDE DEF p
  <2>4. GlobalsInv'
    <3>1. ~overtaken' => ~overtaken /\ page.pc = t.n
      BY <1>1
    <3> QED BY <1>2, <1>4, <2>3, <3>1 DEF GlobalsInv
  <2>5. RestOK'
    BY <1>1, <1>2, <1>5, <2>2, <2>3 DEF RestOK, Pages
  <2>6. OfferComes'
    BY <2>2, <2>3 DEF OfferComes
  <2>7. OffersInv'
    BY <2>6 DEF OffersInv
  <2> QED BY <1>1, <1>4, <2>3, <2>4, <2>5, <2>7, TaskFrame DEF PageInv
<1> QED BY <1>6, <1>7

LEMMA MicDoneStep ==
  ASSUME PageInv, NEW t \in tasks, MicDone(t)
  PROVE  PageInv'
<1>1. /\ CreateOffer(t, page) /\ overtaken' = (overtaken \/ page.pc # t.n)
      /\ UNCHANGED <<roomVars, ws, joinSent, wanted, timer, made, offered>>
  BY DEF MicDone, GoesOn
<1>2. page \in Globals /\ GlobalsInv /\ RestOK
  BY DEF PageInv, GlobalsInv
<1>3. t \in Tasks /\ page.pc \in 0..MaxPeers
  BY <1>2 DEF RestOK, Globals
<1>4. overtaken' \in BOOLEAN /\ (~overtaken' => ~overtaken)
  BY <1>1, <1>2 DEF RestOK
<1>5. CASE page.pc = 0
  <2>1. /\ page' = [page EXCEPT !.offerStarted = FALSE] /\ tasks' = tasks \ {t}
        /\ failed' = (failed \/ page.pc # 0)
    BY <1>1, <1>5 DEF CreateOffer, Catch, Others
  <2>2. /\ page' \in Globals /\ page'.masterId = page.masterId /\ page'.offerStarted = FALSE
        /\ page'.pc = 0 /\ page'.pcs = page.pcs /\ page'.mics = page.mics /\ page'.mic = page.mic
    BY <1>2, <1>5, <2>1 DEF Globals
  <2>3. failed' = failed
    BY <1>2, <1>5, <2>1 DEF RestOK
  <2>4. GlobalsInv'
    BY <1>2, <1>4, <1>5, <2>2, <2>3 DEF GlobalsInv
  <2>5. RestOK'
    BY <1>1, <1>2, <1>4, <2>1, <2>3 DEF RestOK, Pages
  <2>6. OffersInv'
    BY <2>2 DEF OffersInv
  <2> QED BY <1>1, <1>5, <2>2, <2>4, <2>5, <2>6, TaskFrame DEF PageInv
<1>6. CASE page.pc # 0
  <2>1. PICK u : u = [t EXCEPT !.at = "offer", !.of = page.pc]
    OBVIOUS
  <2>2. u \in Tasks /\ u.of = page.pc
    BY <1>3, <2>1 DEF Tasks
  <2>3. page' = page /\ tasks' = (tasks \ {t}) \cup {u} /\ failed' = failed
    BY <1>1, <1>6, <2>1 DEF CreateOffer, Others
  <2>4. GlobalsInv'
    BY <1>2, <1>4, <2>3 DEF GlobalsInv
  <2>5. RestOK'
    BY <1>1, <1>2, <1>4, <2>2, <2>3 DEF RestOK, Pages
  <2>6. OfferComes'
    BY <2>2, <2>3 DEF OfferComes
  <2>7. OffersInv'
    BY <2>6 DEF OffersInv
  <2> QED BY <1>1, <2>3, <2>4, <2>5, <2>7, TaskFrame DEF PageInv
<1> QED BY <1>5, <1>6

LEMMA OfferFailsStep ==
  ASSUME PageInv, NEW t \in tasks, OfferFails(t)
  PROVE  PageInv'
<1>1. /\ page' = [page EXCEPT !.offerStarted = FALSE] /\ tasks' = tasks \ {t}
      /\ failed' = (failed \/ page.pc # 0)
      /\ UNCHANGED <<roomVars, ws, joinSent, wanted, timer, made, offered, overtaken>>
  BY DEF OfferFails, Catch, Others
<1>2. page \in Globals /\ GlobalsInv /\ RestOK
  BY DEF PageInv, GlobalsInv
<1>3. /\ page' \in Globals /\ page'.masterId = page.masterId /\ page'.offerStarted = FALSE
      /\ page'.pc = page.pc /\ page'.pcs = page.pcs /\ page'.mics = page.mics /\ page'.mic = page.mic
  BY <1>1, <1>2 DEF Globals
<1>4. failed' \in BOOLEAN /\ (~failed' => ~failed /\ page.pc = 0)
  BY <1>1, <1>2 DEF RestOK
<1>5. GlobalsInv'
  BY <1>1, <1>2, <1>3, <1>4 DEF GlobalsInv
<1>6. RestOK'
  BY <1>1, <1>2, <1>4 DEF RestOK, Pages
<1>7. OffersInv'
  BY <1>3, <1>4 DEF OffersInv
<1> QED BY <1>1, <1>3, <1>5, <1>6, <1>7, TaskFrame DEF PageInv


(* Whom an offer reaches is a client, or nobody. *)
LEMMA FindTyped ==
  ASSUME RoomsInv, NEW n, NEW id
  PROVE  find(n, id) \in Sockets \cup {None}
<1>1. CASE n \notin DOMAIN rooms
  BY <1>1 DEF find
<1>2. CASE n \in DOMAIN rooms /\ id = MasterId(rooms[n])
  BY <1>2, Members DEF find, Room
<1>3. CASE n \in DOMAIN rooms /\ id # MasterId(rooms[n])
  <2>1. PICK vs : vs = rooms[n].viewers
    OBVIOUS
  <2>2. vs \subseteq Sockets /\ None \notin vs
    BY <1>3, <2>1, Members, RoomsAssumption
  <2>3. PICK known \in BOOLEAN : known <=> id \in ViewerIds(rooms[n])
    OBVIOUS
  <2>4. find(n, id) = CHOOSE v \in vs \cup {None} : IF known THEN v # None /\ peer[v].id = id ELSE v = None
    BY <1>3, <2>1, <2>3 DEF find
  <2>5. known => \E v \in vs : peer[v].id = id
    BY <2>1, <2>3 DEF ViewerIds
  <2>6. \E v \in vs \cup {None} : IF known THEN v # None /\ peer[v].id = id ELSE v = None
    BY <2>2, <2>5
  <2>7. find(n, id) \in vs \cup {None}
    BY <2>4, <2>6
  <2> QED BY <2>2, <2>7
<1> QED BY <1>1, <1>2, <1>3

LEMMA OfferSentStep ==
  ASSUME PageInv, NEW t \in tasks, OfferSent(t)
  PROVE  PageInv'
<1>1. /\ t.at = "offer" /\ ws # None /\ tasks' = tasks \ {t} /\ page' = page /\ failed' = failed
      /\ offered' = IF peer[ws] = None \/ t.of # page.pc THEN offered
                    ELSE offered \cup {find(peer[ws].room, page.masterId)}
      /\ UNCHANGED <<roomVars, ws, joinSent, wanted, timer, made, overtaken>>
  BY DEF OfferSent, Others
<1>2. page \in Globals /\ GlobalsInv /\ RestOK
  BY DEF PageInv, GlobalsInv
<1>3. GlobalsInv'
  BY <1>1, <1>2 DEF GlobalsInv
<1>4. offered \subseteq offered' /\ offered' \subseteq Sockets \cup {None}
  BY <1>1, <1>2, FindTyped DEF PageInv, RestOK
<1>5. RestOK'
  BY <1>1, <1>2, <1>4 DEF RestOK, Pages
<1>6. /\ RoomsInv' /\ SocketsInv' /\ NewsInv' /\ (Joined' <=> Joined) /\ Master' = Master
  <2>1. UNCHANGED <<roomVars, ws, joinSent, wanted, timer>>
    BY <1>1
  <2>2. page'.masterId = page.masterId /\ page'.pc = page.pc
    BY <1>1
  <2> QED BY ONLY <1>3, <2>1, <2>2, PageInv, TaskFrame
<1>8. inbox' = inbox /\ ws' = ws
  BY <1>1 DEF roomVars
<1>7. OffersInv'
  <2> SUFFICES ASSUME Joined, NobodyLeft(inbox[ws]), page.pc # 0, ~failed
               PROVE  OfferComes' \/ Master \in offered'
    BY <1>1, <1>6, <1>8 DEF OffersInv
  <2>1. OfferComes \/ Master \in offered
    BY DEF PageInv, OffersInv
  <2>2. CASE Master \in offered
    BY <1>4, <2>2
  <2>3. CASE OfferComes
    <3>1. PICK u \in tasks : u.at \in {"mic", "track"} \/ u.of = page.pc
      BY <2>3 DEF OfferComes
    <3>2. CASE u # t
      BY <1>1, <3>1, <3>2 DEF OfferComes
    <3>3. CASE u = t
      <4>1. t.of = page.pc
        BY <1>1, <3>1, <3>3
      <4>2. page.masterId # None
        BY <1>2 DEF GlobalsInv
      <4>3. page.masterId = MasterNow
        BY <4>2 DEF PageInv, NewsInv, EndsWith
      <4>4. peer[ws] # None /\ peer[ws].room = PageRoom /\ PageRoom \in DOMAIN rooms
        BY JoinedPage DEF PageInv, Joined
      <4>5. find(PageRoom, page.masterId) = Master
        BY <4>3, <4>4 DEF find, MasterNow, Master
      <4> QED BY <1>1, <4>1, <4>4, <4>5
    <3> QED BY <3>2, <3>3
  <2> QED BY <2>1, <2>2, <2>3
<1> QED BY <1>3, <1>5, <1>6, <1>7 DEF PageInv

-----------------------------------------------------------------------------
(* The steps of the server that the page hears of. *)

(* Another client's step: the page learns what became of its master. *)
LEMMA OthersStep ==
  ASSUME PageInv, NEW s \in Sockets, s # ws, RoomsInv', StepNews(s),
         \A q \in Sockets : q # s => peer'[q] = peer[q] /\ conn'[q] \in {conn[q], "closing"},
         s \in Pages => conn'[s] # "open" /\ peer'[s] = None /\ inbox'[s] = inbox[s],
         UNCHANGED pageVars
  PROVE  PageInv'
<1>1. /\ ws' = ws /\ joinSent' = joinSent /\ wanted' = wanted /\ timer' = timer /\ page' = page
      /\ tasks' = tasks /\ made' = made /\ offered' = offered /\ failed' = failed
      /\ overtaken' = overtaken
  BY DEF pageVars
<1>2. RestOK' /\ GlobalsInv'
  BY <1>1 DEF PageInv, RestOK, GlobalsInv, Pages
<1>3. Pages \subseteq Sockets /\ Pages = Readers /\ RoomsInv /\ SocketsInv /\ RestOK
  BY RoomsAssumption DEF Pages, PageInv
<1>4. \A q \in Pages : q # s /\ (conn[q] # "open" \/ peer[q] = None) => inbox'[q] = inbox[q]
  BY <1>3 DEF StepNews
<1>5. \A q \in Pages : q # s => peer'[q] = peer[q] /\ conn'[q] \in {conn[q], "closing"}
  BY <1>3
<1>6. SocketsInv'
  <2>1. \A q \in Pages : q # ws => conn'[q] # "open" /\ inbox'[q] = <<>>
    BY <1>3, <1>4, <1>5 DEF SocketsInv
  <2>2. \A q \in Pages : peer'[q] # None => peer'[q].role = "viewer" /\ peer'[q].room = PageRoom
    BY <1>3, <1>5 DEF SocketsInv
  <2>3. ws # None => ws \in Pages /\ ws # s
    BY <1>3 DEF RestOK
  <2>4. ws # None /\ (conn'[ws] = "new" \/ (conn'[ws] = "open" /\ peer'[ws] = None)) =>
           inbox'[ws] = <<>> /\ page.pc = 0 /\ page.masterId = None
    BY <1>3, <1>4, <1>5, <2>3 DEF SocketsInv
  <2>5. ws # None /\ conn'[ws] = "open" /\ peer'[ws] # None => joinSent
    BY <1>3, <1>5, <2>3 DEF SocketsInv
  <2> QED BY <1>1, <2>1, <2>2, <2>4, <2>5 DEF SocketsInv, Pages
<1>7. ASSUME Joined' PROVE NewsInv' /\ OffersInv'
  <2>1. ws # None /\ ws \in Pages /\ Joined
    BY <1>1, <1>3, <1>5, <1>7 DEF Joined, RestOK
  <2>2. /\ inbox[ws] \in Seq(Ids \cup {None}) /\ ws \in Readers
        /\ PageRoom \in DOMAIN rooms /\ ws \in rooms[PageRoom].viewers
        /\ MasterNow = IF Master = None THEN None ELSE peer[Master].id
    BY <1>3, <2>1, JoinedPage
  <2>3. MasterNow' = IF Master' = None THEN None ELSE peer'[Master'].id
    BY DEF MasterNow, Master, MasterId
  <2>4. \/ /\ Master' = Master /\ inbox'[ws] = inbox[ws]
           /\ Master # None => peer'[Master] = peer[Master]
        \/ Master' = None /\ inbox'[ws] = inbox[ws] \o <<None>>
        \/ /\ Master = None /\ Master' # None
           /\ inbox'[ws] = inbox[ws] \o <<peer'[Master'].id>>
        \/ /\ Master' # None
           /\ inbox'[ws] = (inbox[ws] \o <<None>>) \o <<peer'[Master'].id>>
    BY <2>1, <2>2 DEF StepNews, Master, Joined
  <2>5. EndsWith(inbox[ws], page.masterId, MasterNow)
    BY <2>1 DEF PageInv, NewsInv
  <2>6. Master' # None => peer'[Master'].id # None
    <3>1. RestOK' /\ SocketsInv' /\ RoomsInv' /\ Joined'
      BY <1>2, <1>6, <1>7
    <3>2. Master' # None => peer'[Master'].id \in Ids
      <4>1. ByRoom' /\ PageRoom \in DOMAIN rooms'
        <5>1. ByRoom'
          BY InvByRoom, PTL
        <5> QED BY <2>1, <2>2, <5>1 DEF StepNews, Joined
      <4>2. rooms'[PageRoom] \in Room /\ RoomOK(conn', peer', told', rooms'[PageRoom], PageRoom)
            /\ peer' \in [Sockets -> {None} \cup PeerRecord]
        BY <4>1 DEF ByRoom, Table
      <4>3. Master' # None => Master' \in Sockets /\ peer'[Master'] # None
        BY <4>2 DEF Master, Room, RoomOK, RoomFits, Member
      <4> QED BY <4>2, <4>3 DEF PeerRecord
    <3> QED BY <3>2, RoomsAssumption
  <2>7. PICK x, y, now2 : x = inbox[ws] /\ y = inbox'[ws] /\ now2 = MasterNow'
    OBVIOUS
  <2>8. /\ EndsWith(y, page.masterId, now2)
        /\ NobodyLeft(y) /\ page.masterId # None => Master' = Master /\ NobodyLeft(x)
    <3>1. CASE /\ Master' = Master /\ y = x
               /\ Master # None => peer'[Master] = peer[Master]
      <4>1. now2 = MasterNow
        BY <2>2, <2>3, <2>7, <3>1
      <4> QED BY <2>5, <2>7, <3>1, <4>1
    <3>2. CASE Master' = None /\ y = x \o <<None>>
      <4>1. now2 = None /\ x \in Seq(Ids \cup {None})
        BY <2>2, <2>3, <2>7, <3>2
      <4> QED BY <3>2, <4>1, GoneNews
    <3>3. CASE Master = None /\ Master' # None /\ y = x \o <<peer'[Master'].id>>
      <4>1. PICK id : id = peer'[Master'].id
        OBVIOUS
      <4>2. now2 = id /\ id # None /\ x \in Seq(Ids \cup {None}) /\ y = x \o <<id>>
        BY <2>2, <2>3, <2>6, <2>7, <3>3, <4>1
      <4>3. EndsWith(x, page.masterId, None)
        BY <2>2, <2>5, <2>7, <3>3
      <4> QED BY <4>2, <4>3, CameNews
    <3>4. CASE Master' # None /\ y = (x \o <<None>>) \o <<peer'[Master'].id>>
      <4>1. PICK id : id = peer'[Master'].id
        OBVIOUS
      <4>2. now2 = id /\ id # None /\ x \in Seq(Ids \cup {None}) /\ y = (x \o <<None>>) \o <<id>>
        BY <2>2, <2>3, <2>6, <2>7, <3>4, <4>1
      <4> QED BY <4>2, ReplacedNews
    <3> QED BY <2>4, <2>7, <3>1, <3>2, <3>3, <3>4
  <2>9. NewsInv'
    BY <1>1, <2>7, <2>8 DEF NewsInv
  <2>10. ASSUME NobodyLeft(y), page.pc # 0, ~failed PROVE OfferComes \/ Master' \in offered
    <3>1. page.masterId # None
      BY <2>10 DEF PageInv, GlobalsInv
    <3>2. Master' = Master /\ NobodyLeft(inbox[ws])
      BY <2>7, <2>8, <2>10, <3>1
    <3> QED BY <2>1, <2>10, <3>2 DEF PageInv, OffersInv
  <2>11. OfferComes' <=> OfferComes
    BY <1>1 DEF OfferComes
  <2> QED BY <1>1, <2>7, <2>9, <2>10, <2>11 DEF OffersInv
<1>8. ~Joined' => NewsInv' /\ OffersInv'
  BY DEF NewsInv, OffersInv
<1> QED BY <1>2, <1>6, <1>7, <1>8 DEF PageInv


(* The server accepts the page's connection: it has not joined yet. *)
LEMMA AcceptedStep ==
  ASSUME PageInv, ws # None, Connect(ws), UNCHANGED pageVars
  PROVE  PageInv'
<1>1. /\ ws' = ws /\ joinSent' = joinSent /\ wanted' = wanted /\ timer' = timer /\ page' = page
      /\ tasks' = tasks /\ made' = made /\ offered' = offered /\ failed' = failed
      /\ overtaken' = overtaken
  BY DEF pageVars
<1>2. RestOK' /\ GlobalsInv'
  BY <1>1 DEF PageInv, RestOK, GlobalsInv, Pages
<1>3. Pages \subseteq Sockets /\ ws \in Pages /\ SocketsInv /\ conn[ws] = "new"
  BY RoomsAssumption DEF Pages, PageInv, RestOK, Connect
<1>4. /\ RoomsInv' /\ conn'[ws] = "open" /\ peer'[ws] = None /\ inbox' = inbox
      /\ \A q \in Sockets : q # ws => peer'[q] = peer[q] /\ conn'[q] = conn[q]
  BY <1>3, ConnectKeeps DEF PageInv
<1>5. SocketsInv'
  <2>1. \A q \in Pages : q # ws => conn'[q] # "open" /\ inbox'[q] = <<>>
    BY <1>3, <1>4 DEF SocketsInv
  <2>2. \A q \in Pages : peer'[q] # None => peer'[q].role = "viewer" /\ peer'[q].room = PageRoom
    BY <1>3, <1>4 DEF SocketsInv
  <2>3. inbox'[ws] = <<>> /\ page.pc = 0 /\ page.masterId = None
    BY <1>3, <1>4 DEF SocketsInv
  <2> QED BY <1>1, <1>4, <2>1, <2>2, <2>3 DEF SocketsInv, Pages
<1>6. ~Joined'
  BY <1>1, <1>4 DEF Joined
<1> QED BY <1>2, <1>4, <1>5, <1>6, NothingToSay DEF PageInv

(* The server loses one of the page's connections. *)
LEMMA LostStep ==
  ASSUME PageInv, NEW s \in Pages, Close(s), UNCHANGED pageVars
  PROVE  PageInv'
<1>1. /\ ws' = ws /\ joinSent' = joinSent /\ wanted' = wanted /\ timer' = timer /\ page' = page
      /\ tasks' = tasks /\ made' = made /\ offered' = offered /\ failed' = failed
      /\ overtaken' = overtaken
  BY DEF pageVars
<1>2. Pages \subseteq Sockets /\ s \in Sockets /\ s \in Readers /\ SocketsInv /\ s # None
  BY RoomsAssumption DEF Pages, PageInv
<1>3. /\ RoomsInv' /\ StepNews(s) /\ conn'[s] = "closed" /\ peer'[s] = None /\ inbox'[s] = inbox[s]
      /\ \A q \in Sockets : q # s => peer'[q] = peer[q] /\ conn'[q] = conn[q]
  BY <1>2, CloseKeeps DEF PageInv
<1>4. CASE s # ws
  BY <1>2, <1>3, <1>4, OthersStep
<1>5. CASE s = ws
  <2>1. RestOK' /\ GlobalsInv'
    BY <1>1 DEF PageInv, RestOK, GlobalsInv, Pages
  <2>2. SocketsInv'
    <3>1. \A q \in Pages : q # ws => conn'[q] # "open" /\ inbox'[q] = <<>>
      BY <1>2, <1>3, <1>5 DEF SocketsInv, StepNews, Pages
    <3>2. \A q \in Pages : peer'[q] # None => peer'[q].role = "viewer" /\ peer'[q].room = PageRoom
      BY <1>2, <1>3, <1>5 DEF SocketsInv
    <3>3. conn'[ws] # "new" /\ conn'[ws] # "open"
      BY <1>3, <1>5
    <3> QED BY <1>1, <3>1, <3>2, <3>3 DEF SocketsInv, Pages
  <2>3. ~Joined'
    BY <1>1, <1>3, <1>5 DEF Joined
  <2> QED BY <1>3, <2>1, <2>2, <2>3, NothingToSay DEF PageInv
<1> QED BY <1>4, <1>5

LEMMA OnopenStep ==
  ASSUME PageInv, onopen
  PROVE  PageInv'
<1>1. /\ ws # None /\ conn[ws] = "open" /\ ~joinSent /\ joinSent' = TRUE
      /\ UNCHANGED <<ws, wanted, timer, page, tasks, made, offered, failed, overtaken>>
  BY DEF onopen
<1>2. PICK id \in FreshIds : JoinViewer(ws, PageRoom, id)
  BY DEF onopen
<1>3. /\ Pages \subseteq Sockets /\ Pages = Readers /\ ws \in Pages /\ SocketsInv /\ id \in Ids
      /\ PageRoom \in RoomNames
  BY <1>1, RoomsAssumption, PageAssumption DEF Pages, PageInv, RestOK
<1>4. peer[ws] = None /\ inbox[ws] = <<>> /\ page.pc = 0 /\ page.masterId = None
  <2>1. peer[ws] = None
    BY <1>1, <1>3 DEF SocketsInv
  <2>2. inbox[ws] = <<>> /\ page.pc = 0 /\ page.masterId = None
    BY <1>1, <1>3, <2>1 DEF SocketsInv
  <2> QED BY <2>1, <2>2
<1>5. /\ RoomsInv' /\ StepNews(ws) /\ conn' = conn /\ Newcomer(ws, PageRoom, id)
      /\ \A q \in Sockets : q # ws => peer'[q] = peer[q]
  BY <1>2, <1>3, JoinViewerKeeps DEF PageInv
<1>6. RestOK' /\ GlobalsInv'
  BY <1>1 DEF PageInv, RestOK, GlobalsInv, Pages
<1>7. \/ peer'[ws] = None /\ inbox'[ws] = <<>>
      \/ /\ peer'[ws] # None /\ peer'[ws].role = "viewer" /\ peer'[ws].room = PageRoom
         /\ inbox'[ws] = IF Master' = None THEN <<>> ELSE <<MasterNow', MasterNow'>>
  <2>1. CASE peer'[ws] = None /\ (ws \in Readers /\ peer[ws] = None => inbox'[ws] = inbox[ws])
    BY <1>3, <1>4, <2>1
  <2>2. CASE /\ peer'[ws] = [id |-> id, role |-> "viewer", room |-> PageRoom]
             /\ ws \in Readers /\ peer[ws] = None /\ conn[ws] = "open" =>
                   inbox'[ws] = IF rooms'[PageRoom].master = None THEN inbox[ws]
                                ELSE inbox[ws] \o <<peer'[rooms'[PageRoom].master].id,
                                                    peer'[rooms'[PageRoom].master].id>>
    <3>1. Master' # None => MasterNow' = peer'[rooms'[PageRoom].master].id
      BY DEF Master, MasterNow, MasterId
    <3>2. \A x : <<>> \o <<x, x>> = <<x, x>>
      OBVIOUS
    <3>3. PICK m : m = peer'[rooms'[PageRoom].master].id
      OBVIOUS
    <3>4. inbox'[ws] = IF Master' = None THEN <<>> ELSE <<>> \o <<m, m>>
      BY <1>1, <1>3, <1>4, <2>2, <3>3 DEF Master
    <3>5. inbox'[ws] = IF Master' = None THEN <<>> ELSE <<MasterNow', MasterNow'>>
      BY <3>1, <3>2, <3>3, <3>4
    <3>6. peer'[ws] # None
      BY <1>3, <2>2, RoomsAssumption
    <3> QED BY <2>2, <3>5, <3>6
  <2> QED BY <1>5, <2>1, <2>2 DEF Newcomer
<1>8. SocketsInv'
  <2>1. \A q \in Pages : q # ws => conn'[q] # "open" /\ inbox'[q] = <<>>
    BY <1>3, <1>5 DEF SocketsInv, StepNews
  <2>2. \A q \in Pages : peer'[q] # None => peer'[q].role = "viewer" /\ peer'[q].room = PageRoom
    BY <1>3, <1>5, <1>7 DEF SocketsInv
  <2>3. conn'[ws] = "open" /\ (peer'[ws] = None => inbox'[ws] = <<>>)
    BY <1>1, <1>5, <1>7
  <2> QED BY <1>1, <1>4, <2>1, <2>2, <2>3 DEF SocketsInv, Pages
<1>9. NewsInv'
  <2> SUFFICES ASSUME Joined' PROVE EndsWith(inbox'[ws], None, MasterNow')
    BY <1>1, <1>4 DEF NewsInv
  <2>1. MasterNow' = IF Master' = None THEN None ELSE peer'[Master'].id
    BY DEF MasterNow, Master, MasterId
  <2>2. PICK x, m : x = inbox'[ws] /\ m = MasterNow'
    OBVIOUS
  <2>3. (x = <<>> /\ m = None) \/ x = <<m, m>>
    BY <1>1, <1>7, <2>1, <2>2 DEF Joined
  <2>4. EndsWith(x, None, m)
    <3>1. CASE x = <<>> /\ m = None
      BY <3>1 DEF EndsWith
    <3>2. CASE x = <<m, m>>
      <4>1. Len(x) = 2 /\ x # <<>> /\ x[1] = m /\ x[2] = m /\ 1..Len(x) = {1, 2}
        BY <3>2
      <4> QED BY <4>1 DEF EndsWith
    <3> QED BY <2>3, <3>1, <3>2
  <2> QED BY <2>2, <2>4
<1>10. OffersInv'
  BY <1>1, <1>4 DEF OffersInv
<1> QED BY <1>5, <1>6, <1>8, <1>9, <1>10 DEF PageInv

-----------------------------------------------------------------------------
LEMMA InitPage == PageInit => PageInv
<1> SUFFICES ASSUME PageInit PROVE PageInv
  OBVIOUS
<1>1. RoomsInv
  BY InitRooms DEF PageInit
<1>2. ws = None /\ joinSent = FALSE /\ wanted = FALSE /\ timer = FALSE /\ page = NoPeer /\ tasks = {}
      /\ made = 0 /\ offered = {} /\ failed = FALSE /\ overtaken = FALSE
  BY DEF PageInit
<1>3. 0 \in 0..MaxPeers
  BY PageAssumption
<1>4. RestOK
  BY <1>2, <1>3 DEF RestOK
<1>5. GlobalsInv
  BY <1>2, <1>3 DEF GlobalsInv, Globals, NoPeer
<1>6. SocketsInv
  BY <1>2, RoomsAssumption DEF SocketsInv, PageInit, Init, Pages
<1>7. NewsInv /\ OffersInv
  BY <1>2 DEF NewsInv, OffersInv, Joined
<1> QED BY <1>1, <1>4, <1>5, <1>6, <1>7 DEF PageInv

LEMMA PageStep == PageInv /\ [PageNext]_viewerVars => PageInv'
<1> SUFFICES ASSUME PageInv, [PageNext]_viewerVars PROVE PageInv'
  OBVIOUS
<1>1. CASE connect
  BY <1>1, ConnectStep
<1>2. CASE onopen
  BY <1>2, OnopenStep
<1>3. CASE onclose
  BY <1>3, OncloseStep
<1>4. CASE disconnect
  BY <1>4, DisconnectStep
<1>5. CASE MasterGone
  BY <1>5, MasterGoneStep
<1>6. CASE MasterThere
  BY <1>6, MasterThereStep
<1>7. CASE StartPeerGoesOn
  BY <1>7, MicGrantedStep, MicDoneStep, OfferSentStep, OfferFailsStep DEF StartPeerGoesOn
<1>8. CASE PageConnection
  <2>1. PICK s \in Pages : (s = ws /\ Connect(s)) \/ Close(s)
    BY <1>8 DEF PageConnection
  <2>2. UNCHANGED pageVars /\ s # None
    BY <1>8, RoomsAssumption DEF PageConnection, Pages
  <2>3. CASE s = ws /\ Connect(s)
    BY <2>2, <2>3, AcceptedStep
  <2>4. CASE Close(s)
    BY <2>2, <2>4, LostStep
  <2> QED BY <2>1, <2>3, <2>4
<1>9. CASE OtherClient
  <2>1. PICK s \in Sockets \ Pages : ClientStep(s, Ids \ FreshIds)
    BY <1>9 DEF OtherClient
  <2>2. UNCHANGED pageVars
    BY <1>9 DEF OtherClient
  <2>3. /\ RoomsInv' /\ StepNews(s)
        /\ \A q \in Sockets : q # s => peer'[q] = peer[q] /\ conn'[q] \in {conn[q], "closing"}
    <3>1. PICK ids \in SUBSET Ids : ids = Ids \ FreshIds
      OBVIOUS
    <3> QED BY <2>1, <3>1, ClientKeeps DEF PageInv
  <2>4. s # ws /\ s \notin Pages
    BY RoomsAssumption DEF PageInv, RestOK
  <2> QED BY <2>2, <2>3, <2>4, OthersStep
<1>10. CASE UNCHANGED viewerVars
  <2>1. UNCHANGED <<roomVars, pageVars>>
    BY <1>10 DEF viewerVars
  <2>2. /\ ws' = ws /\ joinSent' = joinSent /\ wanted' = wanted /\ timer' = timer /\ page' = page
        /\ tasks' = tasks /\ made' = made /\ offered' = offered /\ failed' = failed
        /\ overtaken' = overtaken
    BY <2>1 DEF pageVars
  <2>3. GlobalsInv' /\ RestOK'
    BY <2>2 DEF PageInv, GlobalsInv, RestOK, Pages
  <2>4. /\ RoomsInv' /\ SocketsInv' /\ NewsInv' /\ (Joined' <=> Joined) /\ Master' = Master
    <3>1. UNCHANGED <<roomVars, ws, joinSent, wanted, timer>>
      BY <2>1, <2>2
    <3>2. page'.masterId = page.masterId /\ page'.pc = page.pc
      BY <2>2
    <3> QED BY ONLY <2>3, <3>1, <3>2, PageInv, TaskFrame
  <2>5. inbox' = inbox
    BY <2>1 DEF roomVars
  <2>6. OffersInv'
    BY <2>2, <2>4, <2>5 DEF PageInv, OffersInv, OfferComes
  <2> QED BY <2>3, <2>4, <2>6 DEF PageInv
<1> QED BY <1>1, <1>2, <1>3, <1>4, <1>5, <1>6, <1>7, <1>8, <1>9, <1>10 DEF PageNext

LEMMA PageInvariant == PageSpec => []PageInv
<1> QED BY InitPage, PageStep, PTL DEF PageSpec

-----------------------------------------------------------------------------
(* The variables of the server and of the page have their types            *)
(* (rooms.js, viewer.js).                                                  *)
THEOREM PageTypes == PageSpec => []PageTypeOK
  BY PageInvariant, PageIsTyped, PTL

(* The room table agrees with the sockets whatever was refused, replaced,  *)
(* closed late or lost (rooms.js:35-155, server.js:115-118).               *)
THEOREM TableIsConsistent == PageSpec => []RoomsConsistent
<1>1. PageInv => RoomsConsistent
  BY DEF PageInv, RoomsInv
<1> QED BY <1>1, PageInvariant, PTL

(* A client that has read its messages knows its room's master, and the    *)
(* master its viewers (rooms.js:67-87,107-120,136-150).                    *)
THEOREM ClientsKnowTheRoom == PageSpec => []ViewsAgree
<1>1. PageInv => ViewsAgree
  BY DEF PageInv, RoomsInv
<1> QED BY <1>1, PageInvariant, PTL

(* A page at rest has sent its offer to the room's camera, and has no peer *)
(* in a room without one (viewer.js:274-300,346-347,461-470,512-532).      *)
THEOREM CameraIsMet == PageSpec => []PageMeetsCamera
<1>1. ASSUME PageInv, PageAtRest
      PROVE  LET camera == rooms[PageRoom].master
             IN  IF camera = None THEN page.pc = 0
                 ELSE conn[camera] = "open" /\ ~failed => page.pc # 0 /\ camera \in offered
  <2>1. Joined /\ inbox[ws] = <<>> /\ tasks = {}
    BY <1>1 DEF PageAtRest, Joined
  <2>2. page.masterId = MasterNow
    BY <1>1, <2>1 DEF PageInv, NewsInv, EndsWith
  <2>3. /\ MasterNow = IF Master = None THEN None ELSE peer[Master].id
        /\ Master # None => peer[Master].id \in Ids
    BY <1>1, <2>1, JoinedPage DEF PageInv
  <2>4. /\ page.pc # 0 => page.masterId # None
        /\ ~failed => (page.masterId # None => page.pc # 0)
    BY <1>1 DEF PageInv, GlobalsInv
  <2>5. NobodyLeft(inbox[ws])
    BY <2>1 DEF NobodyLeft
  <2>6. page.pc # 0 /\ ~failed => Master \in offered
    BY <1>1, <2>1, <2>5 DEF PageInv, OffersInv, OfferComes
  <2> QED BY <2>2, <2>3, <2>4, <2>6, RoomsAssumption DEF Master
<1>2. PageInv => PageMeetsCamera
  BY <1>1 DEF PageMeetsCamera
<1> QED BY <1>2, PageInvariant, PTL

(* Until a startPeer fails the page loses no peer connection, and no       *)
(* microphone unless one went on after its peer had been closed            *)
(* (viewer.js:274-300,461-489).                                            *)
THEOREM PageLosesNothing == PageSpec => []PageKeepsHold
<1>1. PageInv => PageKeepsHold
  BY DEF PageInv, GlobalsInv, RestOK, PageKeepsHold
<1> QED BY <1>1, PageInvariant, PTL
=============================================================================
