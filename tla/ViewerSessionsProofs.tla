------------------------ MODULE ViewerSessionsProofs ------------------------
(***************************************************************************)
(* The viewer sessions, for any number of viewers, peers and reports and   *)
(* any limits: who is fed, who owns a running peer, whose reports count,   *)
(* and what stop leaves behind.                                            *)
(***************************************************************************)
EXTENDS ViewerSessions, FiniteSetTheorems, TLAPS

(* What the plugin holds in the media source, at each place of a handler.  *)
SubscriptionsInv ==
    /\ SessionsAreFed
    /\ job.at \in {"subscribe", "keep"} => ~video_sub
    /\ job.at \in {"start_peer", "add"} => video_sub
    /\ job.at \in {"ai_subscribe", "ai_keep"} => ~ai_hold_sub /\ connected # {}
    /\ ai_hold_sub => connected # {}
    /\ job.at \notin {"ai_subscribe", "ai_keep"} /\ running /\ ~aiRefused /\ connected # {}
          => ai_hold_sub
    /\ job.at \notin {"start_peer", "add"} /\ Sessions = {} /\ video_sub => stranded

(* Who owns the peers, at each place of a handler.                         *)
OwnersInv ==
    /\ \A v \in Viewers : viewers[v] # 0 => peer[viewers[v]] = "live"
    /\ \A v, w \in Viewers : viewers[v] # 0 /\ viewers[v] = viewers[w] => v = w
    /\ \A p \in Peers :
          peer[p] = "live" => (\E v \in Viewers : viewers[v] = p)
                              \/ (job.at = "add" /\ job.peer = p)
    /\ job.at \in {"subscribe", "keep", "start_peer", "add"} => viewers[job.viewer] = 0
    /\ job.at = "add" =>
          peer[job.peer] = "live" /\ \A v \in Viewers : viewers[v] # job.peer
    /\ job.at = "offer" => viewers[job.viewer] = job.peer

(* A callback or a task carries what the SDK has reported, and a peer is   *)
(* not freed under its callbacks.                                          *)
ReportsInv ==
    /\ ConnectedByOwnPeer
    /\ \A c \in callbacks : c.state \in raised[c.peer] /\ peer[c.peer] \in {"live", "reaping"}
    /\ \A i \in 1..Len(tasks) : tasks[i] \in Event => tasks[i].state \in raised[tasks[i].peer]

(* stop's tasks are posted one at a time, each once; from the first on     *)
(* there are no sessions, and the poller has no handler under way.         *)
StopInv ==
    /\ running <=> stopping = "no"
    /\ stopping \in {"removed", "fencing", "fenced", "stopped"} => Sessions = {} /\ Free
    /\ stopping = "stopped" => \A p \in Peers : peer[p] \in {"none", "freed"}
    /\ \A i \in 1..Len(tasks) : tasks[i] = [sync |-> "remove_all_viewers"] => stopping = "removing"
    /\ \A i \in 1..Len(tasks) : tasks[i] = [sync |-> "fence"] => stopping = "fencing"
    /\ \A i, j \in 1..Len(tasks) : tasks[i] = tasks[j] /\ tasks[i] \in SyncTask => i = j

Inv == TypeOK /\ SubscriptionsInv /\ OwnersInv /\ ReportsInv /\ StopInv

-----------------------------------------------------------------------------
(* The record a handler keeps tells by its place which fields it has. *)
LEMMA JobShape ==
  ASSUME TypeOK
  PROVE  /\ job.at = "idle" <=> Free
         /\ job.at \in {"subscribe", "keep", "start_peer"} =>
               job \in [at : {"subscribe", "keep", "start_peer"}, viewer : Viewers]
         /\ job.at \in {"add", "offer"} =>
               job \in [at : {"add", "offer"}, viewer : Viewers, peer : Peers]
         /\ job.at \in {"idle", "subscribe", "keep", "start_peer", "add", "offer",
                        "ai_subscribe", "ai_keep"}
<1>1. job \in {Idle} \cup [at : {"subscribe", "keep", "start_peer"}, viewer : Viewers]
             \cup [at : {"add", "offer"}, viewer : Viewers, peer : Peers]
             \cup [at : {"ai_subscribe", "ai_keep"}]
  BY DEF TypeOK
<1>2. CASE job = Idle
  BY <1>2 DEF Idle, Free
<1>3. CASE job \in [at : {"subscribe", "keep", "start_peer"}, viewer : Viewers]
  BY <1>3 DEF Idle, Free
<1>4. CASE job \in [at : {"add", "offer"}, viewer : Viewers, peer : Peers]
  BY <1>4 DEF Idle, Free
<1>5. CASE job \in [at : {"ai_subscribe", "ai_keep"}]
  BY <1>5 DEF Idle, Free
<1> QED BY <1>1, <1>2, <1>3, <1>4, <1>5

LEMMA SyncIsNoEvent == \A e \in Event : e # [sync |-> "remove_all_viewers"] /\ e # [sync |-> "fence"]
  BY DEF Event

(* Tasks: one is taken from the front, one is put at the back. *)
LEMMA TailElement ==
  ASSUME NEW S, NEW q \in Seq(S), q # <<>>
  PROVE  /\ Tail(q) \in Seq(S) /\ Head(q) = q[1] /\ 1 \in 1..Len(q)
         /\ \A i \in 1..Len(Tail(q)) : i + 1 \in 1..Len(q) /\ Tail(q)[i] = q[i + 1] /\ i + 1 # 1
  OBVIOUS

LEMMA AppendElement ==
  ASSUME NEW S, NEW q \in Seq(S), NEW x \in S
  PROVE  /\ Append(q, x) \in Seq(S)
         /\ \A i \in 1..Len(Append(q, x)) :
               \/ i \in 1..Len(q) /\ Append(q, x)[i] = q[i]
               \/ i = Len(q) + 1 /\ Append(q, x)[i] = x
  OBVIOUS

LEMMA TaskTaken ==
  ASSUME Inv, NEW t, NextTask(t), raised' = raised
  PROVE  /\ tasks' \in Seq(Event \cup SyncTask)
         /\ \A i \in 1..Len(tasks') :
               tasks'[i] \in Event => tasks'[i].state \in raised'[tasks'[i].peer]
         /\ \A i, j \in 1..Len(tasks') : tasks'[i] = tasks'[j] /\ tasks'[i] \in SyncTask => i = j
         /\ \A i \in 1..Len(tasks') :
               tasks'[i] = [sync |-> "remove_all_viewers"] => stopping = "removing" /\ t # tasks'[i]
         /\ \A i \in 1..Len(tasks') :
               tasks'[i] = [sync |-> "fence"] => stopping = "fencing" /\ t # tasks'[i]
         /\ t \in Event => t.state \in raised[t.peer]
         /\ t = [sync |-> "remove_all_viewers"] => stopping = "removing"
         /\ t = [sync |-> "fence"] => stopping = "fencing"
<1>1. tasks \in Seq(Event \cup SyncTask) /\ tasks # <<>> /\ t = Head(tasks) /\ tasks' = Tail(tasks)
  BY DEF Inv, TypeOK, NextTask
<1>2. /\ tasks' \in Seq(Event \cup SyncTask) /\ t = tasks[1] /\ 1 \in 1..Len(tasks)
      /\ \A i \in 1..Len(tasks') :
            i + 1 \in 1..Len(tasks) /\ tasks'[i] = tasks[i + 1] /\ i + 1 # 1
  BY <1>1, TailElement
<1>3. \A i, j \in 1..Len(tasks) : tasks[i] = tasks[j] /\ tasks[i] \in SyncTask => i = j
  BY DEF Inv, StopInv
<1>4. \A i \in 1..Len(tasks) :
         /\ tasks[i] \in Event => tasks[i].state \in raised[tasks[i].peer]
         /\ tasks[i] = [sync |-> "remove_all_viewers"] => stopping = "removing"
         /\ tasks[i] = [sync |-> "fence"] => stopping = "fencing"
  BY DEF Inv, ReportsInv, StopInv
<1>5. \A i \in 1..Len(tasks') :
         tasks'[i] \in Event => tasks'[i].state \in raised'[tasks'[i].peer]
  BY <1>2, <1>4
<1>6. ASSUME NEW i \in 1..Len(tasks'), NEW j \in 1..Len(tasks'), tasks'[i] = tasks'[j],
             tasks'[i] \in SyncTask
      PROVE  i = j
  <2>1. i + 1 = j + 1
    BY <1>2, <1>3, <1>6
  <2> QED BY <2>1
<1>7. ASSUME NEW i \in 1..Len(tasks'), tasks'[i] \in SyncTask PROVE t # tasks'[i]
  BY <1>2, <1>3, <1>7
<1>8. [sync |-> "remove_all_viewers"] \in SyncTask /\ [sync |-> "fence"] \in SyncTask
  BY DEF SyncTask
<1>9. /\ \A i \in 1..Len(tasks') : tasks'[i] = [sync |-> "remove_all_viewers"] => stopping = "removing"
      /\ \A i \in 1..Len(tasks') : tasks'[i] = [sync |-> "fence"] => stopping = "fencing"
  BY <1>2, <1>4
<1>10. /\ t \in Event => t.state \in raised[t.peer]
       /\ t = [sync |-> "remove_all_viewers"] => stopping = "removing"
       /\ t = [sync |-> "fence"] => stopping = "fencing"
  BY <1>2, <1>4
<1> QED BY <1>2, <1>5, <1>6, <1>7, <1>8, <1>9, <1>10

-----------------------------------------------------------------------------
(* remove_viewer: the last connected session takes the AI subscription     *)
(* with it, the last session the preview.                                  *)
LEMMA RemoveEffect ==
  ASSUME TypeOK, NEW vs \in SUBSET Viewers, remove_viewer(vs)
  PROVE  /\ viewers' = [v \in Viewers |-> IF v \in vs THEN 0 ELSE viewers[v]]
         /\ viewers' \in [Viewers -> Peers \cup {0}]
         /\ Sessions' = Sessions \ vs
         /\ connected' = connected \ vs /\ connected' \subseteq Sessions'
         /\ ready' \subseteq Sessions'
         /\ pending_candidates' \in [Viewers -> 0..PendingLimit]
         /\ ai_hold_sub' \in BOOLEAN /\ video_sub' \in BOOLEAN
         /\ ai_hold_sub' => ai_hold_sub
         /\ ai_hold_sub /\ connected' # {} => ai_hold_sub'
         /\ ai_hold_sub' => connected' # {} \/ connected = {}
         /\ video_sub' => video_sub
         /\ video_sub /\ Sessions' # {} => video_sub'
         /\ video_sub' /\ Sessions' = {} => Sessions = {}
         /\ holds' = IF ai_hold_sub /\ ~ai_hold_sub' THEN holds - 1 ELSE holds
         /\ uplinks' = IF video_sub /\ ~video_sub' THEN uplinks - 1 ELSE uplinks
<1> DEFINE gone == vs \cap Sessions
           lastConnected == gone # {} /\ connected \ vs = {}
           last == gone # {} /\ Sessions \ vs = {}
           ai == ai_hold_sub /\ ~lastConnected
           video == video_sub /\ ~last
<1>1. Erase(vs, ai, video)
  BY DEF remove_viewer
<1>2. /\ viewers \in [Viewers -> Peers \cup {0}] /\ connected \subseteq Sessions
      /\ ready \subseteq Sessions /\ pending_candidates \in [Viewers -> 0..PendingLimit]
      /\ PendingLimit \in Nat
  BY SessionsAssumption DEF TypeOK
<1>3. viewers' = [v \in Viewers |-> IF v \in vs THEN 0 ELSE viewers[v]]
  BY <1>1 DEF Erase
<1>4. viewers' \in [Viewers -> Peers \cup {0}]
  BY <1>2, <1>3
<1>5. Sessions' = Sessions \ vs
  BY <1>2, <1>3 DEF Sessions
<1>6. connected' = connected \ vs /\ connected' \subseteq Sessions' /\ ready' \subseteq Sessions'
  BY <1>1, <1>2, <1>5 DEF Erase
<1>7. pending_candidates' \in [Viewers -> 0..PendingLimit]
  <2>1. pending_candidates' =
          [v \in Viewers |-> IF v \in vs \cap Sessions THEN 0 ELSE pending_candidates[v]]
    BY <1>1 DEF Erase
  <2>2. 0 \in 0..PendingLimit
    BY <1>2
  <2> QED BY <1>2, <2>1, <2>2
<1>8. ai_hold_sub' = ai /\ video_sub' = video
  BY <1>1 DEF Erase
<1>9. holds' = IF ai_hold_sub /\ ~ai THEN holds - 1 ELSE holds
  BY <1>1 DEF Erase
<1>10. uplinks' = IF video_sub /\ ~video THEN uplinks - 1 ELSE uplinks
  BY <1>1 DEF Erase
<1>11. ai_hold_sub' \in BOOLEAN /\ video_sub' \in BOOLEAN
  BY <1>8
<1>12. gone = {} => connected' = connected /\ Sessions' = Sessions
  BY <1>2, <1>5, <1>6
<1>13. lastConnected <=> gone # {} /\ connected' = {}
  BY <1>6
<1>14. last <=> gone # {} /\ Sessions' = {}
  BY <1>5
<1> HIDE DEF gone, lastConnected, last
<1>15. /\ ai_hold_sub' => ai_hold_sub
       /\ ai_hold_sub /\ connected' # {} => ai_hold_sub'
       /\ ai_hold_sub' => connected' # {} \/ connected = {}
  BY <1>8, <1>12, <1>13
<1>16. /\ video_sub' => video_sub
       /\ video_sub /\ Sessions' # {} => video_sub'
       /\ video_sub' /\ Sessions' = {} => Sessions = {}
  BY <1>8, <1>12, <1>14
<1>17. holds' = IF ai_hold_sub /\ ~ai_hold_sub' THEN holds - 1 ELSE holds
  BY <1>8, <1>9
<1>18. uplinks' = IF video_sub /\ ~video_sub' THEN uplinks - 1 ELSE uplinks
  BY <1>8, <1>10
<1> QED
  BY <1>3, <1>4, <1>5, <1>6, <1>7, <1>11, <1>15, <1>16, <1>17, <1>18

(* A removal by a handler that is not about to take a subscription leaves   *)
(* the invariant true, whether the poller is free afterwards or goes on     *)
(* with an offer of a viewer that was removed.                              *)
LEMMA RemoveKeeps ==
  ASSUME Inv, NEW vs \in SUBSET Viewers, remove_viewer(vs), queue_reap(PeersOf(vs)),
         job.at \in {"idle", "offer"},
         UNCHANGED <<running, callbacks, raised, stranded, aiRefused>>,
         job' = Idle
           \/ \E v \in vs, a \in {"subscribe", "start_peer"} :
                 job' = [at |-> a, viewer |-> v] /\ (a = "start_peer" <=> video_sub'),
         tasks' \in Seq(Event \cup SyncTask),
         \A i \in 1..Len(tasks') :
            tasks'[i] \in Event => tasks'[i].state \in raised'[tasks'[i].peer],
         stopping' \in {"no", "begun", "removing", "removed", "fencing", "fenced", "stopped"}
  PROVE  TypeOK' /\ SubscriptionsInv' /\ OwnersInv' /\ ReportsInv'
<1>0. TypeOK /\ SubscriptionsInv /\ OwnersInv /\ ReportsInv
  BY DEF Inv
<1>1. /\ viewers' = [v \in Viewers |-> IF v \in vs THEN 0 ELSE viewers[v]]
      /\ viewers' \in [Viewers -> Peers \cup {0}]
      /\ Sessions' = Sessions \ vs
      /\ connected' = connected \ vs /\ connected' \subseteq Sessions'
      /\ ready' \subseteq Sessions'
      /\ pending_candidates' \in [Viewers -> 0..PendingLimit]
      /\ ai_hold_sub' \in BOOLEAN /\ video_sub' \in BOOLEAN
  BY <1>0, RemoveEffect
<1>2. /\ ai_hold_sub' => ai_hold_sub
      /\ ai_hold_sub /\ connected' # {} => ai_hold_sub'
      /\ ai_hold_sub' => connected' # {} \/ connected = {}
      /\ video_sub' => video_sub
      /\ video_sub /\ Sessions' # {} => video_sub'
      /\ video_sub' /\ Sessions' = {} => Sessions = {}
  BY <1>0, RemoveEffect
<1>3. /\ holds' = IF ai_hold_sub /\ ~ai_hold_sub' THEN holds - 1 ELSE holds
      /\ uplinks' = IF video_sub /\ ~video_sub' THEN uplinks - 1 ELSE uplinks
  BY <1>0, RemoveEffect
<1>4. /\ job'.at \in {"idle", "subscribe", "start_peer"}
      /\ job'.at = "subscribe" => ~video_sub'
      /\ job'.at = "start_peer" => video_sub'
      /\ job'.at # "idle" => job'.viewer \in vs
  BY DEF Idle
<1>5. job' \in {Idle} \cup [at : {"subscribe", "keep", "start_peer"}, viewer : Viewers]
               \cup [at : {"add", "offer"}, viewer : Viewers, peer : Peers]
               \cup [at : {"ai_subscribe", "ai_keep"}]
  <2>1. CASE job' = Idle
    BY <2>1
  <2>2. CASE \E v \in vs, a \in {"subscribe", "start_peer"} : job' = [at |-> a, viewer |-> v]
    <3>1. job' \in [at : {"subscribe", "keep", "start_peer"}, viewer : Viewers]
      BY <2>2
    <3> QED BY <3>1
  <2> QED BY <2>1, <2>2
<1>6. /\ Sessions # {} => video_sub
      /\ uplinks = IF video_sub THEN 1 ELSE 0
      /\ holds = IF ai_hold_sub THEN 1 ELSE 0
      /\ ai_hold_sub => connected # {}
      /\ running /\ ~aiRefused /\ connected # {} => ai_hold_sub
      /\ Sessions = {} /\ video_sub => stranded
  BY <1>0 DEF SubscriptionsInv, SessionsAreFed
<1>7. /\ uplinks' = IF video_sub' THEN 1 ELSE 0
      /\ holds' = IF ai_hold_sub' THEN 1 ELSE 0
  BY <1>2, <1>3, <1>6
<1>8. SubscriptionsInv'
  <2>1. SessionsAreFed'
    BY <1>1, <1>2, <1>4, <1>6, <1>7 DEF SessionsAreFed
  <2>2. connected' # {} => connected # {}
    BY <1>1
  <2>3. ai_hold_sub' => connected' # {}
    BY <1>2, <1>6
  <2>4. running' /\ ~aiRefused' /\ connected' # {} => ai_hold_sub'
    BY <1>2, <1>6, <2>2
  <2>5. Sessions' = {} /\ video_sub' => stranded'
    BY <1>2, <1>6
  <2> QED BY <1>4, <2>1, <2>3, <2>4, <2>5 DEF SubscriptionsInv
<1>9. peer' = [p \in Peers |-> IF p \in PeersOf(vs) THEN "reaping" ELSE peer[p]]
  BY DEF queue_reap
<1>10. /\ viewers \in [Viewers -> Peers \cup {0}] /\ connected \subseteq Sessions
       /\ callbacks \subseteq Callback
       /\ peer \in [Peers -> {"none", "live", "reaping", "freed"}]
       /\ \A p \in Peers : p # 0
  BY <1>0, SessionsAssumption DEF TypeOK, Peers
<1>11. OwnersInv'
  <2>1. ASSUME NEW v \in Viewers, viewers'[v] # 0 PROVE peer'[viewers'[v]] = "live"
    <3>1. v \notin vs /\ viewers'[v] = viewers[v] /\ viewers[v] \in Peers
      BY <1>1, <1>10, <2>1
    <3>2. viewers[v] \notin PeersOf(vs)
      BY <3>1, <1>0, <2>1 DEF PeersOf, Sessions, OwnersInv
    <3> QED BY <3>1, <3>2, <1>0, <1>9, <2>1 DEF OwnersInv
  <2>2. ASSUME NEW v \in Viewers, NEW w \in Viewers, viewers'[v] # 0, viewers'[v] = viewers'[w]
        PROVE  v = w
    BY <2>2, <1>0, <1>1 DEF OwnersInv
  <2>3. ASSUME NEW p \in Peers, peer'[p] = "live" PROVE \E v \in Viewers : viewers'[v] = p
    <3>1. p \notin PeersOf(vs) /\ peer[p] = "live"
      BY <1>9, <2>3
    <3>2. PICK v \in Viewers : viewers[v] = p
      BY <3>1, <1>0 DEF OwnersInv
    <3>3. v \notin vs
      BY <3>1, <3>2, <1>10 DEF PeersOf, Sessions
    <3> QED BY <3>2, <3>3, <1>1
  <2>4. job'.at # "idle" => viewers'[job'.viewer] = 0
    BY <1>1, <1>4
  <2> QED BY <1>4, <2>1, <2>2, <2>3, <2>4 DEF OwnersInv
<1>12. ReportsInv'
  <2>1. ConnectedByOwnPeer'
    BY <1>0, <1>1, <1>10 DEF ConnectedByOwnPeer, ReportsInv, Sessions
  <2>2. ASSUME NEW c \in callbacks'
        PROVE  c.state \in raised'[c.peer] /\ peer'[c.peer] \in {"live", "reaping"}
    <3>1. c \in callbacks /\ c.peer \in Peers
      BY <1>10 DEF Callback
    <3>2. c.state \in raised[c.peer] /\ peer[c.peer] \in {"live", "reaping"}
      BY <3>1, <1>0 DEF ReportsInv
    <3> QED BY <3>1, <3>2, <1>9
  <2> QED BY <2>1, <2>2 DEF ReportsInv
<1>13. TypeOK'
  <2>1. peer' \in [Peers -> {"none", "live", "reaping", "freed"}]
    BY <1>9, <1>10
  <2>2. uplinks' \in 0..1 /\ holds' \in 0..1
    BY <1>7
  <2>3. /\ running' \in BOOLEAN /\ callbacks' \subseteq Callback
        /\ raised' \in [Peers -> SUBSET States] /\ stranded' \in BOOLEAN /\ aiRefused' \in BOOLEAN
    BY <1>0 DEF TypeOK
  <2> QED BY <1>1, <1>5, <2>1, <2>2, <2>3 DEF TypeOK
<1> QED BY <1>8, <1>11, <1>12, <1>13

(* While the plugin runs, and while the poller has a handler under way,    *)
(* stop has not come past its first task.                                  *)
LEMMA StopUntouched ==
  ASSUME Inv, UNCHANGED <<running, stopping, tasks>>, running \/ ~Free
  PROVE  StopInv'
<1>1. stopping \notin {"removed", "fencing", "fenced", "stopped"}
  BY DEF Inv, StopInv
<1> QED BY <1>1 DEF Inv, StopInv

LEMMA TasksUntouched ==
  ASSUME Inv, UNCHANGED <<tasks, raised>>
  PROVE  /\ tasks' \in Seq(Event \cup SyncTask)
         /\ \A i \in 1..Len(tasks') :
               tasks'[i] \in Event => tasks'[i].state \in raised'[tasks'[i].peer]
  BY DEF Inv, TypeOK, ReportsInv

LEMMA StoppingTyped ==
  ASSUME Inv
  PROVE  stopping \in {"no", "begun", "removing", "removed", "fencing", "fenced", "stopped"}
  BY DEF Inv, TypeOK

-----------------------------------------------------------------------------
(* The handlers that remove sessions.                                      *)

LEMMA OfferStep ==
  ASSUME Inv, NEW v \in Viewers, Offer(v)
  PROVE  Inv'
<1>1. /\ Free /\ running /\ remove_viewer({v}) /\ queue_reap(PeersOf({v}))
      /\ UNCHANGED <<running, stopping, tasks, callbacks, raised, stranded, aiRefused>>
  BY DEF Offer, Quiet
<1>2. job.at \in {"idle", "offer"} /\ {v} \in SUBSET Viewers
  BY <1>1, JobShape DEF Inv
<1>3. \/ job' = Idle
      \/ job' = [at |-> IF video_sub' THEN "start_peer" ELSE "subscribe", viewer |-> v]
  BY DEF Offer
<1>4. \/ job' = Idle
      \/ \E w \in {v}, a \in {"subscribe", "start_peer"} :
            job' = [at |-> a, viewer |-> w] /\ (a = "start_peer" <=> video_sub')
  <2>1. CASE job' = Idle
    BY <2>1
  <2>2. CASE video_sub' /\ job' = [at |-> "start_peer", viewer |-> v]
    BY <2>2
  <2>3. CASE ~video_sub' /\ job' = [at |-> "subscribe", viewer |-> v]
    BY <2>3
  <2> QED BY <1>3, <2>1, <2>2, <2>3
<1>5. TypeOK' /\ SubscriptionsInv' /\ OwnersInv' /\ ReportsInv'
  BY <1>1, <1>2, <1>4, RemoveKeeps, TasksUntouched, StoppingTyped
<1>6. StopInv'
  BY <1>1, StopUntouched
<1> QED BY <1>5, <1>6 DEF Inv

LEMMA PeerLeftStep ==
  ASSUME Inv, NEW v \in Viewers, PeerLeft(v)
  PROVE  Inv'
<1>1. /\ Free /\ running /\ remove_viewer({v}) /\ queue_reap(PeersOf({v}))
      /\ UNCHANGED <<running, stopping, tasks, callbacks, raised, stranded, aiRefused>>
      /\ job' = Idle
  BY DEF PeerLeft, Quiet, Free
<1>2. job.at \in {"idle", "offer"} /\ {v} \in SUBSET Viewers
  BY <1>1, JobShape DEF Inv
<1>3. TypeOK' /\ SubscriptionsInv' /\ OwnersInv' /\ ReportsInv'
  BY <1>1, <1>2, RemoveKeeps, TasksUntouched, StoppingTyped
<1>4. StopInv'
  BY <1>1, StopUntouched
<1> QED BY <1>3, <1>4 DEF Inv

LEMMA SignalingLostStep ==
  ASSUME Inv, SignalingLost
  PROVE  Inv'
<1>1. /\ Free /\ running /\ remove_viewer(Viewers) /\ queue_reap(PeersOf(Viewers))
      /\ UNCHANGED <<running, stopping, tasks, callbacks, raised, stranded, aiRefused>>
      /\ job' = Idle
  BY DEF SignalingLost, Quiet, Free
<1>2. job.at \in {"idle", "offer"} /\ Viewers \in SUBSET Viewers
  BY <1>1, JobShape DEF Inv
<1>3. TypeOK' /\ SubscriptionsInv' /\ OwnersInv' /\ ReportsInv'
  BY <1>1, <1>2, RemoveKeeps, TasksUntouched, StoppingTyped
<1>4. StopInv'
  BY <1>1, StopUntouched
<1> QED BY <1>3, <1>4 DEF Inv

LEMMA DownTaskStep ==
  ASSUME Inv, DownTask
  PROVE  Inv'
<1>1. PICK e \in Event :
        /\ NextTask(e)
        /\ IF Locked(e.peer)
           THEN remove_viewer({e.viewer}) /\ queue_reap(PeersOf({e.viewer}))
           ELSE UNCHANGED <<viewers, connected, ready, pending_candidates, video_sub,
                            ai_hold_sub, uplinks, holds, peer>>
        /\ UNCHANGED <<job, stranded, aiRefused>>
        /\ Quiet
  BY DEF DownTask
<1>2. UNCHANGED <<running, stopping, callbacks, raised, job, stranded, aiRefused>>
  BY <1>1 DEF Quiet
<1>3. job = Idle /\ job' = Idle /\ job.at \in {"idle", "offer"} /\ {e.viewer} \in SUBSET Viewers
  BY <1>1, <1>2, JobShape DEF Inv, NextTask, Free, Event
<1>4. /\ tasks' \in Seq(Event \cup SyncTask)
      /\ \A i \in 1..Len(tasks') :
            tasks'[i] \in Event => tasks'[i].state \in raised'[tasks'[i].peer]
      /\ \A i, j \in 1..Len(tasks') : tasks'[i] = tasks'[j] /\ tasks'[i] \in SyncTask => i = j
      /\ \A i \in 1..Len(tasks') :
            tasks'[i] = [sync |-> "remove_all_viewers"] => stopping = "removing"
      /\ \A i \in 1..Len(tasks') : tasks'[i] = [sync |-> "fence"] => stopping = "fencing"
  BY <1>1, <1>2, TaskTaken
<1>5. CASE Locked(e.peer)
  <2>1. remove_viewer({e.viewer}) /\ queue_reap(PeersOf({e.viewer}))
    BY <1>1, <1>5
  <2>2. TypeOK' /\ SubscriptionsInv' /\ OwnersInv' /\ ReportsInv'
    BY <2>1, <1>2, <1>3, <1>4, RemoveKeeps, StoppingTyped
  <2>3. Sessions' \subseteq Sessions
    BY <2>1, <1>3, RemoveEffect DEF Inv
  <2>4. stopping = "stopped" => peer' = peer
    <3>1. Sessions = {} => PeersOf({e.viewer}) = {}
      BY DEF PeersOf
    <3>2. PeersOf({e.viewer}) = {} => peer' = peer
      BY <2>1 DEF queue_reap, Inv, TypeOK
    <3> QED BY <3>1, <3>2 DEF Inv, StopInv
  <2>5. StopInv'
    BY <1>2, <1>3, <1>4, <2>3, <2>4 DEF StopInv, Inv, Free
  <2> QED BY <2>2, <2>5 DEF Inv
<1>6. CASE ~Locked(e.peer)
  <2>1. UNCHANGED <<viewers, connected, ready, pending_candidates, video_sub,
                    ai_hold_sub, uplinks, holds, peer>>
    BY <1>1, <1>6
  <2>2. Sessions' = Sessions
    BY <2>1 DEF Sessions
  <2>3. TypeOK'
    BY <1>2, <1>4, <2>1, <2>2 DEF TypeOK, Inv
  <2>4. SubscriptionsInv'
    BY <1>2, <2>1, <2>2 DEF SubscriptionsInv, SessionsAreFed, Inv
  <2>5. OwnersInv'
    BY <1>2, <2>1 DEF OwnersInv, Inv
  <2>6. ReportsInv'
    BY <1>2, <1>4, <2>1 DEF ReportsInv, ConnectedByOwnPeer, Inv
  <2>7. StopInv'
    BY <1>2, <1>3, <1>4, <2>1, <2>2 DEF StopInv, Inv, Free
  <2> QED BY <2>3, <2>4, <2>5, <2>6, <2>7 DEF Inv
<1> QED BY <1>5, <1>6

LEMMA RemoveAllTaskStep ==
  ASSUME Inv, RemoveAllTask
  PROVE  Inv'
<1> DEFINE t == [sync |-> "remove_all_viewers"]
<1>1. /\ NextTask(t) /\ remove_viewer(Viewers) /\ queue_reap(PeersOf(Viewers))
      /\ stopping' = "removed"
      /\ UNCHANGED <<running, job, callbacks, raised, stranded, aiRefused>>
  BY DEF RemoveAllTask
<1>2. job = Idle /\ job' = Idle /\ job.at \in {"idle", "offer"} /\ Viewers \in SUBSET Viewers
  BY <1>1, JobShape DEF Inv, NextTask, Free
<1>3. /\ tasks' \in Seq(Event \cup SyncTask)
      /\ \A i \in 1..Len(tasks') :
            tasks'[i] \in Event => tasks'[i].state \in raised'[tasks'[i].peer]
      /\ \A i, j \in 1..Len(tasks') : tasks'[i] = tasks'[j] /\ tasks'[i] \in SyncTask => i = j
      /\ \A i \in 1..Len(tasks') : tasks'[i] # t
      /\ \A i \in 1..Len(tasks') : tasks'[i] = [sync |-> "fence"] => stopping = "fencing"
      /\ stopping = "removing"
  BY <1>1, TaskTaken
<1>4. TypeOK' /\ SubscriptionsInv' /\ OwnersInv' /\ ReportsInv'
  BY <1>1, <1>2, <1>3, RemoveKeeps
<1>5. Sessions' = {}
  <2>1. Sessions' = Sessions \ Viewers
    BY <1>1, <1>2, RemoveEffect DEF Inv
  <2> QED BY <2>1 DEF Sessions
<1>6. StopInv'
  BY <1>1, <1>2, <1>3, <1>5 DEF StopInv, Inv, Free
<1> QED BY <1>4, <1>6 DEF Inv

LEMMA RemoteOfferStep ==
  ASSUME Inv, NEW ok \in BOOLEAN, RemoteOffer(ok)
  PROVE  Inv'
<1>1. /\ job.at = "offer" /\ job' = Idle
      /\ UNCHANGED <<running, stopping, tasks, callbacks, raised, stranded, aiRefused>>
  BY DEF RemoteOffer, Quiet
<1>2. /\ job.viewer \in Viewers /\ job.peer \in Peers /\ viewers[job.viewer] = job.peer /\ ~Free
      /\ job'.at = "idle"
  BY <1>1, JobShape DEF Inv, OwnersInv, Idle
<1>3. StopInv'
  BY <1>1, <1>2, StopUntouched
<1>4. CASE ~ok
  <2>1. remove_viewer({job.viewer}) /\ queue_reap(PeersOf({job.viewer}))
    BY <1>4 DEF RemoteOffer
  <2>2. {job.viewer} \in SUBSET Viewers /\ job.at \in {"idle", "offer"}
    BY <1>1, <1>2
  <2>3. TypeOK' /\ SubscriptionsInv' /\ OwnersInv' /\ ReportsInv'
    BY <1>1, <2>1, <2>2, RemoveKeeps, TasksUntouched, StoppingTyped
  <2> QED BY <1>3, <2>3 DEF Inv
<1>5. CASE ok
  <2>1. /\ ready' = ready \cup {job.viewer}
        /\ pending_candidates' = [pending_candidates EXCEPT ![job.viewer] = 0]
        /\ UNCHANGED <<viewers, connected, video_sub, ai_hold_sub, uplinks, holds, peer>>
    BY <1>5 DEF RemoteOffer
  <2>2. Sessions' = Sessions
    BY <2>1 DEF Sessions
  <2>3. TypeOK'
    <3>1. job.viewer \in Sessions
      BY <1>2 DEF Sessions, Peers
    <3>2. pending_candidates' \in [Viewers -> 0..PendingLimit]
      <4>1. 0 \in 0..PendingLimit
        BY SessionsAssumption
      <4> QED BY <1>2, <2>1, <4>1 DEF Inv, TypeOK
    <3>3. ready' \subseteq Sessions' /\ connected' \subseteq Sessions'
      BY <2>1, <2>2, <3>1 DEF Inv, TypeOK
    <3>4. job' \in {Idle}
      BY <1>1
    <3> QED BY <1>1, <2>1, <3>2, <3>3, <3>4 DEF Inv, TypeOK
  <2>4. SubscriptionsInv'
    BY <1>1, <1>2, <2>1, <2>2 DEF SubscriptionsInv, SessionsAreFed, Inv
  <2>5. OwnersInv'
    BY <1>1, <1>2, <2>1 DEF OwnersInv, Inv
  <2>6. ReportsInv'
    BY <1>1, <2>1 DEF ReportsInv, ConnectedByOwnPeer, Inv
  <2> QED BY <1>3, <2>3, <2>4, <2>5, <2>6 DEF Inv
<1> QED BY <1>4, <1>5

-----------------------------------------------------------------------------
(* The other parts of create_viewer.                                       *)

LEMMA UplinkSubscribeStep ==
  ASSUME Inv, NEW ok \in BOOLEAN, UplinkSubscribe(ok)
  PROVE  Inv'
<1>1. /\ job.at = "subscribe"
      /\ uplinks' = IF ok THEN uplinks + 1 ELSE uplinks
      /\ job' = IF ok THEN [job EXCEPT !.at = "keep"] ELSE Idle
      /\ UNCHANGED <<viewers, connected, ready, pending_candidates, video_sub, ai_hold_sub,
                     holds, tasks, peer, stranded, aiRefused, running, stopping, callbacks,
                     raised>>
  BY DEF UplinkSubscribe, Quiet
<1>2. job \in [at : {"subscribe", "keep", "start_peer"}, viewer : Viewers] /\ ~Free
  BY <1>1, JobShape DEF Inv
<1>3. /\ ok => job' \in [at : {"subscribe", "keep", "start_peer"}, viewer : Viewers]
      /\ job'.at = IF ok THEN "keep" ELSE "idle"
      /\ ok => job'.viewer = job.viewer
  BY <1>1, <1>2 DEF Idle
<1>4. Sessions' = Sessions
  BY <1>1 DEF Sessions
<1>5. StopInv'
  BY <1>1, <1>2, StopUntouched
<1>6. uplinks = 0 /\ ~video_sub /\ holds = IF ai_hold_sub THEN 1 ELSE 0
  BY <1>1 DEF Inv, SubscriptionsInv, SessionsAreFed
<1>7. uplinks' = IF ok THEN 1 ELSE 0
  BY <1>1, <1>6
<1>8. TypeOK'
  <2>1. job' \in {Idle} \cup [at : {"subscribe", "keep", "start_peer"}, viewer : Viewers]
    BY <1>1, <1>3
  <2>2. uplinks' \in 0..1
    BY <1>7
  <2> QED BY <1>1, <1>4, <2>1, <2>2 DEF Inv, TypeOK
<1>9. SubscriptionsInv'
  <2>1. SessionsAreFed'
    BY <1>1, <1>3, <1>4, <1>6, <1>7 DEF SubscriptionsInv, SessionsAreFed, Inv
  <2> QED BY <1>1, <1>3, <1>4, <1>6, <2>1 DEF SubscriptionsInv, Inv
<1>10. OwnersInv'
  BY <1>1, <1>3 DEF OwnersInv, Inv
<1>11. ReportsInv'
  BY <1>1 DEF ReportsInv, ConnectedByOwnPeer, Inv
<1> QED BY <1>5, <1>8, <1>9, <1>10, <1>11 DEF Inv

LEMMA UplinkKeepStep ==
  ASSUME Inv, UplinkKeep
  PROVE  Inv'
<1>1. /\ job.at = "keep"
      /\ UNCHANGED <<viewers, connected, ready, pending_candidates, ai_hold_sub,
                     holds, tasks, peer, stranded, aiRefused, running, stopping, callbacks,
                     raised>>
  BY DEF UplinkKeep, Quiet
<1>2. uplinks = 1 /\ ~video_sub /\ holds = IF ai_hold_sub THEN 1 ELSE 0
  BY <1>1 DEF Inv, SubscriptionsInv, SessionsAreFed
<1>3. /\ video_sub' = running
      /\ uplinks' = IF running THEN uplinks ELSE uplinks - 1
      /\ job' = IF running THEN [job EXCEPT !.at = "start_peer"] ELSE Idle
  <2>1. running \in BOOLEAN /\ video_sub \in BOOLEAN
    BY DEF Inv, TypeOK
  <2> QED BY <1>2, <2>1 DEF UplinkKeep
<1>4. job \in [at : {"subscribe", "keep", "start_peer"}, viewer : Viewers] /\ ~Free
  BY <1>1, JobShape DEF Inv
<1>5. /\ running => job' \in [at : {"subscribe", "keep", "start_peer"}, viewer : Viewers]
      /\ job'.at = IF running THEN "start_peer" ELSE "idle"
      /\ running => job'.viewer = job.viewer
  BY <1>3, <1>4 DEF Idle
<1>6. Sessions' = Sessions
  BY <1>1 DEF Sessions
<1>7. StopInv'
  BY <1>1, <1>4, StopUntouched
<1>8. uplinks' = IF running THEN 1 ELSE 0
  BY <1>2, <1>3
<1>9. TypeOK'
  <2>1. job' \in {Idle} \cup [at : {"subscribe", "keep", "start_peer"}, viewer : Viewers]
    BY <1>3, <1>5
  <2>2. uplinks' \in 0..1
    BY <1>8
  <2>3. video_sub' \in BOOLEAN
    BY <1>3 DEF Inv, TypeOK
  <2> QED BY <1>1, <1>6, <2>1, <2>2, <2>3 DEF Inv, TypeOK
<1>10. SubscriptionsInv'
  <2>1. Sessions = {}
    BY <1>2 DEF Inv, SubscriptionsInv, SessionsAreFed
  <2>2. SessionsAreFed'
    BY <1>1, <1>2, <1>3, <1>5, <1>6, <1>8, <2>1 DEF SessionsAreFed
  <2>3. Sessions' = {} /\ video_sub' => job'.at = "start_peer"
    BY <1>3, <1>5
  <2> QED BY <1>1, <1>3, <1>5, <1>6, <2>2, <2>3 DEF SubscriptionsInv, Inv
<1>11. OwnersInv'
  BY <1>1, <1>5 DEF OwnersInv, Inv
<1>12. ReportsInv'
  BY <1>1 DEF ReportsInv, ConnectedByOwnPeer, Inv
<1> QED BY <1>7, <1>9, <1>10, <1>11, <1>12 DEF Inv

LEMMA PeerStartStep ==
  ASSUME Inv, NEW p \in Peers, NEW ok \in BOOLEAN, PeerStart(p, ok)
  PROVE  Inv'
<1>1. /\ job.at = "start_peer" /\ peer[p] = "none"
      /\ peer' = [peer EXCEPT ![p] = IF ok THEN "live" ELSE "reaping"]
      /\ job' = IF ok THEN [at |-> "add", viewer |-> job.viewer, peer |-> p] ELSE Idle
      /\ UNCHANGED <<viewers, connected, ready, pending_candidates, video_sub,
                     ai_hold_sub, uplinks, holds, tasks, aiRefused, running, stopping,
                     callbacks, raised>>
  BY DEF PeerStart, Quiet
<1>2. stranded' \in BOOLEAN /\ (stranded => stranded') /\ (~ok /\ Sessions = {} => stranded')
  BY DEF PeerStart, Inv, TypeOK
<1>3. job.viewer \in Viewers /\ ~Free /\ viewers[job.viewer] = 0
  BY <1>1, JobShape DEF Inv, OwnersInv
<1>4. /\ ok => job' \in [at : {"add", "offer"}, viewer : Viewers, peer : Peers]
      /\ job'.at = IF ok THEN "add" ELSE "idle"
      /\ ok => job'.viewer = job.viewer /\ job'.peer = p
  BY <1>1, <1>3 DEF Idle
<1>5. Sessions' = Sessions
  BY <1>1 DEF Sessions
<1>6. StopInv'
  BY <1>1, <1>3, StopUntouched
<1>7. /\ viewers \in [Viewers -> Peers \cup {0}]
      /\ peer \in [Peers -> {"none", "live", "reaping", "freed"}]
      /\ callbacks \subseteq Callback
  BY DEF Inv, TypeOK
<1>8. TypeOK'
  <2>1. job' \in {Idle} \cup [at : {"add", "offer"}, viewer : Viewers, peer : Peers]
    BY <1>1, <1>4
  <2>2. peer' \in [Peers -> {"none", "live", "reaping", "freed"}]
    BY <1>1, <1>7
  <2> QED BY <1>1, <1>2, <1>5, <2>1, <2>2 DEF Inv, TypeOK
<1>9. SubscriptionsInv'
  <2>1. SessionsAreFed'
    BY <1>1, <1>4, <1>5 DEF SubscriptionsInv, SessionsAreFed, Inv
  <2>2. video_sub
    BY <1>1 DEF SubscriptionsInv, Inv
  <2> QED BY <1>1, <1>2, <1>4, <1>5, <2>1, <2>2 DEF SubscriptionsInv, Inv
<1>10. OwnersInv'
  <2>1. \A v \in Viewers : viewers[v] # p
    BY <1>1, <1>7 DEF OwnersInv, Inv, Peers
  <2>2. \A q \in Peers : q # p => peer'[q] = peer[q]
    BY <1>1, <1>7
  <2>3. peer'[p] = IF ok THEN "live" ELSE "reaping"
    BY <1>1, <1>7
  <2>4. ASSUME NEW v \in Viewers, viewers'[v] # 0 PROVE peer'[viewers'[v]] = "live"
    <3>1. viewers[v] \in Peers /\ viewers[v] # p /\ viewers'[v] = viewers[v]
      BY <1>1, <1>7, <2>1, <2>4
    <3> QED BY <2>2, <2>4, <3>1 DEF OwnersInv, Inv
  <2>5. ASSUME NEW q \in Peers, peer'[q] = "live"
        PROVE  (\E v \in Viewers : viewers'[v] = q) \/ (job'.at = "add" /\ job'.peer = q)
    <3>1. CASE q = p
      BY <1>4, <2>3, <2>5, <3>1
    <3>2. CASE q # p
      <4>1. peer[q] = "live" /\ job.at # "add"
        BY <1>1, <2>2, <2>5, <3>2
      <4> QED BY <1>1, <4>1 DEF OwnersInv, Inv
    <3> QED BY <3>1, <3>2
  <2>6. job'.at = "add" => viewers'[job'.viewer] = 0
    BY <1>1, <1>3, <1>4
  <2>7. job'.at = "add" => peer'[job'.peer] = "live" /\ \A v \in Viewers : viewers'[v] # job'.peer
    BY <1>1, <1>4, <2>1, <2>3
  <2>8. \A v, w \in Viewers : viewers'[v] # 0 /\ viewers'[v] = viewers'[w] => v = w
    BY <1>1 DEF OwnersInv, Inv
  <2> QED BY <1>4, <2>4, <2>5, <2>6, <2>7, <2>8 DEF OwnersInv
<1>11. ReportsInv'
  <2>1. ASSUME NEW c \in callbacks'
        PROVE  c.state \in raised'[c.peer] /\ peer'[c.peer] \in {"live", "reaping"}
    <3>1. c \in callbacks /\ c.peer \in Peers
      BY <1>1, <1>7 DEF Callback
    <3>2. c.state \in raised[c.peer] /\ peer[c.peer] \in {"live", "reaping"}
      BY <3>1 DEF ReportsInv, Inv
    <3> QED BY <1>1, <1>7, <3>1, <3>2
  <2> QED BY <1>1, <2>1 DEF ReportsInv, ConnectedByOwnPeer, Inv
<1> QED BY <1>6, <1>8, <1>9, <1>10, <1>11 DEF Inv

LEMMA AddViewerStep ==
  ASSUME Inv, AddViewer
  PROVE  Inv'
<1>1. /\ job.at = "add"
      /\ UNCHANGED <<connected, ready, pending_candidates, video_sub, ai_hold_sub, uplinks,
                     holds, tasks, aiRefused, running, stopping, callbacks, raised>>
  BY DEF AddViewer, Quiet
<1>2. /\ job \in [at : {"add", "offer"}, viewer : Viewers, peer : Peers]
      /\ ~Free /\ viewers[job.viewer] = 0 /\ peer[job.peer] = "live"
      /\ \A v \in Viewers : viewers[v] # job.peer
  BY <1>1, JobShape DEF Inv, OwnersInv
<1>3. job.viewer \in Viewers /\ job.peer \in Peers /\ job.peer # 0
  BY <1>2 DEF Peers
<1>4. StopInv'
  BY <1>1, <1>2, StopUntouched
<1>5. /\ viewers \in [Viewers -> Peers \cup {0}] /\ connected \subseteq Sessions
      /\ ready \subseteq Sessions
      /\ peer \in [Peers -> {"none", "live", "reaping", "freed"}]
      /\ callbacks \subseteq Callback
  BY DEF Inv, TypeOK
<1>6. video_sub
  BY <1>1 DEF Inv, SubscriptionsInv
<1>7. CASE running
  <2>1. /\ viewers' = [viewers EXCEPT ![job.viewer] = job.peer]
        /\ job' = [job EXCEPT !.at = "offer"]
        /\ stranded' = FALSE /\ peer' = peer
    BY <1>7 DEF AddViewer
  <2>2. /\ job' \in [at : {"add", "offer"}, viewer : Viewers, peer : Peers]
        /\ job'.at = "offer" /\ job'.viewer = job.viewer /\ job'.peer = job.peer
    BY <1>2, <2>1
  <2>3. /\ viewers' \in [Viewers -> Peers \cup {0}]
        /\ viewers'[job.viewer] = job.peer
        /\ \A v \in Viewers : v # job.viewer => viewers'[v] = viewers[v]
    BY <1>3, <1>5, <2>1
  <2>4. Sessions \subseteq Sessions' /\ Sessions' # {} /\ job.viewer \notin Sessions
    BY <1>2, <1>3, <2>3 DEF Sessions
  <2>5. TypeOK'
    <3>1. connected' \subseteq Sessions' /\ ready' \subseteq Sessions'
      BY <1>1, <1>5, <2>4
    <3>2. stranded' \in BOOLEAN
      BY <2>1
    <3> QED BY <1>1, <2>1, <2>2, <2>3, <3>1, <3>2 DEF Inv, TypeOK
  <2>6. SubscriptionsInv'
    <3>1. SessionsAreFed'
      BY <1>1, <1>6, <2>2 DEF SubscriptionsInv, SessionsAreFed, Inv
    <3> QED BY <1>1, <1>6, <2>2, <2>4, <3>1 DEF SubscriptionsInv, Inv
  <2>7. OwnersInv'
    <3>1. \A v \in Viewers : viewers'[v] # 0 => peer'[viewers'[v]] = "live"
      BY <1>2, <2>1, <2>3 DEF OwnersInv, Inv
    <3>2. \A v, w \in Viewers : viewers'[v] # 0 /\ viewers'[v] = viewers'[w] => v = w
      BY <1>2, <2>3 DEF OwnersInv, Inv
    <3>3. ASSUME NEW p \in Peers, peer'[p] = "live" PROVE \E v \in Viewers : viewers'[v] = p
      <4>1. CASE p = job.peer
        BY <1>3, <2>3, <4>1
      <4>2. CASE p # job.peer
        <5>1. PICK v \in Viewers : viewers[v] = p
          BY <2>1, <3>3, <4>2 DEF OwnersInv, Inv
        <5>2. v # job.viewer
          BY <1>2, <5>1 DEF Peers
        <5> QED BY <2>3, <5>1, <5>2
      <4> QED BY <4>1, <4>2
    <3> QED BY <2>2, <2>3, <3>1, <3>2, <3>3 DEF OwnersInv
  <2>8. ReportsInv'
    <3>1. ConnectedByOwnPeer'
      <4>1. \A v \in connected : v \in Viewers /\ v # job.viewer
        BY <1>5, <2>4 DEF Sessions
      <4> QED BY <1>1, <2>3, <4>1 DEF ConnectedByOwnPeer, ReportsInv, Inv
    <3> QED BY <1>1, <2>1, <3>1 DEF ReportsInv, Inv
  <2> QED BY <1>4, <2>5, <2>6, <2>7, <2>8 DEF Inv
<1>8. CASE ~running
  <2>1. /\ peer' = [p \in Peers |-> IF p = job.peer THEN "reaping" ELSE peer[p]]
        /\ job' = Idle /\ viewers' = viewers
        /\ stranded' \in BOOLEAN /\ (stranded => stranded') /\ (Sessions = {} => stranded')
    BY <1>8 DEF AddViewer, queue_reap, Inv, TypeOK
  <2>2. job'.at = "idle"
    BY <2>1 DEF Idle
  <2>3. Sessions' = Sessions
    BY <2>1 DEF Sessions
  <2>4. TypeOK'
    <3>1. peer' \in [Peers -> {"none", "live", "reaping", "freed"}]
      BY <1>5, <2>1
    <3> QED BY <1>1, <2>1, <2>3, <3>1 DEF Inv, TypeOK
  <2>5. SubscriptionsInv'
    <3>1. SessionsAreFed'
      BY <1>1, <2>2, <2>3 DEF SubscriptionsInv, SessionsAreFed, Inv
    <3> QED BY <1>1, <2>1, <2>2, <2>3, <3>1 DEF SubscriptionsInv, Inv
  <2>6. OwnersInv'
    <3>1. ASSUME NEW v \in Viewers, viewers'[v] # 0 PROVE peer'[viewers'[v]] = "live"
      <4>1. viewers[v] \in Peers /\ viewers[v] # job.peer
        BY <1>2, <1>5, <2>1, <3>1
      <4> QED BY <2>1, <3>1, <4>1 DEF OwnersInv, Inv
    <3>2. ASSUME NEW p \in Peers, peer'[p] = "live" PROVE \E v \in Viewers : viewers'[v] = p
      <4>1. p # job.peer /\ peer[p] = "live"
        BY <2>1, <3>2
      <4> QED BY <2>1, <4>1 DEF OwnersInv, Inv
    <3>3. \A v, w \in Viewers : viewers'[v] # 0 /\ viewers'[v] = viewers'[w] => v = w
      BY <2>1 DEF OwnersInv, Inv
    <3> QED BY <2>2, <3>1, <3>2, <3>3 DEF OwnersInv
  <2>7. ReportsInv'
    <3>1. ASSUME NEW c \in callbacks'
          PROVE  c.state \in raised'[c.peer] /\ peer'[c.peer] \in {"live", "reaping"}
      <4>1. c \in callbacks /\ c.peer \in Peers
        BY <1>1, <1>5 DEF Callback
      <4>2. c.state \in raised[c.peer] /\ peer[c.peer] \in {"live", "reaping"}
        BY <4>1 DEF ReportsInv, Inv
      <4> QED BY <1>1, <2>1, <4>1, <4>2
    <3> QED BY <1>1, <2>1, <3>1 DEF ReportsInv, ConnectedByOwnPeer, Inv
  <2> QED BY <1>4, <2>4, <2>5, <2>6, <2>7 DEF Inv
<1> QED BY <1>7, <1>8

-----------------------------------------------------------------------------
(* on_connected and start_ai_uplink.                                       *)

LEMMA ConnectedTaskStep ==
  ASSUME Inv, ConnectedTask
  PROVE  Inv'
<1>1. PICK e \in Event :
        /\ NextTask(e) /\ e.state = "connected"
        /\ IF Locked(e.peer) THEN on_connected(e) ELSE UNCHANGED <<connected, job>>
        /\ UNCHANGED <<viewers, ready, pending_candidates, video_sub, ai_hold_sub,
                       uplinks, holds, peer, stranded, aiRefused>>
        /\ Quiet
  BY DEF ConnectedTask
<1>2. UNCHANGED <<viewers, ready, pending_candidates, video_sub, ai_hold_sub, uplinks, holds,
                  peer, stranded, aiRefused, running, stopping, callbacks, raised>>
  BY <1>1 DEF Quiet
<1>3. /\ tasks' \in Seq(Event \cup SyncTask)
      /\ \A i \in 1..Len(tasks') :
            tasks'[i] \in Event => tasks'[i].state \in raised'[tasks'[i].peer]
      /\ \A i, j \in 1..Len(tasks') : tasks'[i] = tasks'[j] /\ tasks'[i] \in SyncTask => i = j
      /\ \A i \in 1..Len(tasks') :
            tasks'[i] = [sync |-> "remove_all_viewers"] => stopping = "removing"
      /\ \A i \in 1..Len(tasks') : tasks'[i] = [sync |-> "fence"] => stopping = "fencing"
  BY <1>1, <1>2, TaskTaken
<1>4. e.state \in raised[e.peer]
  BY <1>1, <1>2, TaskTaken
<1>5. job = Idle /\ job.at = "idle" /\ e.viewer \in Viewers /\ e.peer \in Peers /\ e.peer # 0
  BY <1>1 DEF NextTask, Free, Event, Idle, Peers
<1>6. Sessions' = Sessions
  BY <1>2 DEF Sessions
<1>7. /\ connected \subseteq Sessions /\ viewers \in [Viewers -> Peers \cup {0}]
      /\ ai_hold_sub \in BOOLEAN
  BY DEF Inv, TypeOK
<1>8. CASE connected' = connected /\ job' = job
  <2>1. TypeOK'
    BY <1>2, <1>3, <1>6, <1>8 DEF TypeOK, Inv
  <2>2. SubscriptionsInv'
    BY <1>2, <1>6, <1>8 DEF SubscriptionsInv, SessionsAreFed, Inv
  <2>3. OwnersInv'
    BY <1>2, <1>8 DEF OwnersInv, Inv
  <2>4. ReportsInv'
    BY <1>2, <1>3, <1>8 DEF ReportsInv, ConnectedByOwnPeer, Inv
  <2>5. StopInv'
    BY <1>2, <1>3, <1>6, <1>8 DEF StopInv, Inv, Free
  <2> QED BY <2>1, <2>2, <2>3, <2>4, <2>5 DEF Inv
<1>9. CASE /\ viewers[e.viewer] = e.peer
           /\ connected' = connected \cup {e.viewer}
           /\ job' = IF ai_hold_sub THEN Idle ELSE [at |-> "ai_subscribe"]
  <2>1. job'.at = IF ai_hold_sub THEN "idle" ELSE "ai_subscribe"
    BY <1>9 DEF Idle
  <2>2. e.viewer \in Sessions
    BY <1>5, <1>9 DEF Sessions
  <2>3. TypeOK'
    <3>1. connected' \subseteq Sessions'
      BY <1>6, <1>7, <1>9, <2>2
    <3>2. job' \in {Idle} \cup [at : {"ai_subscribe", "ai_keep"}]
      BY <1>9
    <3> QED BY <1>2, <1>3, <1>6, <3>1, <3>2 DEF TypeOK, Inv
  <2>4. SubscriptionsInv'
    <3>1. SessionsAreFed'
      BY <1>2, <1>5, <1>6, <2>1 DEF SubscriptionsInv, SessionsAreFed, Inv
    <3>2. connected' # {}
      BY <1>9
    <3> QED BY <1>2, <1>5, <1>6, <2>1, <3>1, <3>2 DEF SubscriptionsInv, Inv
  <2>5. OwnersInv'
    BY <1>2, <1>5, <2>1 DEF OwnersInv, Inv
  <2>6. ReportsInv'
    <3>1. ConnectedByOwnPeer'
      BY <1>1, <1>2, <1>4, <1>9 DEF ReportsInv, ConnectedByOwnPeer, Inv
    <3> QED BY <1>2, <1>3, <3>1 DEF ReportsInv, Inv
  <2>7. StopInv'
    <3>1. stopping \notin {"removed", "fencing", "fenced", "stopped"}
      BY <2>2 DEF Inv, StopInv
    <3> QED BY <1>2, <1>3, <3>1 DEF StopInv, Inv
  <2> QED BY <2>3, <2>4, <2>5, <2>6, <2>7 DEF Inv
<1> QED BY <1>1, <1>8, <1>9 DEF on_connected

LEMMA AiSubscribeStep ==
  ASSUME Inv, NEW ok \in BOOLEAN, AiSubscribe(ok)
  PROVE  Inv'
<1>1. /\ job.at = "ai_subscribe"
      /\ holds' = IF ok THEN holds + 1 ELSE holds
      /\ job' = IF ok THEN [at |-> "ai_keep"] ELSE Idle
      /\ UNCHANGED <<viewers, connected, ready, pending_candidates, video_sub, ai_hold_sub,
                     uplinks, tasks, peer, stranded, running, stopping, callbacks, raised>>
  BY DEF AiSubscribe, Quiet
<1>2. aiRefused' \in BOOLEAN /\ (aiRefused => aiRefused') /\ (~ok => aiRefused')
  BY DEF AiSubscribe, Inv, TypeOK
<1>3. ~Free /\ job'.at = IF ok THEN "ai_keep" ELSE "idle"
  BY <1>1 DEF Idle, Free
<1>4. Sessions' = Sessions
  BY <1>1 DEF Sessions
<1>5. StopInv'
  BY <1>1, <1>3, StopUntouched
<1>6. holds = 0 /\ ~ai_hold_sub /\ uplinks = IF video_sub THEN 1 ELSE 0
  BY <1>1 DEF Inv, SubscriptionsInv, SessionsAreFed
<1>7. holds' = IF ok THEN 1 ELSE 0
  BY <1>1, <1>6
<1>8. TypeOK'
  <2>1. job' \in {Idle} \cup [at : {"ai_subscribe", "ai_keep"}]
    BY <1>1
  <2>2. holds' \in 0..1
    BY <1>7
  <2> QED BY <1>1, <1>2, <1>4, <2>1, <2>2 DEF Inv, TypeOK
<1>9. SubscriptionsInv'
  <2>1. SessionsAreFed'
    BY <1>1, <1>3, <1>4, <1>6, <1>7 DEF SubscriptionsInv, SessionsAreFed, Inv
  <2> QED BY <1>1, <1>2, <1>3, <1>4, <1>6, <2>1 DEF SubscriptionsInv, Inv
<1>10. OwnersInv'
  BY <1>1, <1>3 DEF OwnersInv, Inv
<1>11. ReportsInv'
  BY <1>1 DEF ReportsInv, ConnectedByOwnPeer, Inv
<1> QED BY <1>5, <1>8, <1>9, <1>10, <1>11 DEF Inv

LEMMA AiKeepStep ==
  ASSUME Inv, AiKeep
  PROVE  Inv'
<1>1. /\ job.at = "ai_keep" /\ job' = Idle
      /\ UNCHANGED <<viewers, connected, ready, pending_candidates, video_sub, uplinks, tasks,
                     peer, stranded, aiRefused, running, stopping, callbacks, raised>>
  BY DEF AiKeep, Quiet
<1>2. ~Free /\ job'.at = "idle"
  BY <1>1 DEF Idle, Free
<1>3. Sessions' = Sessions
  BY <1>1 DEF Sessions
<1>4. StopInv'
  BY <1>1, <1>2, StopUntouched
<1>5. /\ holds = 1 /\ ~ai_hold_sub /\ connected # {} /\ uplinks = IF video_sub THEN 1 ELSE 0
      /\ running \in BOOLEAN
  BY <1>1 DEF Inv, SubscriptionsInv, SessionsAreFed, TypeOK
<1>6. ai_hold_sub' = running /\ holds' = IF running THEN holds ELSE holds - 1
  BY <1>5 DEF AiKeep
<1>7. holds' = IF ai_hold_sub' THEN 1 ELSE 0
  BY <1>5, <1>6
<1>8. TypeOK'
  <2>1. job' \in {Idle}
    BY <1>1
  <2>2. holds' \in 0..1
    BY <1>7
  <2>3. ai_hold_sub' \in BOOLEAN
    BY <1>5, <1>6
  <2> QED BY <1>1, <1>3, <2>1, <2>2, <2>3 DEF Inv, TypeOK
<1>9. SubscriptionsInv'
  <2>1. SessionsAreFed'
    BY <1>1, <1>2, <1>3, <1>5, <1>7 DEF SubscriptionsInv, SessionsAreFed, Inv
  <2> QED BY <1>1, <1>2, <1>3, <1>5, <1>6, <2>1 DEF SubscriptionsInv, Inv
<1>10. OwnersInv'
  BY <1>1, <1>2 DEF OwnersInv, Inv
<1>11. ReportsInv'
  BY <1>1 DEF ReportsInv, ConnectedByOwnPeer, Inv
<1> QED BY <1>4, <1>8, <1>9, <1>10, <1>11 DEF Inv

-----------------------------------------------------------------------------
(* Steps that leave the sessions alone.                                    *)

LEMMA SessionsUntouched ==
  ASSUME Inv, UNCHANGED <<pollerVars, stranded, aiRefused>>, running' => running
  PROVE  /\ SubscriptionsInv' /\ Sessions' = Sessions
         /\ peer' = peer => OwnersInv'
         /\ UNCHANGED <<viewers, connected, ready, pending_candidates, video_sub, ai_hold_sub,
                        uplinks, holds, job, stranded, aiRefused>>
<1>1. UNCHANGED <<viewers, connected, ready, pending_candidates, video_sub, ai_hold_sub,
                  uplinks, holds, job, stranded, aiRefused>>
  BY DEF pollerVars
<1>2. Sessions' = Sessions
  BY <1>1 DEF Sessions
<1>3. SubscriptionsInv'
  BY <1>1, <1>2 DEF SubscriptionsInv, SessionsAreFed, Inv
<1>4. peer' = peer => OwnersInv'
  BY <1>1 DEF OwnersInv, Inv
<1> QED BY <1>1, <1>2, <1>3, <1>4

LEMMA CandidateStep ==
  ASSUME Inv, NEW v \in Viewers, Candidate(v)
  PROVE  Inv'
<1>1. /\ running /\ pending_candidates[v] < PendingLimit
      /\ pending_candidates' = [pending_candidates EXCEPT ![v] = @ + 1]
      /\ UNCHANGED <<viewers, connected, ready, video_sub, ai_hold_sub, uplinks, holds, job,
                     tasks, peer, stranded, aiRefused, running, stopping, callbacks, raised>>
  BY DEF Candidate, Quiet
<1>2. Sessions' = Sessions
  BY <1>1 DEF Sessions
<1>3. pending_candidates' \in [Viewers -> 0..PendingLimit]
  <2>1. pending_candidates \in [Viewers -> 0..PendingLimit] /\ PendingLimit \in Nat
    BY SessionsAssumption DEF Inv, TypeOK
  <2>2. pending_candidates[v] + 1 \in 0..PendingLimit
    BY <1>1, <2>1
  <2> QED BY <1>1, <2>1, <2>2
<1>4. TypeOK'
  BY <1>1, <1>2, <1>3 DEF TypeOK, Inv
<1>5. SubscriptionsInv'
  BY <1>1, <1>2 DEF SubscriptionsInv, SessionsAreFed, Inv
<1>6. OwnersInv'
  BY <1>1 DEF OwnersInv, Inv
<1>7. ReportsInv'
  BY <1>1 DEF ReportsInv, ConnectedByOwnPeer, Inv
<1>8. StopInv'
  BY <1>1, StopUntouched
<1> QED BY <1>4, <1>5, <1>6, <1>7, <1>8 DEF Inv

LEMMA FenceTaskStep ==
  ASSUME Inv, FenceTask
  PROVE  Inv'
<1> DEFINE t == [sync |-> "fence"]
<1>1. /\ NextTask(t) /\ stopping' = "fenced"
      /\ UNCHANGED <<running, pollerVars, peer, callbacks, raised, stranded, aiRefused>>
  BY DEF FenceTask
<1>2. /\ tasks' \in Seq(Event \cup SyncTask)
      /\ \A i \in 1..Len(tasks') :
            tasks'[i] \in Event => tasks'[i].state \in raised'[tasks'[i].peer]
      /\ \A i, j \in 1..Len(tasks') : tasks'[i] = tasks'[j] /\ tasks'[i] \in SyncTask => i = j
      /\ \A i \in 1..Len(tasks') : tasks'[i] # t
      /\ \A i \in 1..Len(tasks') :
            tasks'[i] = [sync |-> "remove_all_viewers"] => stopping = "removing"
      /\ stopping = "fencing"
  BY <1>1, TaskTaken
<1>3. /\ SubscriptionsInv' /\ Sessions' = Sessions /\ OwnersInv'
      /\ UNCHANGED <<viewers, connected, ready, pending_candidates, video_sub, ai_hold_sub,
                     uplinks, holds, job, stranded, aiRefused>>
  BY <1>1, SessionsUntouched
<1>4. TypeOK'
  BY <1>1, <1>2, <1>3 DEF TypeOK, Inv
<1>5. ReportsInv'
  BY <1>1, <1>2, <1>3 DEF ReportsInv, ConnectedByOwnPeer, Inv
<1>6. StopInv'
  BY <1>1, <1>2, <1>3 DEF StopInv, Inv, Free
<1> QED BY <1>3, <1>4, <1>5, <1>6 DEF Inv

-----------------------------------------------------------------------------
(* The SDK's threads and the cleanup pool.                                 *)

LEMMA ReportStep ==
  ASSUME Inv, NEW p \in Peers, NEW v \in Viewers, NEW s \in States, Report(p, v, s)
  PROVE  Inv'
<1> DEFINE c0 == [peer |-> p, viewer |-> v, state |-> s, at |-> "copied"]
<1>1. /\ peer[p] = "live" /\ callbacks' = callbacks \cup {c0}
      /\ raised' = [raised EXCEPT ![p] = @ \cup {s}]
      /\ UNCHANGED <<running, stopping, pollerVars, tasks, peer, stranded, aiRefused>>
  BY DEF Report
<1>2. /\ SubscriptionsInv' /\ Sessions' = Sessions /\ OwnersInv'
      /\ UNCHANGED <<viewers, connected, ready, pending_candidates, video_sub, ai_hold_sub,
                     uplinks, holds, job, stranded, aiRefused>>
  BY <1>1, SessionsUntouched
<1>3. /\ callbacks \subseteq Callback /\ raised \in [Peers -> SUBSET States]
      /\ viewers \in [Viewers -> Peers \cup {0}] /\ connected \subseteq Sessions
  BY DEF Inv, TypeOK
<1>4. c0 \in Callback /\ c0.peer = p /\ c0.state = s
  BY DEF Callback
<1>5. /\ raised' \in [Peers -> SUBSET States] /\ s \in raised'[p]
      /\ \A q \in Peers : raised[q] \subseteq raised'[q]
  BY <1>1, <1>3
<1>6. TypeOK'
  <2>1. callbacks' \subseteq Callback
    BY <1>1, <1>3, <1>4
  <2> QED BY <1>1, <1>2, <1>5, <2>1 DEF TypeOK, Inv
<1>7. ReportsInv'
  <2>1. ConnectedByOwnPeer'
    <3>1. \A w \in connected : viewers[w] \in Peers
      BY <1>3 DEF Sessions
    <3> QED BY <1>2, <1>5, <3>1 DEF ConnectedByOwnPeer, ReportsInv, Inv
  <2>2. ASSUME NEW c \in callbacks'
        PROVE  c.state \in raised'[c.peer] /\ peer'[c.peer] \in {"live", "reaping"}
    <3>1. CASE c = c0
      BY <1>1, <1>4, <1>5, <3>1
    <3>2. CASE c \in callbacks
      <4>1. c.peer \in Peers
        BY <1>3, <3>2 DEF Callback
      <4> QED BY <1>1, <1>5, <3>2, <4>1 DEF ReportsInv, Inv
    <3> QED BY <1>1, <3>1, <3>2
  <2>3. ASSUME NEW i \in 1..Len(tasks'), tasks'[i] \in Event
        PROVE  tasks'[i].state \in raised'[tasks'[i].peer]
    <3>1. tasks'[i] = tasks[i] /\ i \in 1..Len(tasks) /\ tasks[i].peer \in Peers
      BY <1>1, <2>3 DEF Event
    <3> QED BY <1>5, <2>3, <3>1 DEF ReportsInv, Inv
  <2> QED BY <2>1, <2>2, <2>3 DEF ReportsInv
<1>8. StopInv'
  BY <1>1, <1>2 DEF StopInv, Inv, Free
<1> QED BY <1>2, <1>6, <1>7, <1>8 DEF Inv

LEMMA PostBeginStep ==
  ASSUME Inv, NEW c \in callbacks, PostBegin(c)
  PROVE  Inv'
<1>1. /\ callbacks' = (callbacks \ {c}) \cup (IF running THEN {[c EXCEPT !.at = "posting"]} ELSE {})
      /\ UNCHANGED <<running, stopping, pollerVars, tasks, peer, raised, stranded, aiRefused>>
  BY DEF PostBegin
<1>2. /\ SubscriptionsInv' /\ Sessions' = Sessions /\ OwnersInv'
      /\ UNCHANGED <<viewers, connected, ready, pending_candidates, video_sub, ai_hold_sub,
                     uplinks, holds, job, stranded, aiRefused>>
  BY <1>1, SessionsUntouched
<1> DEFINE d == [c EXCEPT !.at = "posting"]
<1>3. c \in Callback /\ d \in Callback /\ d.peer = c.peer /\ d.state = c.state
  BY DEF Inv, TypeOK, Callback
<1>4. \A b \in callbacks' : b \in callbacks \/ b = d
  BY <1>1
<1> HIDE DEF d
<1>5. TypeOK'
  <2>1. callbacks' \subseteq Callback
    BY <1>3, <1>4 DEF Inv, TypeOK
  <2> QED BY <1>1, <1>2, <2>1 DEF TypeOK, Inv
<1>6. ReportsInv'
  <2>1. \A b \in callbacks' : b.state \in raised'[b.peer] /\ peer'[b.peer] \in {"live", "reaping"}
    BY <1>1, <1>3, <1>4 DEF ReportsInv, Inv
  <2> QED BY <1>1, <1>2, <2>1 DEF ReportsInv, ConnectedByOwnPeer, Inv
<1>7. StopInv'
  BY <1>1, <1>2 DEF StopInv, Inv, Free
<1> QED BY <1>2, <1>5, <1>6, <1>7 DEF Inv

LEMMA PostEndStep ==
  ASSUME Inv, NEW c \in callbacks, PostEnd(c)
  PROVE  Inv'
<1> DEFINE e == [peer |-> c.peer, viewer |-> c.viewer, state |-> c.state]
<1>1. /\ callbacks' = callbacks \ {c} /\ tasks' = Append(tasks, e)
      /\ UNCHANGED <<running, stopping, pollerVars, peer, raised, stranded, aiRefused>>
  BY DEF PostEnd
<1>2. /\ SubscriptionsInv' /\ Sessions' = Sessions /\ OwnersInv'
      /\ UNCHANGED <<viewers, connected, ready, pending_candidates, video_sub, ai_hold_sub,
                     uplinks, holds, job, stranded, aiRefused>>
  BY <1>1, SessionsUntouched
<1>3. e \in Event /\ e.state \in raised[e.peer]
  BY DEF Inv, TypeOK, Callback, Event, ReportsInv
<1> HIDE DEF e
<1>4. e \notin SyncTask
  BY <1>3, SyncIsNoEvent DEF SyncTask
<1>5. /\ tasks' \in Seq(Event \cup SyncTask)
      /\ \A i \in 1..Len(tasks') :
            (i \in 1..Len(tasks) /\ tasks'[i] = tasks[i]) \/ tasks'[i] = e
  <2>1. tasks \in Seq(Event \cup SyncTask) /\ e \in Event \cup SyncTask
    BY <1>3 DEF Inv, TypeOK
  <2> QED BY <1>1, <2>1, AppendElement
<1>6. TypeOK'
  <2>1. callbacks' \subseteq Callback
    BY <1>1 DEF Inv, TypeOK
  <2> QED BY <1>1, <1>2, <1>5, <2>1 DEF TypeOK, Inv
<1>7. ReportsInv'
  <2>1. \A i \in 1..Len(tasks') :
           tasks'[i] \in Event => tasks'[i].state \in raised'[tasks'[i].peer]
    BY <1>1, <1>3, <1>5 DEF ReportsInv, Inv
  <2>2. \A b \in callbacks' : b.state \in raised'[b.peer] /\ peer'[b.peer] \in {"live", "reaping"}
    BY <1>1 DEF ReportsInv, Inv
  <2> QED BY <1>1, <1>2, <2>1, <2>2 DEF ReportsInv, ConnectedByOwnPeer, Inv
<1>8. StopInv'
  <2>1. \A i, j \in 1..Len(tasks') : tasks'[i] = tasks'[j] /\ tasks'[i] \in SyncTask => i = j
    BY <1>4, <1>5 DEF StopInv, Inv
  <2>2. \A i \in 1..Len(tasks') :
           /\ tasks'[i] = [sync |-> "remove_all_viewers"] => stopping' = "removing"
           /\ tasks'[i] = [sync |-> "fence"] => stopping' = "fencing"
    BY <1>1, <1>3, <1>5, SyncIsNoEvent DEF StopInv, Inv
  <2> QED BY <1>1, <1>2, <2>1, <2>2 DEF StopInv, Inv, Free
<1> QED BY <1>2, <1>6, <1>7, <1>8 DEF Inv

LEMMA ReapStep ==
  ASSUME Inv, NEW p \in Peers, Reap(p)
  PROVE  Inv'
<1>1. /\ peer[p] = "reaping" /\ (\A c \in callbacks : c.peer # p)
      /\ peer' = [peer EXCEPT ![p] = "freed"]
      /\ UNCHANGED <<running, stopping, pollerVars, tasks, callbacks, raised, stranded, aiRefused>>
  BY DEF Reap
<1>2. /\ SubscriptionsInv' /\ Sessions' = Sessions
      /\ UNCHANGED <<viewers, connected, ready, pending_candidates, video_sub, ai_hold_sub,
                     uplinks, holds, job, stranded, aiRefused>>
  BY <1>1, SessionsUntouched
<1>3. /\ peer \in [Peers -> {"none", "live", "reaping", "freed"}] /\ callbacks \subseteq Callback
      /\ viewers \in [Viewers -> Peers \cup {0}]
  BY DEF Inv, TypeOK
<1>4. peer'[p] = "freed" /\ \A q \in Peers : q # p => peer'[q] = peer[q]
  BY <1>1, <1>3
<1>5. TypeOK'
  <2>1. peer' \in [Peers -> {"none", "live", "reaping", "freed"}]
    BY <1>1, <1>3
  <2> QED BY <1>1, <1>2, <2>1 DEF TypeOK, Inv
<1>6. OwnersInv'
  <2>1. \A v \in Viewers : viewers[v] # 0 => viewers[v] \in Peers /\ viewers[v] # p
    BY <1>1, <1>3 DEF OwnersInv, Inv
  <2>2. \A q \in Peers : peer'[q] = "live" => peer[q] = "live"
    BY <1>4
  <2>3. job.at = "add" => job.peer \in Peers /\ job.peer # p
    BY <1>1, JobShape DEF OwnersInv, Inv
  <2> QED BY <1>2, <1>4, <2>1, <2>2, <2>3 DEF OwnersInv, Inv
<1>7. ReportsInv'
  <2>1. \A c \in callbacks : c.peer \in Peers
    BY <1>3 DEF Callback
  <2>2. \A c \in callbacks' : c.state \in raised'[c.peer] /\ peer'[c.peer] \in {"live", "reaping"}
    BY <1>1, <1>4, <2>1 DEF ReportsInv, Inv
  <2> QED BY <1>1, <1>2, <2>2 DEF ReportsInv, ConnectedByOwnPeer, Inv
<1>8. StopInv'
  <2>1. stopping # "stopped"
    BY <1>1 DEF StopInv, Inv
  <2> QED BY <1>1, <1>2, <2>1 DEF StopInv, Inv, Free
<1> QED BY <1>2, <1>5, <1>6, <1>7, <1>8 DEF Inv

-----------------------------------------------------------------------------
(* WebRtcPlugin::stop.                                                     *)

LEMMA StopBeginStep ==
  ASSUME Inv, StopBegin
  PROVE  Inv'
<1>1. /\ stopping = "no" /\ running' = FALSE /\ stopping' = "begun"
      /\ UNCHANGED <<pollerVars, tasks, peer, callbacks, raised, stranded, aiRefused>>
  BY DEF StopBegin
<1>2. /\ SubscriptionsInv' /\ Sessions' = Sessions /\ OwnersInv'
      /\ UNCHANGED <<viewers, connected, ready, pending_candidates, video_sub, ai_hold_sub,
                     uplinks, holds, job, stranded, aiRefused>>
  BY <1>1, SessionsUntouched
<1>3. TypeOK'
  BY <1>1, <1>2 DEF TypeOK, Inv
<1>4. ReportsInv'
  BY <1>1, <1>2 DEF ReportsInv, ConnectedByOwnPeer, Inv
<1>5. StopInv'
  <2>1. \A i \in 1..Len(tasks) :
           tasks[i] # [sync |-> "remove_all_viewers"] /\ tasks[i] # [sync |-> "fence"]
    BY <1>1 DEF StopInv, Inv
  <2> QED BY <1>1, <2>1 DEF StopInv, Inv
<1> QED BY <1>2, <1>3, <1>4, <1>5 DEF Inv

(* A task of stop is posted only when none is waiting. *)
LEMMA StopPostsStep ==
  ASSUME Inv, NEW from, NEW sync, NEW to, StopPosts(from, sync, to),
         \/ from = "begun" /\ sync = "remove_all_viewers" /\ to = "removing"
         \/ from = "removed" /\ sync = "fence" /\ to = "fencing"
  PROVE  Inv'
<1> DEFINE t == [sync |-> sync]
<1>1. /\ stopping = from /\ stopping' = to /\ tasks' = Append(tasks, t)
      /\ UNCHANGED <<running, pollerVars, peer, callbacks, raised, stranded, aiRefused>>
  BY DEF StopPosts
<1>2. /\ SubscriptionsInv' /\ Sessions' = Sessions /\ OwnersInv'
      /\ UNCHANGED <<viewers, connected, ready, pending_candidates, video_sub, ai_hold_sub,
                     uplinks, holds, job, stranded, aiRefused>>
  BY <1>1, SessionsUntouched
<1>3. /\ t \in SyncTask /\ t \notin Event
      /\ t = [sync |-> "remove_all_viewers"] => to = "removing"
      /\ t = [sync |-> "fence"] => to = "fencing"
  <2>1. CASE sync = "remove_all_viewers" /\ to = "removing"
    <3>1. t # [sync |-> "fence"]
      BY <2>1
    <3> QED BY <2>1, <3>1, SyncIsNoEvent DEF SyncTask
  <2>2. CASE sync = "fence" /\ to = "fencing"
    <3>1. t # [sync |-> "remove_all_viewers"]
      BY <2>2
    <3> QED BY <2>2, <3>1, SyncIsNoEvent DEF SyncTask
  <2> QED BY <2>1, <2>2
<1> HIDE DEF t
<1>4. \A i \in 1..Len(tasks) : tasks[i] \notin SyncTask
  BY <1>1 DEF StopInv, Inv, SyncTask
<1>5. /\ tasks' \in Seq(Event \cup SyncTask)
      /\ \A i \in 1..Len(tasks') :
            \/ i \in 1..Len(tasks) /\ tasks'[i] = tasks[i]
            \/ i = Len(tasks) + 1 /\ tasks'[i] = t
  <2>1. tasks \in Seq(Event \cup SyncTask) /\ t \in Event \cup SyncTask
    BY <1>3 DEF Inv, TypeOK
  <2> QED BY <1>1, <2>1, AppendElement
<1>6. TypeOK'
  <2>1. stopping' \in {"no", "begun", "removing", "removed", "fencing", "fenced", "stopped"}
    BY <1>1
  <2> QED BY <1>1, <1>2, <1>5, <2>1 DEF TypeOK, Inv
<1>7. ReportsInv'
  <2>1. \A i \in 1..Len(tasks') :
           tasks'[i] \in Event => tasks'[i].state \in raised'[tasks'[i].peer]
    BY <1>1, <1>3, <1>5 DEF ReportsInv, Inv
  <2> QED BY <1>1, <1>2, <2>1 DEF ReportsInv, ConnectedByOwnPeer, Inv
<1>8. StopInv'
  <2>1. \A i, j \in 1..Len(tasks') : tasks'[i] = tasks'[j] /\ tasks'[i] \in SyncTask => i = j
    BY <1>4, <1>5, <1>3
  <2>2. \A i \in 1..Len(tasks') :
           /\ tasks'[i] = [sync |-> "remove_all_viewers"] => stopping' = "removing"
           /\ tasks'[i] = [sync |-> "fence"] => stopping' = "fencing"
    BY <1>1, <1>3, <1>4, <1>5 DEF SyncTask
  <2>3. running' <=> stopping' = "no"
    BY <1>1 DEF StopInv, Inv
  <2>4. stopping' \in {"removed", "fencing", "fenced", "stopped"} => Sessions' = {} /\ Free'
    BY <1>1, <1>2 DEF StopInv, Inv, Free
  <2>5. stopping' # "stopped"
    BY <1>1
  <2> QED BY <2>1, <2>2, <2>3, <2>4, <2>5 DEF StopInv
<1> QED BY <1>2, <1>6, <1>7, <1>8 DEF Inv

LEMMA StopDestroysStep ==
  ASSUME Inv, StopDestroys
  PROVE  Inv'
<1>1. /\ stopping = "fenced" /\ stopping' = "stopped"
      /\ \A p \in Peers : peer[p] # "reaping"
      /\ pending_candidates' = [v \in Viewers |-> 0]
      /\ tasks' = <<>>
      /\ UNCHANGED <<running, viewers, connected, ready, video_sub, ai_hold_sub, uplinks,
                     holds, job, peer, callbacks, raised, stranded, aiRefused>>
  BY DEF StopDestroys
<1>2. Sessions' = Sessions
  BY <1>1 DEF Sessions
<1>3. Sessions = {} /\ Free /\ job.at = "idle"
  BY <1>1, JobShape DEF StopInv, Inv
<1>4. tasks' \in Seq(Event \cup SyncTask) /\ Len(tasks') = 0
  BY <1>1
<1>5. TypeOK'
  <2>1. pending_candidates' \in [Viewers -> 0..PendingLimit]
    <3>1. 0 \in 0..PendingLimit
      BY SessionsAssumption
    <3> QED BY <1>1, <3>1
  <2> QED BY <1>1, <1>2, <1>4, <2>1 DEF TypeOK, Inv
<1>6. SubscriptionsInv'
  BY <1>1, <1>2 DEF SubscriptionsInv, SessionsAreFed, Inv
<1>7. OwnersInv'
  BY <1>1 DEF OwnersInv, Inv
<1>8. ReportsInv'
  BY <1>1, <1>4 DEF ReportsInv, ConnectedByOwnPeer, Inv
<1>9. StopInv'
  <2>1. \A p \in Peers : peer[p] # "live"
    BY <1>3 DEF OwnersInv, Inv, Sessions, Peers
  <2>2. \A p \in Peers : peer'[p] \in {"none", "freed"}
    BY <1>1, <2>1 DEF TypeOK, Inv
  <2>3. Free'
    BY <1>1, <1>3 DEF Free
  <2>4. ~running'
    BY <1>1 DEF StopInv, Inv
  <2> QED BY <1>1, <1>2, <1>3, <1>4, <2>2, <2>3, <2>4 DEF StopInv
<1> QED BY <1>5, <1>6, <1>7, <1>8, <1>9 DEF Inv

-----------------------------------------------------------------------------
LEMMA InvInit ==
  ASSUME Init
  PROVE  Inv
<1>1. Sessions = {} /\ job.at = "idle" /\ Free /\ Len(tasks) = 0 /\ \A p \in Peers : p # 0
  BY DEF Init, Sessions, Idle, Free, Peers
<1>2. TypeOK
  <2>1. pending_candidates \in [Viewers -> 0..PendingLimit]
    <3>1. 0 \in 0..PendingLimit
      BY SessionsAssumption
    <3> QED BY <3>1 DEF Init
  <2>2. tasks \in Seq(Event \cup SyncTask)
    BY DEF Init
  <2>3. viewers \in [Viewers -> Peers \cup {0}] /\ raised \in [Peers -> SUBSET States]
        /\ peer \in [Peers -> {"none", "live", "reaping", "freed"}]
    BY DEF Init
  <2>4. uplinks \in 0..1 /\ holds \in 0..1
    BY DEF Init
  <2> QED BY <1>1, <2>1, <2>2, <2>3, <2>4 DEF Init, TypeOK
<1>3. SubscriptionsInv
  BY <1>1 DEF Init, SubscriptionsInv, SessionsAreFed
<1>4. OwnersInv
  BY <1>1 DEF Init, OwnersInv
<1>5. ReportsInv
  BY <1>1 DEF Init, ReportsInv, ConnectedByOwnPeer
<1>6. StopInv
  BY <1>1 DEF Init, StopInv
<1> QED BY <1>2, <1>3, <1>4, <1>5, <1>6 DEF Inv

LEMMA InvStep ==
  ASSUME Inv, [Next]_vars
  PROVE  Inv'
<1>1. CASE Handler
  <2>1. CASE \E ok \in BOOLEAN : UplinkSubscribe(ok)
    BY <2>1, UplinkSubscribeStep
  <2>2. CASE UplinkKeep
    BY <2>2, UplinkKeepStep
  <2>3. CASE \E p \in Peers, ok \in BOOLEAN : PeerStart(p, ok)
    BY <2>3, PeerStartStep
  <2>4. CASE AddViewer
    BY <2>4, AddViewerStep
  <2>5. CASE \E ok \in BOOLEAN : RemoteOffer(ok)
    BY <2>5, RemoteOfferStep
  <2>6. CASE ConnectedTask
    BY <2>6, ConnectedTaskStep
  <2>7. CASE DownTask
    BY <2>7, DownTaskStep
  <2>8. CASE \E ok \in BOOLEAN : AiSubscribe(ok)
    BY <2>8, AiSubscribeStep
  <2>9. CASE AiKeep
    BY <2>9, AiKeepStep
  <2>10. CASE RemoveAllTask
    BY <2>10, RemoveAllTaskStep
  <2>11. CASE FenceTask
    BY <2>11, FenceTaskStep
  <2> QED
    BY <1>1, <2>1, <2>2, <2>3, <2>4, <2>5, <2>6, <2>7, <2>8, <2>9, <2>10, <2>11 DEF Handler
<1>2. CASE Message
  <2>1. CASE \E v \in Viewers : Offer(v)
    BY <2>1, OfferStep
  <2>2. CASE \E v \in Viewers : Candidate(v)
    BY <2>2, CandidateStep
  <2>3. CASE \E v \in Viewers : PeerLeft(v)
    BY <2>3, PeerLeftStep
  <2>4. CASE SignalingLost
    BY <2>4, SignalingLostStep
  <2> QED BY <1>2, <2>1, <2>2, <2>3, <2>4 DEF Message
<1>3. CASE \E p \in Peers, v \in Viewers, s \in States : Report(p, v, s)
  BY <1>3, ReportStep
<1>4. CASE Sdk
  BY <1>4, PostBeginStep, PostEndStep DEF Sdk
<1>5. CASE \E p \in Peers : Reap(p)
  BY <1>5, ReapStep
<1>6. CASE StopBegin
  BY <1>6, StopBeginStep
<1>7. CASE Stopper
  BY <1>7, StopPostsStep, StopDestroysStep DEF Stopper
<1>8. CASE UNCHANGED vars
  <2>1. UNCHANGED <<running, stopping, viewers, connected, ready, pending_candidates, video_sub,
                    ai_hold_sub, uplinks, holds, job, tasks, peer, callbacks, raised, stranded,
                    aiRefused>>
    BY <1>8 DEF vars
  <2>2. Sessions' = Sessions
    BY <2>1 DEF Sessions
  <2>3. TypeOK'
    BY <2>1, <2>2 DEF TypeOK, Inv
  <2>4. SubscriptionsInv'
    BY <2>1, <2>2 DEF SubscriptionsInv, SessionsAreFed, Inv
  <2>5. OwnersInv'
    BY <2>1 DEF OwnersInv, Inv
  <2>6. ReportsInv'
    BY <2>1 DEF ReportsInv, ConnectedByOwnPeer, Inv
  <2>7. StopInv'
    BY <2>1, <2>2 DEF StopInv, Inv, Free
  <2> QED BY <2>3, <2>4, <2>5, <2>6, <2>7 DEF Inv
<1> QED BY <1>1, <1>2, <1>3, <1>4, <1>5, <1>6, <1>7, <1>8 DEF Next

(* The invariant holds of the plugin in every behaviour: from start, under *)
(* any messages, reports and failures, to the end of stop.                 *)
THEOREM SessionsInvariant == Spec => []Inv
<1>1. Init => Inv
  BY InvInit
<1>2. Inv /\ [Next]_vars => Inv'
  BY InvStep
<1> QED BY <1>1, <1>2, PTL DEF Spec

(* The sessions keep their types: a viewer waits with at most PendingLimit *)
(* candidates, and the plugin never has two subscriptions of one kind.     *)
THEOREM SessionsAreTyped == Spec => []TypeOK
<1>1. Inv => TypeOK
  BY DEF Inv
<1> QED BY <1>1, SessionsInvariant, PTL

(* Whoever has a session is fed (video_sub), and the media source counts   *)
(* what video_sub and ai_hold_sub remember.                                *)
THEOREM EverySessionIsFed == Spec => []SessionsAreFed
<1>1. Inv => SessionsAreFed
  BY DEF Inv, SubscriptionsInv
<1> QED BY <1>1, SessionsInvariant, PTL

(* start_ai_uplink and remove_viewer keep the detector exactly for the     *)
(* connected viewers.                                                      *)
THEOREM DetectorFollowsViewers == Spec => []AiFollowsConnected
<1>1. Inv => AiFollowsConnected
  <2>1. Free => job.at = "idle"
    BY DEF Free, Idle
  <2> QED BY <2>1 DEF Inv, SubscriptionsInv, AiFollowsConnected
<1> QED BY <1>1, SessionsInvariant, PTL

(* on_connected believes only the session's own peer.                      *)
THEOREM OwnPeerConnects == Spec => []ConnectedByOwnPeer
<1>1. Inv => ConnectedByOwnPeer
  BY DEF Inv, ReportsInv
<1> QED BY <1>1, SessionsInvariant, PTL

(* A running peer belongs to one session or to the offer in hand: none is  *)
(* lost, none is shared, and none that was given up still has an owner.    *)
THEOREM RunningPeersHaveOneOwner == Spec => []RunningPeersAreOwned
<1>1. ASSUME Inv PROVE RunningPeersAreOwned
  <2> SUFFICES ASSUME NEW p \in Peers
               PROVE  LET owners == {v \in Viewers : viewers[v] = p}
                          inHand == job.at = "add" /\ job.peer = p
                      IN  /\ peer[p] = "live" =>
                               (inHand /\ owners = {}) \/ (~inHand /\ Cardinality(owners) = 1)
                          /\ peer[p] # "live" => ~inHand /\ owners = {}
    BY DEF RunningPeersAreOwned
  <2> DEFINE owners == {v \in Viewers : viewers[v] = p}
             inHand == job.at = "add" /\ job.peer = p
  <2>1. p # 0
    BY DEF Peers
  <2>2. inHand => owners = {} /\ peer[p] = "live"
    BY <1>1 DEF Inv, OwnersInv
  <2>3. owners # {} => peer[p] = "live"
    BY <1>1, <2>1 DEF Inv, OwnersInv
  <2>4. ASSUME peer[p] = "live", ~inHand PROVE Cardinality(owners) = 1
    <3>1. PICK v \in Viewers : viewers[v] = p
      BY <1>1, <2>4 DEF Inv, OwnersInv
    <3>2. owners = {v}
      BY <1>1, <2>1, <3>1 DEF Inv, OwnersInv
    <3> QED BY <3>2, FS_Singleton
  <2> HIDE DEF owners, inHand
  <2>5. /\ peer[p] = "live" => (inHand /\ owners = {}) \/ (~inHand /\ Cardinality(owners) = 1)
        /\ peer[p] # "live" => ~inHand /\ owners = {}
    BY <2>2, <2>3, <2>4
  <2> QED BY <2>5 DEF owners, inHand
<1> QED BY <1>1, SessionsInvariant, PTL

(* The preview is left without a session only by an offer that failed      *)
(* between start_uplink and the entry of its session.                      *)
THEOREM UplinkIsNotForgotten == Spec => []UplinkStrandedOnlyByFailedOffer
<1>1. Inv => UplinkStrandedOnlyByFailedOffer
  <2>1. Free => job.at = "idle"
    BY DEF Free, Idle
  <2> QED BY <2>1 DEF Inv, SubscriptionsInv, SessionsAreFed, UplinkStrandedOnlyByFailedOffer
<1> QED BY <1>1, SessionsInvariant, PTL

(* When WebRtcPlugin::stop returns, the sessions, the detector, the peers  *)
(* and the SDK's callbacks are gone.                                       *)
THEOREM StopReleases == Spec => []StoppedIsReleased
<1>1. ASSUME Inv, stopping = "stopped"
      PROVE  /\ Sessions = {} /\ holds = 0 /\ callbacks = {}
             /\ \A p \in Peers : peer[p] \in {"none", "freed"}
  <2>1. Sessions = {} /\ job.at = "idle" /\ \A p \in Peers : peer[p] \in {"none", "freed"}
    BY <1>1 DEF Inv, StopInv, Free, Idle
  <2>2. connected = {}
    BY <1>1, <2>1 DEF Inv, TypeOK
  <2>3. holds = 0
    BY <1>1, <2>1, <2>2 DEF Inv, SubscriptionsInv, SessionsAreFed
  <2>4. callbacks = {}
    <3>1. \A c \in callbacks : c.peer \in Peers /\ peer[c.peer] \in {"live", "reaping"}
      BY <1>1 DEF Inv, TypeOK, Callback, ReportsInv
    <3> QED BY <2>1, <3>1
  <2> QED BY <2>1, <2>3, <2>4
<1>2. Inv => StoppedIsReleased
  BY <1>1 DEF StoppedIsReleased
<1> QED BY <1>2, SessionsInvariant, PTL
=============================================================================
