--------------------------- MODULE ViewerSessions ---------------------------
(***************************************************************************)
(* Viewer sessions of the WebRTC plugin (protocol/webrtc/).                *)
(*                                                                         *)
(* One thread, the signaling poller, owns the sessions: it runs the        *)
(* handlers of signaling messages and the tasks posted to it, one after    *)
(* the other.  create_viewer and start_ai_uplink give up the mutex between *)
(* their parts, so each part is a step and job says which comes next.      *)
(* Around it run                                                           *)
(*   - SDK threads, which report that a peer is connected or down: they    *)
(*     copy the peer's handler and then post a task to the poller;         *)
(*   - the cleanup pool, which stops and frees the peers handed to it;     *)
(*   - the thread in WebRtcPlugin::stop.                                   *)
(*                                                                         *)
(* The media queues of the sessions are in the module ViewerQueues.        *)
(***************************************************************************)
EXTENDS Integers, Sequences, FiniteSets

CONSTANTS
    Viewers,         \* viewer ids
    viewer_limit,    \* min(kMaxViewerLimit, max(max_viewers, 1))
    PendingLimit,    \* kPendingCandidateLimit
    PeerBound,       \* bound: peers created in a behaviour
    ReportBound      \* bound: states the SDK reports in a behaviour

ASSUME SessionsAssumption ==
    /\ IsFiniteSet(Viewers)
    /\ viewer_limit \in Nat \ {0}
    /\ PendingLimit \in Nat \ {0}
    /\ PeerBound \in Nat
    /\ ReportBound \in Nat

Peers == 1..PeerBound

(* What the SDK reports; "down" stands for disconnected, failed and closed, *)
(* which on_peer_state treats alike.                                        *)
States == {"connected", "down"}

VARIABLES
    running,
    stopping,            \* how far WebRtcPlugin::stop has come
    viewers,             \* the session's peer per viewer id, 0 for no session
    connected,           \* sessions with connected set
    ready,               \* sessions with remote_description_ready set
    pending_candidates,  \* per viewer id, the number of waiting candidates
    video_sub,           \* video_sub is not 0
    ai_hold_sub,         \* ai_hold_sub (and with it detect_sub) is not 0
    uplinks,             \* preview subscriptions of the plugin in the media source
    holds,               \* AI subscriptions of the plugin in the media source
    job,                 \* what the poller has yet to do of the handler it runs
    tasks,               \* tasks posted to the poller
    peer,                \* per peer: none, live, reaping (deactivated), freed
    callbacks,           \* SDK callbacks that hold a copy of a peer's handler
    raised,              \* history: per peer, the states the SDK has reported
    stranded,            \* history: an offer failed after it got the uplink
    aiRefused            \* history: an AI subscription was refused

pollerVars == <<viewers, connected, ready, pending_candidates, video_sub,
                ai_hold_sub, uplinks, holds, job>>
vars == <<running, stopping, viewers, connected, ready, pending_candidates,
          video_sub, ai_hold_sub, uplinks, holds, job, tasks, peer, callbacks,
          raised, stranded, aiRefused>>

Idle == [at |-> "idle"]
Sessions == {v \in Viewers : viewers[v] # 0}
Pending == {v \in Viewers : pending_candidates[v] > 0}

Callback == [peer : Peers, viewer : Viewers, state : States, at : {"copied", "posting"}]
Event == [peer : Peers, viewer : Viewers, state : States]
SyncTask == {[sync |-> "remove_all_viewers"], [sync |-> "fence"]}

(* queue_reap: the peer is deactivated and left to the cleanup pool.  The  *)
(* order in which the pool's thread serves its queue is left open.         *)
queue_reap(ps) == peer' = [p \in Peers |-> IF p \in ps THEN "reaping" ELSE peer[p]]

-----------------------------------------------------------------------------
(* Sessions vs leave; ai and video say whether the subscriptions stay. *)
Erase(vs, ai, video) ==
    /\ viewers' = [v \in Viewers |-> IF v \in vs THEN 0 ELSE viewers[v]]
    /\ connected' = connected \ vs
    /\ ready' = ready \ vs
    /\ pending_candidates' =
         [v \in Viewers |-> IF v \in vs \cap Sessions THEN 0 ELSE pending_candidates[v]]
    /\ ai_hold_sub' = ai
    /\ holds' = IF ai_hold_sub /\ ~ai THEN holds - 1 ELSE holds
    /\ video_sub' = video
    /\ uplinks' = IF video_sub /\ ~video THEN uplinks - 1 ELSE uplinks

(* Mutant: the AI subscription is kept until the last session goes. *)
remove_viewer_ai_late(vs) ==
    LET last == vs \cap Sessions # {} /\ Sessions \ vs = {}
    IN  Erase(vs, ai_hold_sub /\ ~last, video_sub /\ ~last)

(* Mutant: the preview is given up with the last connected session. *)
remove_viewer_video_early(vs) ==
    LET last == vs \cap Sessions # {} /\ connected \ vs = {}
    IN  Erase(vs, ai_hold_sub /\ ~last, video_sub /\ ~last)

(* Mutant: the preview is never given up. *)
remove_viewer_keeps_video(vs) ==
    LET lastConnected == vs \cap Sessions # {} /\ connected \ vs = {}
    IN  Erase(vs, ai_hold_sub /\ ~lastConnected, video_sub)

(* remove_viewer for each of vs: nothing happens for an id without a       *)
(* session; the last connected session takes the AI subscription with it,  *)
(* the last session the preview subscription.                              *)
remove_viewer(vs) ==
    LET gone == vs \cap Sessions
        lastConnected == gone # {} /\ connected \ vs = {}
        last == gone # {} /\ Sessions \ vs = {}
    IN  Erase(vs, ai_hold_sub /\ ~lastConnected, video_sub /\ ~last)

PeersOf(vs) == {viewers[v] : v \in vs \cap Sessions}

(* The poller is free for the next message or task. *)
Free == job = Idle

Quiet == UNCHANGED <<running, stopping, callbacks, raised>>

-----------------------------------------------------------------------------
(* Signaling messages.  on_signaling_message ignores them once stop began. *)

(* create_viewer, up to start_uplink's first look at video_sub. *)
Offer(v) ==
    /\ Free /\ running
    /\ \E p \in Peers : peer[p] = "none"
    /\ remove_viewer({v})
    /\ queue_reap(PeersOf({v}))
    /\ job' = IF Cardinality(Sessions \ {v}) >= viewer_limit THEN Idle
              ELSE [at |-> IF video_sub' THEN "start_peer" ELSE "subscribe",
                    viewer |-> v]
    /\ UNCHANGED <<tasks, stranded, aiRefused>> /\ Quiet

(* Mutant: the limit per viewer is dropped. *)
CandidateUnlimited(v) ==
    /\ Free /\ running
    /\ v \notin ready
    /\ pending_candidates[v] <= PendingLimit
    /\ v \in Sessions \/ Cardinality(Pending \ {v}) < PendingLimit
    /\ pending_candidates' = [pending_candidates EXCEPT ![v] = @ + 1]
    /\ UNCHANGED <<viewers, connected, ready, video_sub, ai_hold_sub, uplinks,
                   holds, job, tasks, peer, stranded, aiRefused>>
    /\ Quiet

(* apply_remote_candidate.  A candidate that the session is ready for goes *)
(* straight to its peer; any other waits in pending_candidates, unless one *)
(* of the two limits is reached.                                           *)
Candidate(v) ==
    /\ Free /\ running
    /\ v \notin ready
    /\ pending_candidates[v] < PendingLimit
    /\ v \in Sessions \/ Cardinality(Pending) < PendingLimit
    /\ pending_candidates' = [pending_candidates EXCEPT ![v] = @ + 1]
    /\ UNCHANGED <<viewers, connected, ready, video_sub, ai_hold_sub, uplinks,
                   holds, job, tasks, peer, stranded, aiRefused>>
    /\ Quiet

(* on_peer_left *)
PeerLeft(v) ==
    /\ Free /\ running
    /\ remove_viewer({v})
    /\ queue_reap(PeersOf({v}))
    /\ UNCHANGED <<job, tasks, stranded, aiRefused>> /\ Quiet

(* on_signaling_disconnected *)
SignalingLost ==
    /\ Free /\ running
    /\ remove_viewer(Viewers)
    /\ queue_reap(PeersOf(Viewers))
    /\ UNCHANGED <<job, tasks, stranded, aiRefused>> /\ Quiet

-----------------------------------------------------------------------------
(* The rest of create_viewer.                                              *)

(* start_uplink subscribes to the preview stream; the source may refuse. *)
UplinkSubscribe(ok) ==
    /\ job.at = "subscribe"
    /\ uplinks' = IF ok THEN uplinks + 1 ELSE uplinks
    /\ job' = IF ok THEN [job EXCEPT !.at = "keep"] ELSE Idle
    /\ UNCHANGED <<viewers, connected, ready, pending_candidates, video_sub,
                   ai_hold_sub, holds, tasks, peer, stranded, aiRefused>>
    /\ Quiet

(* start_uplink keeps the subscription unless stop has begun meanwhile. *)
UplinkKeep ==
    /\ job.at = "keep"
    /\ LET keep == running /\ ~video_sub
       IN  /\ video_sub' = (video_sub \/ keep)
           /\ uplinks' = IF keep THEN uplinks ELSE uplinks - 1
           /\ job' = IF keep THEN [job EXCEPT !.at = "start_peer"] ELSE Idle
    /\ UNCHANGED <<viewers, connected, ready, pending_candidates, ai_hold_sub,
                   holds, tasks, peer, stranded, aiRefused>>
    /\ Quiet

(* The new peer gets its handlers and is started; one that cannot start is *)
(* handed to the cleanup pool.                                             *)
PeerStart(p, ok) ==
    /\ job.at = "start_peer"
    /\ peer[p] = "none" /\ \A q \in 1..(p - 1) : peer[q] # "none"
    /\ peer' = [peer EXCEPT ![p] = IF ok THEN "live" ELSE "reaping"]
    /\ job' = IF ok THEN [at |-> "add", viewer |-> job.viewer, peer |-> p] ELSE Idle
    /\ stranded' = (stranded \/ (~ok /\ Sessions = {}))
    /\ UNCHANGED <<viewers, connected, ready, pending_candidates, video_sub,
                   ai_hold_sub, uplinks, holds, tasks, aiRefused>>
    /\ Quiet

(* Mutant: a peer that comes too late is forgotten instead of reaped. *)
AddViewerForgets ==
    /\ job.at = "add"
    /\ IF running
       THEN /\ viewers' = [viewers EXCEPT ![job.viewer] = job.peer]
            /\ job' = [job EXCEPT !.at = "offer"]
            /\ stranded' = FALSE
       ELSE /\ job' = Idle
            /\ stranded' = (stranded \/ Sessions = {})
            /\ UNCHANGED viewers
    /\ UNCHANGED <<connected, ready, pending_candidates, video_sub, ai_hold_sub,
                   uplinks, holds, tasks, peer, aiRefused>>
    /\ Quiet

(* The session is entered, unless stop has begun. *)
AddViewer ==
    /\ job.at = "add"
    /\ IF running
       THEN /\ viewers' = [viewers EXCEPT ![job.viewer] = job.peer]
            /\ job' = [job EXCEPT !.at = "offer"]
            /\ stranded' = FALSE
            /\ UNCHANGED peer
       ELSE /\ queue_reap({job.peer})
            /\ job' = Idle
            /\ stranded' = (stranded \/ Sessions = {})
            /\ UNCHANGED viewers
    /\ UNCHANGED <<connected, ready, pending_candidates, video_sub, ai_hold_sub,
                   uplinks, holds, tasks, aiRefused>>
    /\ Quiet

(* handle_remote_offer answers; then the candidates that came early are    *)
(* applied.  A session whose offer is refused is removed.                  *)
RemoteOffer(ok) ==
    /\ job.at = "offer"
    /\ IF ok
       THEN /\ ready' = ready \cup {job.viewer}
            /\ pending_candidates' = [pending_candidates EXCEPT ![job.viewer] = 0]
            /\ UNCHANGED <<viewers, connected, video_sub, ai_hold_sub, uplinks,
                           holds, peer>>
       ELSE remove_viewer({job.viewer}) /\ queue_reap(PeersOf({job.viewer}))
    /\ job' = Idle
    /\ UNCHANGED <<tasks, stranded, aiRefused>> /\ Quiet

-----------------------------------------------------------------------------
(* Peer events.                                                            *)

Reports == {r \in Peers \X States : r[2] \in raised[r[1]]}

(* External: the SDK reports a state of peer p, each state once.  The      *)
(* callback copies on_state_; the handler knows the viewer the peer was    *)
(* made for.  A deactivated peer has no handler and nothing follows.       *)
Report(p, v, s) ==
    /\ peer[p] = "live"
    /\ s \notin raised[p] /\ Cardinality(Reports) < ReportBound
    /\ viewers[v] = p \/ (job.at = "add" /\ job.peer = p /\ job.viewer = v)
    /\ callbacks' = callbacks \cup {[peer |-> p, viewer |-> v, state |-> s, at |-> "copied"]}
    /\ raised' = [raised EXCEPT ![p] = @ \cup {s}]
    /\ UNCHANGED <<running, stopping, pollerVars, tasks, peer, stranded, aiRefused>>

(* Mutant: a callback that gives up is still counted. *)
PostBeginCounts(c) ==
    /\ c.at = "copied" /\ running
    /\ callbacks' = (callbacks \ {c}) \cup {[c EXCEPT !.at = "posting"]}
    /\ UNCHANGED <<running, stopping, pollerVars, tasks, peer, raised, stranded, aiRefused>>

(* on_peer_state on the SDK's thread calls post_signaling, which gives up  *)
(* when the plugin is no longer running ...                                *)
PostBegin(c) ==
    /\ c.at = "copied"
    /\ callbacks' = (callbacks \ {c}) \cup
                    (IF running THEN {[c EXCEPT !.at = "posting"]} ELSE {})
    /\ UNCHANGED <<running, stopping, pollerVars, tasks, peer, raised, stranded, aiRefused>>

(* ... and otherwise hands the task to the poller, which takes it whether   *)
(* or not stop has begun in between.                                       *)
PostEnd(c) ==
    /\ c.at = "posting"
    /\ callbacks' = callbacks \ {c}
    /\ tasks' = Append(tasks, [peer |-> c.peer, viewer |-> c.viewer, state |-> c.state])
    /\ UNCHANGED <<running, stopping, pollerVars, peer, raised, stranded, aiRefused>>

NextTask(t) == Free /\ tasks # <<>> /\ t = Head(tasks) /\ tasks' = Tail(tasks)

(* The task finds its peer while somebody still owns it: "freed" is a peer *)
(* that was stopped and that nobody refers to any more.  A drain that had  *)
(* it in its batch (webrtc_media.cpp:239) makes that moment later, as a    *)
(* slow cleanup pool would.                                                *)
Locked(p) == peer[p] # "freed"

(* Mutant: connected is believed of any peer. *)
on_connected_any(e) ==
    IF viewers[e.viewer] # 0
    THEN /\ connected' = connected \cup {e.viewer}
         /\ job' = IF ai_hold_sub THEN Idle ELSE [at |-> "ai_subscribe"]
    ELSE UNCHANGED <<connected, job>>

(* on_connected, up to start_ai_uplink's first look at ai_hold_sub: only   *)
(* the session's own peer counts.                                          *)
on_connected(e) ==
    IF viewers[e.viewer] = e.peer
    THEN /\ connected' = connected \cup {e.viewer}
         /\ job' = IF ai_hold_sub THEN Idle ELSE [at |-> "ai_subscribe"]
    ELSE UNCHANGED <<connected, job>>

(* on_peer_state on the poller, connected. *)
ConnectedTask ==
    \E e \in Event :
        /\ NextTask(e)
        /\ e.state = "connected"
        /\ IF Locked(e.peer) THEN on_connected(e) ELSE UNCHANGED <<connected, job>>
        /\ UNCHANGED <<viewers, ready, pending_candidates, video_sub, ai_hold_sub,
                       uplinks, holds, peer, stranded, aiRefused>>
        /\ Quiet

(* on_peer_state on the poller, any other state: the session of that       *)
(* viewer id is removed, whichever peer it has by now.                     *)
DownTask ==
    \E e \in Event :
        /\ NextTask(e)
        /\ e.state = "down"
        /\ IF Locked(e.peer)
           THEN remove_viewer({e.viewer}) /\ queue_reap(PeersOf({e.viewer}))
           ELSE UNCHANGED <<viewers, connected, ready, pending_candidates, video_sub,
                            ai_hold_sub, uplinks, holds, peer>>
        /\ UNCHANGED <<job, stranded, aiRefused>>
        /\ Quiet

(* start_ai_uplink subscribes to the AI stream and the detections. *)
AiSubscribe(ok) ==
    /\ job.at = "ai_subscribe"
    /\ holds' = IF ok THEN holds + 1 ELSE holds
    /\ job' = IF ok THEN [at |-> "ai_keep"] ELSE Idle
    /\ aiRefused' = (aiRefused \/ ~ok)
    /\ UNCHANGED <<viewers, connected, ready, pending_candidates, video_sub,
                   ai_hold_sub, uplinks, tasks, peer, stranded>>
    /\ Quiet

(* start_ai_uplink keeps the subscription for a connected viewer. *)
AiKeep ==
    /\ job.at = "ai_keep"
    /\ LET keep == running /\ connected # {} /\ ~ai_hold_sub
       IN  /\ ai_hold_sub' = (ai_hold_sub \/ keep)
           /\ holds' = IF keep THEN holds ELSE holds - 1
    /\ job' = Idle
    /\ UNCHANGED <<viewers, connected, ready, pending_candidates, video_sub,
                   uplinks, tasks, peer, stranded, aiRefused>>
    /\ Quiet

-----------------------------------------------------------------------------
(* Mutant: a peer is freed under its callbacks. *)
ReapAtOnce(p) ==
    /\ peer[p] = "reaping"
    /\ peer' = [peer EXCEPT ![p] = "freed"]
    /\ UNCHANGED <<running, stopping, pollerVars, tasks, callbacks, raised, stranded, aiRefused>>

(* Cleanup pool: WebRtcPeerConnection::stop waits for the callbacks that   *)
(* are under way (CallbackGuard), closes and frees the peer, and the last  *)
(* reference to it goes.                                                   *)
Reap(p) ==
    /\ peer[p] = "reaping"
    /\ \A c \in callbacks : c.peer # p
    /\ peer' = [peer EXCEPT ![p] = "freed"]
    /\ UNCHANGED <<running, stopping, pollerVars, tasks, callbacks, raised, stranded, aiRefused>>

-----------------------------------------------------------------------------
(* WebRtcPlugin::stop.  Between StopBegin and its first task it silences   *)
(* and stops the signaling client and waits for the media pool             *)
(* (webrtc_plugin.cpp:89-94).  No handler and no drain waits for the       *)
(* thread in stop, and none of this touches what is modelled here: a       *)
(* message that still comes is ignored, and the frames of a drain belong   *)
(* to ViewerQueues.                                                        *)

StopBegin ==
    /\ stopping = "no"
    /\ running' = FALSE
    /\ stopping' = "begun"
    /\ UNCHANGED <<pollerVars, tasks, peer, callbacks, raised, stranded, aiRefused>>

(* call_signaling_sync posts and waits, first for remove_all_viewers, then *)
(* for an empty task.                                                      *)
StopPosts(from, sync, to) ==
    /\ stopping = from
    /\ stopping' = to
    /\ tasks' = Append(tasks, [sync |-> sync])
    /\ UNCHANGED <<running, pollerVars, peer, callbacks, raised, stranded, aiRefused>>

(* Mutant: remove_all_viewers leaves the sessions alone. *)
RemoveAllTaskSkips ==
    /\ NextTask([sync |-> "remove_all_viewers"])
    /\ stopping' = "removed"
    /\ UNCHANGED <<running, pollerVars, peer, callbacks, raised, stranded, aiRefused>>

RemoveAllTask ==
    /\ NextTask([sync |-> "remove_all_viewers"])
    /\ remove_viewer(Viewers)
    /\ queue_reap(PeersOf(Viewers))
    /\ stopping' = "removed"
    /\ UNCHANGED <<running, job, callbacks, raised, stranded, aiRefused>>

FenceTask ==
    /\ NextTask([sync |-> "fence"])
    /\ stopping' = "fenced"
    /\ UNCHANGED <<running, pollerVars, peer, callbacks, raised, stranded, aiRefused>>

(* The references and the candidates are dropped and destroy_runtime       *)
(* destroys the pools, then the poller with the tasks it still has.        *)
(* Destroying a pool is external: it runs what was posted to it.           *)
StopDestroys ==
    /\ stopping = "fenced"
    /\ \A p \in Peers : peer[p] # "reaping"
    /\ Free
    /\ stopping' = "stopped"
    /\ pending_candidates' = [v \in Viewers |-> 0]
    /\ tasks' = <<>>
    /\ UNCHANGED <<running, viewers, connected, ready, video_sub, ai_hold_sub, uplinks,
                   holds, job, peer, callbacks, raised, stranded, aiRefused>>

-----------------------------------------------------------------------------
(* The plugin right after start. *)
Init ==
    /\ running = TRUE /\ stopping = "no"
    /\ viewers = [v \in Viewers |-> 0]
    /\ connected = {} /\ ready = {}
    /\ pending_candidates = [v \in Viewers |-> 0]
    /\ video_sub = FALSE /\ ai_hold_sub = FALSE
    /\ uplinks = 0 /\ holds = 0
    /\ job = Idle
    /\ tasks = <<>>
    /\ peer = [p \in Peers |-> "none"]
    /\ callbacks = {}
    /\ raised = [p \in Peers |-> {}]
    /\ stranded = FALSE /\ aiRefused = FALSE

(* The poller's own progress, without the messages that may come. *)
Handler ==
    \/ \E ok \in BOOLEAN : UplinkSubscribe(ok)
    \/ UplinkKeep
    \/ \E p \in Peers, ok \in BOOLEAN : PeerStart(p, ok)
    \/ AddViewer
    \/ \E ok \in BOOLEAN : RemoteOffer(ok)
    \/ ConnectedTask
    \/ DownTask
    \/ \E ok \in BOOLEAN : AiSubscribe(ok)
    \/ AiKeep
    \/ RemoveAllTask
    \/ FenceTask

Message ==
    \/ \E v \in Viewers : Offer(v)
    \/ \E v \in Viewers : Candidate(v)
    \/ \E v \in Viewers : PeerLeft(v)
    \/ SignalingLost

Sdk == \E c \in callbacks : PostBegin(c) \/ PostEnd(c)

Stopper ==
    \/ StopPosts("begun", "remove_all_viewers", "removing")
    \/ StopPosts("removed", "fence", "fencing")
    \/ StopDestroys

Next ==
    \/ Handler
    \/ Message
    \/ \E p \in Peers, v \in Viewers, s \in States : Report(p, v, s)
    \/ Sdk
    \/ \E p \in Peers : Reap(p)
    \/ StopBegin
    \/ Stopper

Spec == Init /\ [][Next]_vars

(* Every thread that can run does: the poller, the SDK's threads inside a  *)
(* callback, the cleanup pool, and the thread in stop, for which the       *)
(* client's close and a drain's writes return.  Nobody is obliged to send  *)
(* a message, to report a state or to call stop.                           *)
FairSpec == Spec /\ WF_vars(Handler) /\ WF_vars(Sdk) /\ WF_vars(Stopper)
                 /\ \A p \in Peers : WF_vars(Reap(p))

-----------------------------------------------------------------------------
TypeOK ==
    /\ running \in BOOLEAN
    /\ stopping \in {"no", "begun", "removing", "removed", "fencing", "fenced", "stopped"}
    /\ viewers \in [Viewers -> Peers \cup {0}]
    /\ connected \subseteq Sessions /\ ready \subseteq Sessions
    /\ pending_candidates \in [Viewers -> 0..PendingLimit]
    /\ video_sub \in BOOLEAN /\ ai_hold_sub \in BOOLEAN
    /\ uplinks \in 0..1 /\ holds \in 0..1
    /\ job \in {Idle} \cup [at : {"subscribe", "keep", "start_peer"}, viewer : Viewers]
             \cup [at : {"add", "offer"}, viewer : Viewers, peer : Peers]
             \cup [at : {"ai_subscribe", "ai_keep"}]
    /\ tasks \in Seq(Event \cup SyncTask)
    /\ peer \in [Peers -> {"none", "live", "reaping", "freed"}]
    /\ callbacks \subseteq Callback
    /\ raised \in [Peers -> SUBSET States]
    /\ stranded \in BOOLEAN /\ aiRefused \in BOOLEAN

(* Whoever has a session is fed: the plugin holds the preview stream, and  *)
(* what it holds in the media source is what video_sub and ai_hold_sub     *)
(* remember, but for the subscription a handler is just taking.            *)
SessionsAreFed ==
    /\ Sessions # {} => video_sub
    /\ uplinks = (IF video_sub THEN 1 ELSE 0) + (IF job.at = "keep" THEN 1 ELSE 0)
    /\ holds = (IF ai_hold_sub THEN 1 ELSE 0) + (IF job.at = "ai_keep" THEN 1 ELSE 0)

(* The detector is kept running exactly for connected viewers: never       *)
(* without one, and never missing for one between two handlers, unless the *)
(* source refused it.                                                      *)
AiFollowsConnected ==
    /\ ai_hold_sub => connected # {}
    /\ Free /\ running /\ ~aiRefused /\ connected # {} => ai_hold_sub

(* A session counts as connected only through a report of its own peer,    *)
(* not through one that a replaced peer left behind.                       *)
ConnectedByOwnPeer ==
    \A v \in connected : "connected" \in raised[viewers[v]]

(* A peer that runs belongs to exactly one session, or to the offer being  *)
(* handled; whoever lost it has handed it to the cleanup pool.             *)
RunningPeersAreOwned ==
    \A p \in Peers :
        LET owners == {v \in Viewers : viewers[v] = p}
            inHand == job.at = "add" /\ job.peer = p
        IN  /\ peer[p] = "live" => (inHand /\ owners = {}) \/ (~inHand /\ Cardinality(owners) = 1)
            /\ peer[p] # "live" => ~inHand /\ owners = {}

(* The preview outlives the last session only if an offer failed between   *)
(* start_uplink and the entry of its session.                              *)
UplinkStrandedOnlyByFailedOffer ==
    Free /\ Sessions = {} /\ uplinks > 0 => stranded

(* When stop returns there is no session, no hold on the detector, no peer *)
(* that was not freed, and no SDK callback that could still reach the      *)
(* poller or the plugin.                                                   *)
StoppedIsReleased ==
    stopping = "stopped" =>
        /\ Sessions = {} /\ holds = 0
        /\ callbacks = {}
        /\ \A p \in Peers : peer[p] \in {"none", "freed"}

(* stop returns. *)
StopReturns == stopping = "begun" ~> stopping = "stopped"

(* A deactivated peer has no say any more: a posted report removes a       *)
(* session only if it is of the session's own peer.                        *)
OnlyOwnPeerEndsSession ==
    [][\A v \in Viewers, e \in Event :
         /\ tasks # <<>> /\ e = Head(tasks) /\ tasks' = Tail(tasks)
         /\ viewers[v] # 0 /\ viewers'[v] = 0
         => e.peer = viewers[v]]_vars

=============================================================================
