---------------------------- MODULE ViewerQueues ----------------------------
(***************************************************************************)
(* The way of a frame from the media source to a viewer's peer             *)
(* (protocol/webrtc/webrtc_media.cpp).                                     *)
(*                                                                         *)
(* Three capture threads (video, audio, detections) put what they publish  *)
(* into the queues of the connected sessions under the plugin's mutex and, *)
(* if no drain is scheduled, post one to the media pool after they gave    *)
(* the mutex up.  The pool's one thread takes all queues at once and       *)
(* writes them to the peers without the mutex, while sessions come and go  *)
(* and the cleanup pool frees the peers of those that went.                *)
(*                                                                         *)
(* How sessions come to be is the subject of ViewerSessions; here they are *)
(* entered, connected and removed in one step each.                        *)
(***************************************************************************)
EXTENDS Integers, Sequences, FiniteSets, SequencesExt

CONSTANTS
    Viewers,            \* viewer ids
    Sizes,              \* sizes of video frames
    video_queue_limit,  \* bytes a session may have queued
    kVideoQueueFrames,  \* video frames a session may have queued
    kAudioQueueFrames,  \* audio frames a session may have queued
    PeerBound,          \* bound: peers created in a behaviour
    FrameBound          \* bound: video frames published in a behaviour

ASSUME QueuesAssumption ==
    /\ Sizes \subseteq Nat \ {0}
    /\ {video_queue_limit, kVideoQueueFrames, kAudioQueueFrames} \subseteq Nat \ {0}
    /\ {PeerBound, FrameBound} \subseteq Nat

Peers == 1..PeerBound
Threads == {"video", "audio", "detect", "poller"}
Frame == [no : 1..FrameBound, key : BOOLEAN, size : Sizes]

VARIABLES
    running,
    viewers,           \* the session's peer per viewer id, 0 for no session
    connected,         \* sessions with connected set
    video_queue,       \* per viewer id, the frames queued
    video_bytes,
    audio_queue,       \* per viewer id, the number of audio frames queued
    latest_detection,  \* viewer ids for which a detection waits
    keyframe_pending,
    drain_scheduled,
    todo,              \* per thread, what it does after it gave up the mutex
    drains,            \* drains posted to the media pool
    batches,           \* per peer, the frames the running drain has yet to write
    sending,           \* the peer inside writeFrame, 0 for none
    media_ready_,      \* peers whose media_ready_ is set
    peer,              \* per peer: none, live, reaping, freed
    published,         \* history: video frames published
    gap,               \* history: sessions that miss a frame since their last key frame
    asked,             \* the encoder was asked for a key frame it has not sent yet
    written            \* history: per peer, the number of the last frame written

sessionVars == <<viewers, connected, media_ready_, peer>>
queueVars == <<video_queue, video_bytes, audio_queue, latest_detection>>
vars == <<running, viewers, connected, video_queue, video_bytes, audio_queue,
          latest_detection, keyframe_pending, drain_scheduled, todo, drains, batches,
          sending, media_ready_, peer, published, gap, asked, written>>

Sessions == {v \in Viewers : viewers[v] # 0}
NewQueue == <<>>
Bytes(q) ==
    LET sum[i \in 0..Len(q)] == IF i = 0 THEN 0 ELSE sum[i - 1] + q[i].size
    IN  sum[Len(q)]

-----------------------------------------------------------------------------
(* Sessions, as ViewerSessions has them.                                   *)

(* create_viewer enters a new session with empty queues. *)
Enter(v, p) ==
    /\ running /\ viewers[v] = 0 /\ todo["poller"] = {}
    /\ peer[p] = "none" /\ \A q \in 1..(p - 1) : peer[q] # "none"
    /\ viewers' = [viewers EXCEPT ![v] = p]
    /\ peer' = [peer EXCEPT ![p] = "live"]
    /\ UNCHANGED <<running, connected, queueVars, keyframe_pending, drain_scheduled,
                   todo, drains, batches, sending, media_ready_, published,
                   gap, written, asked>>

(* The SDK's connected callback sets media_ready_, even of a peer that has *)
(* been deactivated meanwhile ...                                          *)
ReportConnected(p) ==
    /\ peer[p] \in {"live", "reaping"}
    /\ media_ready_' = media_ready_ \cup {p}
    /\ UNCHANGED <<running, viewers, connected, queueVars, keyframe_pending,
                   drain_scheduled, todo, drains, batches, sending, peer, published, gap, written, asked>>

(* Mutant: no key frame is asked for when a viewer connects. *)
on_connected_silent(v) ==
    /\ v \in Sessions \ connected /\ viewers[v] \in media_ready_
    /\ connected' = connected \cup {v}
    /\ UNCHANGED <<running, viewers, queueVars, keyframe_pending, drain_scheduled,
                   todo, drains, batches, sending, media_ready_, peer, published, gap, written, asked>>

(* ... and on_connected on the poller sets connected of the session and    *)
(* goes on to ask for a key frame.                                         *)
on_connected(v) ==
    /\ todo["poller"] = {}
    /\ v \in Sessions \ connected /\ viewers[v] \in media_ready_
    /\ connected' = connected \cup {v}
    /\ todo' = [todo EXCEPT !["poller"] = {"request"}]
    /\ UNCHANGED <<running, viewers, queueVars, keyframe_pending, drain_scheduled,
                   drains, batches, sending, media_ready_, peer, published, gap, written, asked>>

(* remove_viewer: the queues go with the session, the peer is deactivated  *)
(* and left to the cleanup pool; the last session clears drain_scheduled.  *)
remove_viewer(v) ==
    /\ v \in Sessions /\ todo["poller"] = {}
    /\ viewers' = [viewers EXCEPT ![v] = 0]
    /\ connected' = connected \ {v}
    /\ video_queue' = [video_queue EXCEPT ![v] = NewQueue]
    /\ video_bytes' = [video_bytes EXCEPT ![v] = 0]
    /\ audio_queue' = [audio_queue EXCEPT ![v] = 0]
    /\ latest_detection' = latest_detection \ {v}
    /\ gap' = gap \ {v}
    /\ media_ready_' = media_ready_ \ {viewers[v]}
    /\ peer' = [peer EXCEPT ![viewers[v]] = "reaping"]
    /\ drain_scheduled' = (drain_scheduled /\ Sessions # {v})
    /\ UNCHANGED <<running, keyframe_pending, todo, drains, batches, sending,
                   published, written, asked>>

(* The cleanup pool stops the peer: media_ready_ is cleared once more and  *)
(* the transceivers are freed.  Nothing here waits for a send.             *)
Reap(p) ==
    /\ peer[p] = "reaping"
    /\ peer' = [peer EXCEPT ![p] = "freed"]
    /\ media_ready_' = media_ready_ \ {p}
    /\ UNCHANGED <<running, viewers, connected, queueVars, keyframe_pending,
                   drain_scheduled, todo, drains, batches, sending, published, gap, written, asked>>

StopBegin ==
    /\ running
    /\ running' = FALSE
    /\ UNCHANGED <<sessionVars, queueVars, keyframe_pending, drain_scheduled, todo,
                   drains, batches, sending, published, gap, written, asked>>

-----------------------------------------------------------------------------
(* Capture threads.                                                        *)

(* Is there no room for frame f in the queue of v?  A frame larger than    *)
(* the limit never fits.                                                   *)
Overflows(v, f) ==
    \/ f.size > video_queue_limit
    \/ Len(video_queue[v]) >= kVideoQueueFrames
    \/ video_bytes[v] > video_queue_limit - f.size

(* A thread that queued something schedules a drain, unless one is.        *)
Scheduled(t, queued, request) ==
    LET schedule == queued /\ ~drain_scheduled
    IN  /\ drain_scheduled' = (drain_scheduled \/ queued)
        /\ todo' = [todo EXCEPT ![t] = (IF request THEN {"request"} ELSE {})
                                       \cup (IF schedule THEN {"schedule"} ELSE {})]

(* Frame f is published while the plugin is subscribed: bytes are those    *)
(* queued per viewer before f, awaited says whether a key frame is still   *)
(* waited for after f.                                                     *)
Enqueued(f, bytes, awaited) ==
    LET over == {v \in connected : Overflows(v, f)}
        lost == IF f.key THEN {} ELSE over
        takes == connected \ lost
    IN  /\ running /\ Sessions # {} /\ todo["video"] = {}
        /\ f.no = published + 1
        /\ published' = f.no
        /\ asked' = (asked /\ ~f.key)
        /\ video_queue' = [v \in Viewers |->
             LET q == IF v \in over THEN NewQueue ELSE video_queue[v]
             IN  IF v \in takes THEN Append(q, f) ELSE q]
        /\ video_bytes' = [v \in Viewers |->
             IF v \in takes THEN bytes[v] + f.size ELSE bytes[v]]
        /\ keyframe_pending' = (awaited \/ lost # {})
        /\ gap' = IF f.key THEN {} ELSE gap \cup lost
        /\ Scheduled("video", takes # {}, lost # {} /\ ~awaited)
        /\ UNCHANGED <<running, sessionVars, audio_queue, latest_detection, drains,
                       batches, sending, written>>

(* Mutant: the queue is cleared but its bytes are still counted. *)
enqueue_video_miscounts(f) ==
    Enqueued(f, video_bytes, keyframe_pending /\ ~f.key)

(* enqueue_video.  A queue without room is cleared; a key frame is queued  *)
(* nevertheless, any other frame is dropped and a key frame is asked for,  *)
(* once until one comes.                                                   *)
enqueue_video(f) ==
    Enqueued(f, [v \in Viewers |-> IF v \in connected /\ Overflows(v, f) THEN 0
                                   ELSE video_bytes[v]],
             keyframe_pending /\ ~f.key)

(* Without a session the plugin is not subscribed and hears nothing. *)
PublishUnheard(f) ==
    /\ Sessions = {}
    /\ f.no = published + 1
    /\ published' = f.no
    /\ asked' = (asked /\ ~f.key)
    /\ UNCHANGED <<running, sessionVars, queueVars, keyframe_pending, drain_scheduled,
                   todo, drains, batches, sending, gap, written>>

(* enqueue_audio.  A full queue is cleared before the frame is queued.     *)
(* G711U frames have one size, so the limit in frames is the limit.        *)
enqueue_audio ==
    /\ running /\ todo["audio"] = {}
    /\ audio_queue' = [v \in Viewers |->
         IF v \notin connected THEN audio_queue[v]
         ELSE IF audio_queue[v] >= kAudioQueueFrames THEN 1 ELSE audio_queue[v] + 1]
    /\ Scheduled("audio", connected # {}, FALSE)
    /\ UNCHANGED <<running, sessionVars, video_queue, video_bytes, latest_detection,
                   keyframe_pending, drains, batches, sending, published, gap, written, asked>>

(* enqueue_detection.  Only the latest detection waits. *)
enqueue_detection ==
    /\ running /\ todo["detect"] = {}
    /\ latest_detection' = latest_detection \cup connected
    /\ Scheduled("detect", connected # {}, FALSE)
    /\ UNCHANGED <<running, sessionVars, video_queue, video_bytes, audio_queue,
                   keyframe_pending, drains, batches, sending, published, gap, written, asked>>

(* request_preview_keyframe, outside the mutex: the encoder is asked. *)
RequestKeyframe(t) ==
    /\ "request" \in todo[t]
    /\ asked' = TRUE
    /\ todo' = [todo EXCEPT ![t] = @ \ {"request"}]
    /\ UNCHANGED <<running, sessionVars, queueVars, keyframe_pending, drain_scheduled,
                   drains, batches, sending, published, gap, written>>

(* schedule_drain: post_media refuses once stop has begun. *)
schedule_drain(t) ==
    /\ todo[t] = {"schedule"}
    /\ todo' = [todo EXCEPT ![t] = {}]
    /\ IF running
       THEN drains' = drains + 1 /\ UNCHANGED drain_scheduled
       ELSE drain_scheduled' = FALSE /\ UNCHANGED drains
    /\ UNCHANGED <<running, sessionVars, queueVars, keyframe_pending, batches,
                   sending, published, gap, written, asked>>

-----------------------------------------------------------------------------
(* Media pool.                                                             *)

DrainIdle == sending = 0 /\ \A p \in Peers : batches[p] = NewQueue

(* What a drain takes for peer p. *)
Batch(p) ==
    IF \E v \in Sessions : viewers[v] = p
    THEN video_queue[CHOOSE v \in Sessions : viewers[v] = p] ELSE NewQueue

(* Mutant: the frames are taken from the wrong end. *)
DrainBeginBackwards ==
    /\ drains > 0 /\ DrainIdle
    /\ drains' = drains - 1
    /\ batches' = [p \in Peers |-> Reverse(Batch(p))]
    /\ video_queue' = [v \in Viewers |-> NewQueue]
    /\ video_bytes' = [v \in Viewers |-> 0]
    /\ audio_queue' = [v \in Viewers |-> 0]
    /\ latest_detection' = {}
    /\ drain_scheduled' = FALSE
    /\ UNCHANGED <<running, sessionVars, keyframe_pending, todo, sending, published, gap, written, asked>>

(* Mutant: drain_scheduled is not cleared. *)
DrainBeginStaysScheduled ==
    /\ drains > 0 /\ DrainIdle
    /\ drains' = drains - 1
    /\ batches' = [p \in Peers |-> Batch(p)]
    /\ video_queue' = [v \in Viewers |-> NewQueue]
    /\ video_bytes' = [v \in Viewers |-> 0]
    /\ audio_queue' = [v \in Viewers |-> 0]
    /\ latest_detection' = {}
    /\ UNCHANGED <<running, sessionVars, keyframe_pending, drain_scheduled, todo,
                   sending, published, gap, written, asked>>

(* drain takes every queue under the mutex ... *)
DrainBegin ==
    /\ drains > 0 /\ DrainIdle
    /\ drains' = drains - 1
    /\ batches' = [p \in Peers |-> Batch(p)]
    /\ video_queue' = [v \in Viewers |-> NewQueue]
    /\ video_bytes' = [v \in Viewers |-> 0]
    /\ audio_queue' = [v \in Viewers |-> 0]
    /\ latest_detection' = {}
    /\ drain_scheduled' = FALSE
    /\ UNCHANGED <<running, sessionVars, keyframe_pending, todo, sending, published, gap, written, asked>>

(* ... and then writes frame after frame, in whatever order of the peers.  *)
(* write_video_frame looks at media_ready_ and the transceiver ...         *)
WriteBegin(p) ==
    /\ sending = 0 /\ batches[p] # NewQueue
    /\ IF p \in media_ready_
       THEN sending' = p /\ UNCHANGED batches
       ELSE batches' = [batches EXCEPT ![p] = Tail(@)] /\ UNCHANGED sending
    /\ UNCHANGED <<running, sessionVars, queueVars, keyframe_pending, drain_scheduled,
                   todo, drains, published, gap, written, asked>>

(* ... and calls writeFrame. *)
WriteEnd ==
    /\ sending # 0
    /\ written' = [written EXCEPT ![sending] = Head(batches[sending]).no]
    /\ batches' = [batches EXCEPT ![sending] = Tail(@)]
    /\ sending' = 0
    /\ UNCHANGED <<running, sessionVars, queueVars, keyframe_pending, drain_scheduled,
                   todo, drains, published, gap, asked>>

-----------------------------------------------------------------------------
Init ==
    /\ running = TRUE
    /\ viewers = [v \in Viewers |-> 0] /\ connected = {}
    /\ video_queue = [v \in Viewers |-> NewQueue]
    /\ video_bytes = [v \in Viewers |-> 0]
    /\ audio_queue = [v \in Viewers |-> 0]
    /\ latest_detection = {}
    /\ keyframe_pending = FALSE /\ drain_scheduled = FALSE
    /\ todo = [t \in Threads |-> {}]
    /\ drains = 0
    /\ batches = [p \in Peers |-> NewQueue]
    /\ sending = 0
    /\ media_ready_ = {}
    /\ peer = [p \in Peers |-> "none"]
    /\ published = 0
    /\ gap = {} /\ asked = FALSE
    /\ written = [p \in Peers |-> 0]

Capture(t) == RequestKeyframe(t) \/ schedule_drain(t)

Drain == DrainBegin \/ (\E p \in Peers : WriteBegin(p)) \/ WriteEnd

Next ==
    \/ \E v \in Viewers, p \in Peers : Enter(v, p)
    \/ \E p \in Peers : ReportConnected(p)
    \/ \E v \in Viewers : on_connected(v)
    \/ \E v \in Viewers : remove_viewer(v)
    \/ \E p \in Peers : Reap(p)
    \/ StopBegin
    \/ \E f \in Frame : enqueue_video(f)
    \/ \E f \in Frame : PublishUnheard(f)
    \/ enqueue_audio
    \/ enqueue_detection
    \/ \E t \in Threads : Capture(t)
    \/ Drain

Spec == Init /\ [][Next]_vars

-----------------------------------------------------------------------------
(* The types, and with them a queue's limits and count: video_bytes is      *)
(* what is queued, and more than video_queue_limit only for one key frame  *)
(* that is by itself too large (webrtc_media.cpp:142-170).                 *)
TypeOK ==
    /\ running \in BOOLEAN
    /\ viewers \in [Viewers -> Peers \cup {0}]
    /\ connected \subseteq Sessions /\ gap \subseteq Sessions
    /\ video_queue \in [Viewers -> Seq(Frame)]
    /\ \A v \in Viewers :
         /\ video_bytes[v] = Bytes(video_queue[v])
         /\ Len(video_queue[v]) <= kVideoQueueFrames
         /\ video_bytes[v] > video_queue_limit =>
              Len(video_queue[v]) = 1 /\ video_queue[v][1].key
    /\ audio_queue \in [Viewers -> 0..kAudioQueueFrames]
    /\ latest_detection \subseteq Sessions
    /\ keyframe_pending \in BOOLEAN /\ drain_scheduled \in BOOLEAN
    /\ todo \in [Threads -> SUBSET {"request", "schedule"}]
    /\ drains \in Nat
    /\ batches \in [Peers -> Seq(Frame)]
    /\ sending \in Peers \cup {0}
    /\ media_ready_ \subseteq Peers
    /\ peer \in [Peers -> {"none", "live", "reaping", "freed"}]
    /\ written \in [Peers -> 0..FrameBound]

(* What is queued is on its way: a drain is posted or a capture thread is  *)
(* about to post one, although removing the last session clears            *)
(* drain_scheduled under a drain that is still posted.                     *)
QueuedIsScheduled ==
    running /\ (\E v \in Viewers : video_queue[v] # NewQueue \/ audio_queue[v] > 0
                                   \/ v \in latest_detection)
        => drains > 0 \/ \E t \in Threads : "schedule" \in todo[t]

(* A viewer that lost a frame has a key frame coming: the encoder was asked *)
(* for one since it sent the last, or is just about to be, although         *)
(* keyframe_pending suppresses requests and may be left over from viewers   *)
(* that are gone.                                                           *)
GapAwaitsKeyframe == gap # {} => asked \/ \E t \in Threads : "request" \in todo[t]

(* A peer is written frames in the order of their publication, none twice. *)
WrittenInOrder ==
    [][sending # 0 /\ sending' = 0 => written'[sending] > written[sending]]_vars

(* Sends are over before the peer is destroyed. *)
NoSendIntoFreedPeer == sending # 0 => peer[sending] # "freed"

=============================================================================
