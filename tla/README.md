# ipc-mini: TLA+ models and proofs

ipc-mini is an IP camera: a C++ program on a Hi3516CV610 board that captures,
encodes, records and streams video, and a small Node.js cloud that introduces
viewers to cameras and stores recordings. This directory holds TLA+ models of
the parts whose correctness depends on the order in which threads, callbacks
and messages happen to act, TLC configurations that check them on small
instances, and TLAPS proofs of the results that hold for every instance.

Paths below are relative to the repository root. `PROJECT.json` maps every
definition to the lines it models and lists runs, mutants, findings, hazards
and theorems.

## The system

| part | state | operations | hard because |
|---|---|---|---|
| GOP cache (`src/media/gop_cache.cpp`) | recent groups of pictures, byte count | `push`, `snapshot_from_latest_key` | three limits trimmed in one loop; frames dropped in mid-group |
| media source (`src/media/media_source.cpp`) | tracks, subscribers per stream, an immutable snapshot of them | `set_track`, `subscribe`, `unsubscribe`, `publish` | the demand handler is called outside the data mutex; callbacks run on a snapshot |
| device pipeline (`device_adapter/src/hisilicon_pipeline.cpp`, `devices/hisi_3516cv610/dev_chn.cpp`) | wishes and generations per stream, detector, encoder state | `start`, `stop`, `set_stream_active`, two lifecycle workers | idle timeouts, a load of seconds without the mutex, joins |
| application (`src/core/application.cpp`, `app/main.cpp`) | plugins, phase | `start` with rollback, `stop_media`, `stop_network` | order of shutdown, signals, watchdog |
| recorder (`src/record/segment_recorder.cpp`, `http_segment_uploader.cpp`, `hls_playlist.cpp`) | frame queue, segments kept, playlist, upload queue | `on_frame`, writer thread, uploader thread, `stop` | bounded queues, retries, stop flags, restart |
| WebRTC plugin (`protocol/webrtc/`) | viewer sessions, frame queues, peers to reap | join/leave/offer/candidate, peer events, drain, reap | four kinds of threads, late events of peers that were replaced |
| signaling client (`protocol/webrtc/signaling_client.cpp`, `ws_client.cpp`) | connection, reconnect timer | connect, receive, reconnect | reconnect races |
| signaling server (`cloud/signaling/`) | rooms with one master and some viewers | join, leave, route, close, heartbeat | replaced masters, late closes, rejoins |
| record store (`cloud/signaling/record_http.js`) | uploaded files per day | PUT, DELETE, prune by playlist | a playlist uploaded in mid-rewrite |
| viewer page (`cloud/signaling/public/viewer.js`) | one socket, one peer connection | connect, disconnect, `startPeer`, `closePeer` | four awaits between which every other handler may run |

Interaction. The pipeline's capture threads `publish` frames; the recorder and
the WebRTC sessions `subscribe`. The first subscriber of a stream and the last
one to leave reach the pipeline through the demand handler that
`Application::start` installs. The recorder's writer asks the uploader for PUTs
and DELETEs, which the cloud's record store serves. The WebRTC plugin and the
viewer page find each other through the signaling server.

What makes each part correct is stated below with the properties checked.

## Modules

### GopCache

`push(f)` is one action with the three outcomes of the code: a key frame opens a
group (`StartGop`), another video frame extends the newest group (`ExtendGop`), or
nothing is cached (`Reject`: audio or empty frames, a frame larger than the cache, a
P frame without a group or one that does not fit). The trailing `trim_locked` is
part of both accepting actions; its loop is `Pops`, the least number of groups to
remove such that no limit is exceeded. Payloads are reduced to their sizes.
`published`, `lastPts` and `lastKey` are history variables.

Frames carry a sequence number, their order of publication. Timestamps do not
decrease, as the encoder's do not.

### MediaSource

Clients call `subscribe` and `unsubscribe`, capture threads call `publish`.
A critical section of `mutex_` is one step; `demand_mutex_` is held across the
steps of a call and is therefore a variable. So `subscribe` is
`SubscribeEnter`, `SubscribeDemand` (the handler, outside `mutex_`, which may
refuse), `SubscribeAdd`. `publish` takes the snapshot (`PublishBegin`) and then
calls its members one by one (`PublishCall`), while anything else may happen.
`demanded` is what the handler was last told, per stream.

The snapshot holds callbacks, not subscription ids; in the model a callback goes by
the id of the subscription it was registered with, one for one. A callback in
`toCall` is alive whether or not its subscription is. `departed` is a history
variable: per capture thread, the callbacks that `unsubscribe` has erased since that
thread's `publish` copied its snapshot.

### StreamPipeline and MediaPath

`StreamPipeline` has the pipeline's two lifecycle workers. A worker is a record
of where it is blocked, whether it has been notified, and the generation it
remembers; a notified worker that has not got the mutex yet is a state of its
own, and so is a worker whose `wait_for` has timed out. `start_yolov8_async`
takes the mutex twice and loads in between (`AiStartBegin`, `AiLoad`,
`AiInstall`). `chn::set_sub_stream_enabled` may fail in the two ways the code
has, a resume that fails and a capture that cannot be restarted; `start` does not
look at whether its capture started. `faults` counts and bounds the failures of
device calls. `touched` is a history variable.

`MediaPath` composes it with `MediaSource` the way `Application::start` wires
the two: the device registers its tracks and runs, then clients come; the demand
handler's step is the source's step and the pipeline's `set_stream_active` in
one; capture threads publish throughout. Forgetting the pipeline's variables, it
implements `MediaSource` (a theorem, see below).

### WorkQueue, RecordPipeline and Application

`WorkQueue` is the protocol the recorder and the uploader share: a bounded queue
guarded by a mutex, one worker in a condition variable, and a stop flag that is an
atomic set without the mutex. The worker's evaluation of the condition and its going
to sleep are two steps, since `stop` can act between them while producers cannot.
`RecordPipeline` instantiates it twice and adds the capture thread in `on_frame`,
the uploader's retry loop, `SegmentRecorder::start` and `SegmentRecorder::stop`. A
start prunes (and so may request removals before there is a writer), starts the
writer and subscribes; when the directory cannot be made or the source refuses, the
recorder is stopped and destroyed by the same steps as `stop`, with the same flag,
notification and joins. What the writer does with a frame is reduced to a number of
upload requests, which covers every schedule of segment rotations. Spurious wakeups
are not modelled: they add no new state a worker can reach and nothing may rely on
them.

`Application` is the process around it: `Application::start` with its rollback
(main runs the recorder's start, and, if that fails, its stop, inside it),
the signal handler (the flag and the notification are two steps), main's wait,
`stop_media`, the watchdog and `stop_network`. The device is its capture thread,
which its stop joins; the WebRTC plugin is a stop that may block for ever. A
capture thread that found the recorder in its snapshot before the recorder
unsubscribed may call it after `recorder_.reset()`: undefined behaviour, which
either goes unnoticed or kills the process (`LateFrame`).

The only plugin whose start makes `Application::start` give up is the WebRTC plugin.
`RecordPlugin::start` answers false in three cases, none of which this program has:
`recorder_` is null before the only call, `media_source` is set
(`src/core/application.cpp:35`), and `validate_config` has refused every other
stream id (`src/config/runtime_config.cpp:417-418,556-558`). So the rollback only ever
stops plugins that were not running, and the WebRTC plugin's `stop` then returns at
once.

### SegmentStore

The recording itself, on the card and in the cloud. A file is a key: a segment of
a day, a day's init file, a day's index. An operation of the recorder (`Start`
with the scan, `KeyFrame` for the first segment and for a rotation, `Stop`) is
computed as a whole, as the list of its effects on files and upload queue, from
operators that follow the functions of `segment_recorder.cpp`; `WriterStep` then
carries the effects out one at a time, and the uploader's steps (`Take`, `Send`,
`Answered`, `Unanswered`), a crash or a late commit of the server fall between
them. The server's `Commit` includes the pruning of unlisted segments.

`missed` is a history variable: the keys whose last change the cloud is known to
have missed, through a full queue, a request given up or carried out late, a
crash, or an index that was read while it was being rebuilt. `whole` marks the
rewrites of an index that leave out nothing the same operation is about to add.

Abstractions: the clock does not run backwards; an index is shorter than one
buffer of stdio, so that a rewrite is a truncation and one write, and what is
read in between is empty and refused by the server (413); its size and its content are
read in one step; a limit of 0 is no limit; durations and bytes
are limits of the same form, so one of them is modelled; the wait for formats
and an audio configuration only delays the first segment; a name's suffix `-2`
and `EXT-X-MEDIA-SEQUENCE` are left out; init and segment files may not be
writable, an index always is.

### SignalingRooms and ViewerPage

The handlers of the server run to completion, so each is one action: `Connect`,
`JoinMaster`, `JoinViewer`, `Leave`, `Close` (client gone, closing handshake
done, or heartbeat timeout). A socket on which the server has called `close`
is "closing": it is sent nothing more but what it sends is still handled.
`told` folds the joined, peer-joined and peer-left messages into what a client
knows once it has read everything; for the sockets in `Readers` the messages
about the master are also kept, unread, in `inbox`.

`ViewerPage` puts a viewer's page on such a socket; the other clients do what they
like (`ClientStep`). The page's handlers run to completion, but `startPeer` is
suspended at the microphone, at `replaceTrack` and at the offer, and a suspended
`startPeer` is a member of `tasks`. When it goes on it uses `pc`, `ws` and
`masterId` as they are then. What the browser promised about a peer connection that
was closed meanwhile never settles (W3C WebRTC), so such a task is gone. A browser
that throws before the first await is `StartPeerThrows`. `pcs` and `mics` are what
the browser has open, whether or not the page still refers to it; `offered`,
`failed` and `overtaken` are history variables.

### ViewerSessions and ViewerQueues

`ViewerSessions` is the control side of the WebRTC plugin. Sessions change only
on the signaling poller, whose handlers follow each other; but `create_viewer`
and `start_ai_uplink` give the mutex up between their parts, so `job` says which
part comes next and the other threads act in between: SDK threads that copy a
peer's state handler (`Report`), look at `running` (`PostBegin`) and post
(`PostEnd`); the cleanup pool (`Reap`, which waits for the peer's callbacks as
`CallbackGuard` makes it); and `WebRtcPlugin::stop`. A message handler that does
not give up the mutex in a way another thread could notice is one step:
`remove_viewer` deactivates the peer a moment after it has erased the session,
and a callback that copies the handler in that moment might as well have done so
just before. `uplinks` and `holds` count the plugin's subscriptions in the media
source, as opposed to what `video_sub` and `ai_hold_sub` remember. A peer is
"freed" when it was stopped and nobody refers to it any more; a drain that still has
it in its batch makes that moment later, as a slow cleanup pool does. Before `stop`
posts its first task it stops the signaling client and waits for the media pool;
nobody waits for the thread in `stop`, so those waits are not steps of their own, and
that they end (a drain waits for the SDK only) is part of its fairness. `raised`,
`stranded` and `aiRefused` are history variables.

The pollers and pools come from a library outside the repository: a poller runs
its tasks in the order they were posted, destroying a pool runs what was posted
to it. Detections are taken to be enabled.

`ViewerQueues` is the data side: three capture threads, the queues under the
mutex, the drain on the media pool, the write to a peer as a look at
`media_ready_` and the SDK call. Sessions are entered, connected and removed
there in one step each. A frame is its number, whether it is a key frame, and
its size. `asked` is the encoder's side of a key frame request: set by a
request, cleared by the next key frame, whether or not anybody hears it.
Audio frames are of one size, so their queue is a number; their byte limit
(`kAudioQueueBytes`) is left out.

## Runs

| run | checks | shows |
|---|---|---|
| `gop_cache` | `TypeOK`, `BytesAccounted`, `WithinBudget`, `NewestKept` | accounting and limits through every sequence of up to seven frames |
| `gop_order` (violation) | `SnapshotFollowsLatestKey` | the snapshot can show P frames behind a key frame they were not predicted from, against the doc's description |
| `media_path` | `PathTypeOK`, `DemandMatchesSubscribers`, `LateCallsAreOld`, `SubscribedSubEncodes`, `SidesAgree`, `StoppedIsQuiet`, `FullIdleTime`, `StopReturns`, `AiFollowsDemand`, `AbandonedSubStopsUnlessVisitMissed` | the two-mutex scheme keeps demand and subscriptions together; a callback that outlives its subscription is called only by a publish that began before; source and device agree through timeouts, a failing device call and stop, and the workers eventually do what is asked of them |
| `idle_sub_stream` (violation) | `AbandonedSubStops` | a quick come-and-go leaves the sub stream encoding |
| `application` | `AppTypeOK`, `NothingLeftAtExit`, `StopIsBounded`, `AcceptedFramesReachWriter`, `ShutdownCompletesUnlessWakeupLost` | however the process ends after a signal, the recording is complete and every upload was tried; shutdown is not prolonged by retries and ends but for a lost wakeup |
| `record_stop` (violation) | `StopReturns` | one of them: the recorder's `stop` may never return |
| `segment_store` | `StoreTypeOK`, `SessionIndexIsExact`, `MirroredUnlessMissed`, `RetainedLeavesCloudOnlyByTornIndex` | the index is exact through rotation, retention, midnight, crash and restart; the cloud is a copy except where a request was lost, and the ways it can lose a kept segment are two |
| `viewer_page` | `PageTypeOK`, `RoomsConsistent`, `ViewsAgree`, `PageMeetsCamera`, `PageKeepsHold` | table and clients' views stay consistent; the page ends up connected to the camera that is there and loses hold of nothing but what a failed or overtaken `startPeer` left |
| `viewer_sessions` | `TypeOK`, `SessionsAreFed`, `AiFollowsConnected`, `ConnectedByOwnPeer`, `RunningPeersAreOwned`, `UplinkStrandedOnlyByFailedOffer`, `StoppedIsReleased`, `StopReturns` | sessions, subscriptions and peers stay together through failures, replacements, late reports and stop, which returns |
| `late_report` (violation) | `OnlyOwnPeerEndsSession` | a replaced peer's report ends its successor's session |
| `viewer_queues` | `TypeOK`, `QueuedIsScheduled`, `GapAwaitsKeyframe`, `WrittenInOrder` | queues keep their limits, nothing is forgotten in them, frames go out in order |
| `send_after_free` (violation) | `NoSendIntoFreedPeer` | a send can be under way in a peer that is being freed |

Deadlock checking is off in every run: a camera nobody talks to may rest, and
the bounds end behaviours.

### Bounds

- `gop_cache`: two groups, five bytes, three milliseconds, sizes 0, 1, 2 and 6
  (empty, small, larger, larger than the cache), seven frames: enough to reach
  each limit separately and together and to trim more than once.
- `media_path`: two clients of the sub and the AI stream (the main stream is always
  on and its demand changes nothing), so that "not the last to leave" and "the last
  to leave" differ, two subscriptions in a behaviour after the detector wanted at
  boot, a capture thread for both streams and one failing device call; generations
  are bounded by these. What holds of more clients and publishers is proved.
- `application`, `record_stop`: a frame queue of one for two frames, an upload queue
  of two for three requests, up to three attempts, one signal.
- `segment_store`: two segments over two days, retention of one (every second
  segment drops the first), a queue of two, shorter than the longest operation, two
  attempts, one fault: a crash, an unanswered or late request, or a midnight between
  two readings of the clock. Files that cannot be opened are not counted as faults.
- `viewer_page`: the page, which reconnects when the server has noticed the end of
  its last connection (a connection that lingers is one more viewer, which the other
  clients can be), and two other clients, one room, two ids of the clients' choice and
  one made up by the server, two viewers a room, two peer connections of the page, two
  unread messages: a replaced master, a full room, and a `startPeer` overtaken by
  the next. The two other clients, and their ids, are interchangeable. A socket that
  moves to another room is not among the cases; `leave` handles it like a rejoin.
- `viewer_sessions`: two viewers that share the subscriptions, three peers (so
  that one can replace another), two reports, one waiting candidate (the limit).
  `viewer_limit` is two, so no offer is refused for it in this run: the check
  and the entry are on one thread and the refusal is an early return.
- `viewer_queues`: two viewers, two peers, three frames of a size that fits or
  one that never does, two frames a queue: overflow by frames, by bytes (after an
  oversized key frame) and by size all happen.

### Fairness

Weak fairness of every thread that can run: the lifecycle workers, the writer,
the uploader, a client inside a call, the poller inside a handler or with a
task, an SDK thread inside a callback, the media and cleanup pools, the thread
inside `stop`, main and a signal handler that has begun. It stands for
the operating system's scheduler and, for the uploader, for the socket timeout
that ends every HTTP request (`kPutTimeoutSec`). Nobody is obliged to
subscribe, to leave, to send a message, to report a state, to capture, to send a
signal or to call stop. A timeout is fair because a timer does expire; so is the
watchdog's, while nothing makes `stop_network` return.

## Findings

1. `gop_order`. `push` drops a key frame larger than `max_bytes` but appends
   the P frames that refer to it to the previous group. The doc promises the
   latest key frame and the predicted frames after it. The property counts only
   video: it asks that a P frame published after the latest key frame is only
   handed out behind that key frame.
2. `idle_sub_stream`. The third wait of `stream_lifecycle_worker` looks only at
   `required`. A subscriber that resumes the encoder and leaves before the
   notified worker has the mutex is not seen; the encoder runs on with nobody
   watching until the next subscriber. `AbandonedSubStopsUnlessVisitMissed` shows that
   this is the only way: an abandoned encoder is paused unless the worker is at that
   wait for good in the state the visit leaves, the encoder running and nobody
   requiring it (`VisitMissed`).
3. `record_stop`. `SegmentRecorder::stop` and `HttpSegmentUploader::stop` set the
   flag and notify without the mutex, so the wakeup can fall between the worker's
   check and its sleep; the join then never returns, and no watchdog is armed in
   that phase. `SegmentRecorder::start` does the same when its subscription is refused
   (`segment_recorder.cpp:73-77`), so that the program may hang while starting, and
   main's own wait for a signal has the race too (`main.cpp:32-36,302-307`).
   `ShutdownCompletesUnlessWakeupLost` shows that the writer's, the uploader's and
   main's wait are the only places where the end can be missed.
4. `late_report`. A `failed` or `closed` report that was posted before its peer
   was replaced removes the new session: `remove_viewer` goes by viewer id.
5. `send_after_free`. `stop` of a peer waits for callbacks but not for sends.

Observations without a run of their own.

- A P frame that does not fit its group is dropped while later, smaller ones are
  cached (`gop_cache.cpp:39-43`).
- A session's index is begun empty and filled entry by entry. If the uploader
  sends it in between, the server removes segments that the card still keeps; the
  complete index follows, but the segments do not come back
  (`RetainedLeavesCloudOnlyByTornIndex`). After a crash, what was queued is not
  uploaded again (`MirroredUnlessMissed`).
- A page whose `getUserMedia` is granted after it has disconnected keeps the
  microphone open until the next `closePeer` (`PageKeepsHold`, `overtaken`).
- `create_viewer` takes the preview before it starts the peer; if that fails, or
  stop comes before the session is entered, nobody gives it back until a later
  session ends, and stop does not. `UplinkStrandedOnlyByFailedOffer` shows that
  these are the only ways, and `StoppedIsReleased` therefore does not speak of the
  preview.

## Proofs

Eight modules hold theorems. They are valid for every value of the constants that
satisfies the modules' assumptions, which say no more than what the constants are:
limits are naturals (`ConfigAssumption`, `RecordAssumption`, `SessionsAssumption`,
`QueuesAssumption`, `RoomsAssumption`, `PageAssumption`), the placeholders `NoOne`
and `None` are no client, socket, id or record, the named streams are two different
streams (`SourceAssumption`, `PathAssumption`, `PipelineAssumption`), a segment
lasts (`StoreAssumption`), bounds of the model are naturals (`SignalAssumption` and
the rest). `SessionsAssumption` makes the set of viewers finite, because the code
counts sessions. Every invariant below was an invariant of a TLC run of its
component's instance before it was proved.

### GopCacheProofs

- `CacheInvariant`: `Spec => [](TypeOK /\ BytesAccounted /\ WithinBudget /\ KeyFirst)`.
  The sum of the groups' sizes is stated through an accumulator function whose
  existence is asserted (no recursion, which the provers cannot unfold). The
  induction follows the code: what a group gains `bytes_` gains; a pop removes a
  whole group, so the accumulator of the rest is the old one shifted.
- `CacheIsTyped`, `CacheKeepsBudget`: its parts, for `TypeOK` and `WithinBudget`.
- `NewestAlwaysKept`: `Spec => NewestKept`. The newest group alone never exceeds
  a limit (it was refused otherwise, and its own duration is zero or the loop
  stops before it), so trimming ends before it.

### MediaSourceProofs

- `DemandIsRight`: `SourceTypeOK`, `DemandMatchesSubscribers`, that no subscriber is
  attached to a stream the device was not asked for (`SubscribedIsDemanded`), and
  that frames go to exactly the subscriptions held (`SnapshotIsHeld`), for any
  number of clients, publishers and streams. They are not inductive; the strengthening
  `SourceInv` adds that at most one client is inside a call and holds
  `demand_mutex_` (`OneCallAtATime`), what the demand is at each place of a call
  (`DemandInv`), that ids are below the next one and held once (`HeldInv`,
  `FreshInv`).
- `LateCallsStayOld`: `SourceSpec => []LateCallsAreOld`. A callback that is yet to be
  called and whose subscription is gone was erased after that publish had copied its
  snapshot. It is part of `SourceInv`, and rests on the snapshot being exactly what is
  held whenever a publish may copy it.

### MediaPathProofs

- `PathImplementsSource`: `MediaPath`'s `Spec => SourceSpec`. One case per action
  of the composition: it is an action of the source or changes none of its
  variables. `PathDemandIsRight` and `PathLateCallsStayOld` carry the two results
  over to the composition, whatever the workers do and whatever device calls fail.

- `PathIsTyped`, `SubscribersAreServed`, `BothSidesAgree`, `StopIsQuiet`: the
  invariants of the composition. `PathInv` adds to the source's invariant what
  the pipeline guarantees by itself under any calls and worker steps
  (`RequiredSubRuns`, `FailedStartIsStale`) and the link between the two books:
  without failures a running pipeline wants what the source's book says it was
  asked for, and nothing else but what it was told at boot (`WishFollowsDemand`).
  `FailedStartIsStale` is what makes it inductive: a worker that gives up starting
  the detector clears the wish only if nothing has moved the generation since.
- `IdleTimeIsFull`: `Spec => FullIdleTime`, an action property. A worker that
  waits out an idle time has noted the generation; whatever touched the stream
  since has moved it (`TouchedIsSeen`), so a timeout that finds it unmoved ends an
  undisturbed wait.

### ApplicationProofs

- `AppIsTyped`, `NothingIsLeft`, `ShutdownIsBounded`. The recorder's part of the
  invariant, `RecordInv`, follows the shutdown: flags and joins happen in the
  order of `stop` (`StopOrder`), an accepted frame is written or queued and the
  writer leaves only with all of them written (`FramesAccounted`), every request
  is tried, dropped or queued (`UploadsAccounted`). The bound on the attempts is a
  potential (`AttemptsBounded`): attempts made since the flag, queued requests and
  the attempt in hand never add up to more than `MaxQueued + 1`.
  `RecorderLife` and `ProcessLife` tie the recorder's life to the phases of `main`.

### ViewerSessionsProofs

- `SessionsInvariant` is the inductive invariant; `SessionsAreTyped`,
  `EverySessionIsFed`, `DetectorFollowsViewers`, `OwnPeerConnects`,
  `RunningPeersHaveOneOwner`, `UplinkIsNotForgotten`, `StopReleases` follow from it.
  A handler gives the mutex up between its steps, so the invariant says what
  holds at each place of each handler: what the plugin holds in the media source
  (`SubscriptionsInv`), whose a peer is (`OwnersInv`: a session's or that of the
  offer in hand), that an event in a queue was raised by its peer and no peer is
  freed under its callbacks (`ReportsInv`), and that the tasks of `stop` are
  posted once and in order (`StopInv`).

### ViewerQueuesProofs

- `QueuesAreTyped`: `TypeOK`, and with it the books of the queues. `video_bytes` is
  the sum of the sizes of the queued frames; as in `GopCacheProofs` the sum is
  carried as an accumulator (`Amounts`), and `BytesAmount` shows that the
  recursive function of the model is its last value (by the least index at which
  they would differ).
- `WhatIsQueuedIsSent` (`DrainInv`): only connected sessions have something queued,
  something queued means `drain_scheduled`, and `drain_scheduled` means a drain
  that is posted or about to be. `remove_viewer` may clear the flag because with
  the last session the last queue has gone.
- `LossIsRepaired` (`KeyframeInv`): while anybody is connected, `keyframe_pending`
  means that the encoder was asked. It may be left over from viewers that have
  gone; the request of `on_connected` makes it true again.
- `FramesLeaveInOrder`: `Spec => WrittenInOrder`, an action property. A session has
  its peer for itself (`PeersInv`); what is queued for it is later than what the
  running drain has for its peer, and that later than what was written
  (`FramesInv`).

### ViewerPageProofs

- `PageTypes`, `TableIsConsistent`, `ClientsKnowTheRoom`, `CameraIsMet`,
  `PageLosesNothing`, all from `PageInv`. The first half is about the server alone:
  each handler of `rooms.js` is an operator on states, and a lemma per handler
  says what it does to table, sockets and messages (`RoomsInv`). The second half
  is about the page: what a joined page has yet to read ends with the room as it
  is now (`NewsInv`), so a page that has read everything knows the camera; and
  while there is a peer connection an offer for it is still coming or has been
  sent to the present camera (`OffersInv`), whichever handlers ran between the
  awaits of `startPeer`.

### SegmentStoreProofs

- `StoreInvariant` is the inductive invariant; `IndexIsExact` and `StoreIsTyped`
  follow from it. An operation is a list of effects, so the invariant says what the
  recorder, the files and the index have to do with each other *through the effects
  that are left* (`Consistent`): a segment is kept exactly if its file is there or
  about to be created and is not about to be removed (`FilesFollow`); from the begin
  of its index on, whatever an index lists at any place of the list is there and is
  removed only after another rewrite (`Sound`); the last write of the index says
  `playlist_`, which is the kept segments of the day (`Shown`). With nothing left this is
  `SessionIndexIsExact`.
- One lemma per function of the recorder says that it keeps this while it adds its
  effects (`DropOldestFine`, `PruneFine`, `CloseFine`, `EndBetween`, `BeginFine`,
  `OpenedConsistent`, `StartFine`), one that an effect carried out keeps it
  (`StepConsistent`). Recursive functions (the segments of a day, the rounds of
  `prune_retained`) are reasoned about by induction with a set in place of a
  predicate (`Climb`).
- Why numbers matter: a number is used once, whatever the day, so the segment that
  is opened is never one that is kept or about to be removed.
- `TypesInv` adds what the types need of the uploader and the server: an index that
  exists says something, and a request that carries an index carries what it said.
- `RetainedIsMirrored`: `Spec => RetainedLeavesCloudOnlyByTornIndex`, an action
  property. A server that takes an index drops what it does not list, so an index
  that was read whole must list every kept segment the cloud has. `RetainInv` says
  how it comes to: in the list of effects a closed segment is listed before it is
  asked for (`ListedFirst`), an index is asked for only once it is current
  (`CurrentFirst`), and a delete is asked for only with the removal
  (`DroppedAreGone`); an index whose upload is queued or begun is up to date with
  every kept segment of its day the cloud has or was asked for
  (`AnnouncedAreCurrent`), and so is its content once read, unless it was being
  rewritten (`SentIsCurrent`). Every request is for a
  segment that has been closed (`RequestsAreOld`): none is for the one being opened.
- `CloudMirrorsCard`: `Spec => []MirroredUnlessMissed`. That nothing is under way
  says little about how things got there, so `MirrorInv` says at every step, for
  every key that was not missed, where its last change is (`Mirrored`). A file
  that is there is in the cloud as it is, or a request that will bring it there is in
  the worker's hand, in the queue, or among the effects left (`Coming`); one that is
  gone is not in the cloud, and no request brings it there, unless its deletion is
  still asked for (`Leaving`). An index that was sent before its last rewrite does not
  count as delivered (`Delivered`): the upload after the rewrite does.
- For this the list of effects has to be complete (`Closed`): whatever is made is
  asked for afterwards or removed (`AskedFor`), whatever is removed is asked to be
  deleted and not made again (`RemovedForGood`), and only that is deleted
  (`RemovedFirst`). One lemma per function of the recorder again (`DropPrunes`,
  `CloseAnswers`, `EndAnswers`, `BeginAnswers`, `OpenedAnswers`, `StartAnswers`).
  The open segment is owed; the next operation pays (`asked`).
- What is deleted must stay gone while the request waits: for a segment because
  numbers are not used again, for a folder because its day is over. `Retired` says
  that, and it stays true because the kept segments are in the order of their days
  (`InDayOrder`, from `DaysAdvance` after a restart), so that the oldest segment of a
  day goes only when no older day is left. `DeletesOnlyTheGone` is what comes of it.
- The pruning of the server is where both invariants meet: an index that was read
  whole takes only segments it does not list, which by `SentIsCurrent` are not kept,
  and by `FilesFollow` gone or about to be removed. What a torn index takes is in
  `missed` (`Undone`), and what an index makes up for leaves it (`Repaired`). A first
  version of `Mirrored`, in which a file counted as delivered when a request was out
  or the cloud had it, was not inductive: the answer to an index that was sent
  before a rewrite replaces a newer one.
- The attempt at `SessionIndexIsExact` corrected the property. It used to say that a session's index never
  lists a missing file. A crash between a file's removal at start and the rewrite of
  its folder's index leaves such an entry, and the next session of that day finds
  it; only the begin of its own index drops it. (TLC finds it with two faults; the
  run has one.)

Only model-checked: the liveness properties (`StopReturns`, `AiFollowsDemand`,
`AbandonedSubStopsUnlessVisitMissed`, `AcceptedFramesReachWriter`,
`ShutdownCompletesUnlessWakeupLost`), since fairness is outside what the provers
handle. Every invariant and every action property that a passing run checks is the
property of a theorem.

## Not modelled

Vendored code (`3rdpart/`), sensor tables, board files, fonts, examples, the
hardware drivers below `dev_chn.cpp`, configuration parsing, container formats,
HTTP and WebSocket framing: byte layout or hardware I/O. These are most of the
repository's lines.

The signaling client's connection loop: one timer on the external poller library,
whose effects on the plugin are inputs of `ViewerSessions`. Of the viewer page, the
talk button and replay. Of `MediaSource`, `request_keyframe` and `play_g711u`,
which pass a call on and change nothing. `DetectionSource`: the subscriber table
again, without demand.

## Plan

1. The signaling client's reconnect loop with the rooms behind it; the talk
   button's microphone in `ViewerPage`.
