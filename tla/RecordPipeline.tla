--------------------------- MODULE RecordPipeline ---------------------------
(***************************************************************************)
(* The threads of the recorder and how they stop: a capture thread calls   *)
(* on_frame, the writer thread turns frames into files and requests        *)
(* uploads, the uploader thread performs them, and the main thread runs    *)
(* SegmentRecorder::start and stop (src/record/segment_recorder.cpp,       *)
(* src/record/http_segment_uploader.cpp).  A start that fails runs the     *)
(* same steps as stop.                                                     *)
(*                                                                         *)
(* What the writer does with a frame is reduced to the number of uploads   *)
(* it asks for; frames and requests are numbered in the order they arise.  *)
(***************************************************************************)
EXTENDS Integers, Sequences

CONSTANTS
    MaxPendingFrames,  \* RecordConfig::max_pending_frames
    MaxQueued,         \* kMaxQueued
    MaxRetries,        \* kMaxRetries
    FrameBound,        \* bound: frames captured in a behaviour
    RequestBound       \* bound: uploads requested in a behaviour

ASSUME RecordAssumption ==
    /\ MaxPendingFrames \in Nat \ {0}
    /\ MaxQueued \in Nat \ {0}
    /\ MaxRetries \in Nat \ {0}
    /\ FrameBound \in Nat
    /\ RequestBound \in Nat

VARIABLES
    frames, framesStopping, writer,        \* the recorder's queue_, stopping_, writer_
    uploads, uploadsStopping, uploader,    \* the uploader's queue_, stopping_, worker_
    subscribed,    \* the recorder's subscription is in the source's snapshot
    capture,       \* the capture thread: "idle", "called", "entered" on_frame
    main,          \* the thread that calls SegmentRecorder::start and stop
    owed,          \* uploads the writer has still to request for its frame
    attempt,       \* worker_loop's attempt for the request in hand, 0 before the first
    retries,       \* worker_loop's retries
    trying,        \* an attempt is under way (else the worker sleeps before the next)
    published,     \* history: frames captured so far
    accepted,      \* history: frames queued before stopping_ was set
    written,       \* history: frames the writer has taken
    requested,     \* history: uploads requested so far
    dropped,       \* history: requests dropped because the queue was full
    tried,         \* history: requests the uploader has taken (each is attempted at least once)
    lateTries      \* history: attempts begun after the uploader's stopping_ was set

frameVars == <<frames, framesStopping, writer>>
uploadVars == <<uploads, uploadsStopping, uploader>>
workVars == <<owed, attempt, retries, trying>>
histVars == <<published, accepted, written, requested, dropped, tried, lateTries>>
recordVars == <<frameVars, uploadVars, workVars, histVars, subscribed, capture, main>>

F == INSTANCE WorkQueue WITH Capacity <- MaxPendingFrames, queue <- frames,
                             stopping <- framesStopping, worker <- writer
U == INSTANCE WorkQueue WITH Capacity <- MaxQueued, queue <- uploads,
                             stopping <- uploadsStopping, worker <- uploader

-----------------------------------------------------------------------------
(* enqueue and enqueue_delete: ignored once the uploader stops, dropped    *)
(* when its queue is full.  The uploader is stopped by a thread that has   *)
(* joined the writer, so the flag cannot change between its check and the  *)
(* push.                                                                   *)
Request ==
    /\ requested' = requested + 1
    /\ \/ /\ uploadsStopping
          /\ UNCHANGED <<uploadVars, dropped>>
       \/ /\ ~uploadsStopping
          /\ U!Push(requested + 1)
          /\ dropped' = IF U!Full THEN dropped \cup {requested + 1} ELSE dropped

-----------------------------------------------------------------------------
(* SegmentRecorder::start, on the main thread; the uploader's thread has   *)
(* been running since its construction.  prune_retained asks for the       *)
(* removal of what has outlived its retention ...                          *)
StartPrunes ==
    /\ main = "starting"
    /\ requested < RequestBound
    /\ Request
    /\ UNCHANGED <<frameVars, workVars, subscribed, capture, main,
                   published, accepted, written, tried, lateTries>>

(* ... the writer's thread is started and the source asked for the stream. *)
StartSubscribes ==
    /\ main = "starting"
    /\ writer' = "ready"
    /\ main' = "running"
    /\ subscribed' = TRUE
    /\ UNCHANGED <<frames, framesStopping, uploadVars, workVars, histVars, capture>>

(* The source refuses: start sets the flag, notifies and joins the writer  *)
(* as stop does, and RecordPlugin destroys the recorder, whose destructor  *)
(* is stop.                                                                *)
StartRefused ==
    /\ main = "starting"
    /\ writer' = "ready"
    /\ main' = "unsubscribed"
    /\ UNCHANGED <<frames, framesStopping, uploadVars, workVars, histVars, subscribed, capture>>

(* mkdir_p fails, before anything is pruned: there is no writer, and only  *)
(* the destructor's stop follows.                                          *)
StartWithoutDirectory ==
    /\ main = "starting"
    /\ requested = 0
    /\ main' = "unsubscribed"
    /\ UNCHANGED <<frameVars, uploadVars, workVars, histVars, subscribed, capture>>

-----------------------------------------------------------------------------
(* The capture thread: publish has the recorder in its snapshot. *)
CaptureCalls ==
    /\ capture = "idle"
    /\ subscribed
    /\ published < FrameBound
    /\ capture' = "called"
    /\ published' = published + 1
    /\ UNCHANGED <<frameVars, uploadVars, workVars, subscribed, main,
                   accepted, written, requested, dropped, tried, lateTries>>

(* on_frame looks at stopping_ before it takes the mutex ... *)
OnFrameEnters ==
    /\ capture = "called"
    /\ capture' = IF framesStopping THEN "idle" ELSE "entered"
    /\ UNCHANGED <<frameVars, uploadVars, workVars, histVars, subscribed, main>>

(* ... and queues the frame, or drops it, under the mutex. *)
OnFramePushes ==
    /\ capture = "entered"
    /\ capture' = "idle"
    /\ F!Push(published)
    /\ accepted' = IF F!Full \/ framesStopping THEN accepted ELSE accepted \cup {published}
    /\ UNCHANGED <<uploadVars, workVars, subscribed, main,
                   published, written, requested, dropped, tried, lateTries>>

-----------------------------------------------------------------------------
(* writer_loop waits for a frame and takes it.  Closing a segment, on a    *)
(* rotation or when the loop ends, makes it request uploads.               *)
WriterTakes ==
    /\ F!WaitReturns
    /\ owed' \in 0..(RequestBound - requested)
    /\ written' = IF writer' = "busy" THEN written \cup {Head(frames)} ELSE written
    /\ UNCHANGED <<uploadVars, attempt, retries, trying, subscribed, capture, main,
                   published, accepted, requested, dropped, tried, lateTries>>

WriterWaits ==
    /\ F!WaitDecides \/ F!WaitSleeps
    /\ UNCHANGED <<uploadVars, workVars, histVars, subscribed, capture, main>>

(* The writer makes a request it owes. *)
WriterRequests ==
    /\ writer \in {"busy", "leaving"}
    /\ owed > 0
    /\ owed' = owed - 1
    /\ Request
    /\ UNCHANGED <<frameVars, attempt, retries, trying, subscribed, capture, main,
                   published, accepted, written, tried, lateTries>>

WriterFinishes ==
    /\ owed = 0
    /\ F!Done \/ F!Leave
    /\ UNCHANGED <<uploadVars, workVars, histVars, subscribed, capture, main>>

-----------------------------------------------------------------------------
(* worker_loop of the uploader. *)
UploaderTakes ==
    /\ U!WaitReturns
    /\ attempt' = 0
    /\ retries' = 0
    /\ trying' = FALSE
    /\ tried' = IF uploader' = "busy" THEN tried \cup {Head(uploads)} ELSE tried
    /\ UNCHANGED <<frameVars, owed, subscribed, capture, main,
                   published, accepted, written, requested, dropped, lateTries>>

UploaderWaits ==
    /\ U!WaitDecides \/ U!WaitSleeps
    /\ UNCHANGED <<frameVars, workVars, histVars, subscribed, capture, main>>

(* The number of attempts depends on the flag when the first begins. *)
UploaderBegins ==
    /\ uploader = "busy"
    /\ attempt = 0
    /\ retries' = IF uploadsStopping THEN 1 ELSE MaxRetries
    /\ attempt' = 1
    /\ trying' = TRUE
    /\ lateTries' = lateTries + (IF uploadsStopping THEN 1 ELSE 0)
    /\ UNCHANGED <<frameVars, uploadVars, owed, subscribed, capture, main,
                   published, accepted, written, requested, dropped, tried>>

(* Mutant: the flag is not looked at after a failure. *)
RetriesRegardless == attempt < retries

RetriesAfterFailure == attempt < retries /\ ~uploadsStopping

(* The attempt fails and is not the last: the worker sleeps a second ... *)
UploaderNaps ==
    /\ uploader = "busy"
    /\ trying
    /\ RetriesAfterFailure
    /\ trying' = FALSE
    /\ UNCHANGED <<frameVars, uploadVars, owed, attempt, retries, histVars,
                   subscribed, capture, main>>

(* ... and tries again, also when the flag was set meanwhile.              *)
UploaderRetries ==
    /\ uploader = "busy"
    /\ attempt > 0 /\ ~trying
    /\ attempt' = attempt + 1
    /\ trying' = TRUE
    /\ lateTries' = lateTries + (IF uploadsStopping THEN 1 ELSE 0)
    /\ UNCHANGED <<frameVars, uploadVars, owed, retries, subscribed, capture, main,
                   published, accepted, written, requested, dropped, tried>>

(* The attempt succeeds, or fails with no other to follow. *)
UploaderFinishes ==
    /\ uploader = "busy" => trying
    /\ U!Done \/ U!Leave
    /\ trying' = FALSE
    /\ UNCHANGED <<frameVars, owed, attempt, retries, histVars, subscribed, capture, main>>

-----------------------------------------------------------------------------
(* SegmentRecorder::stop, on the main thread. *)
StopUnsubscribes ==
    /\ main = "running"
    /\ main' = "unsubscribed"
    /\ subscribed' = FALSE
    /\ UNCHANGED <<frameVars, uploadVars, workVars, histVars, capture>>

StopWriter ==
    /\ \/ main = "unsubscribed" /\ main' = "flagged" /\ F!SetStopping
       \/ main = "flagged" /\ main' = "joining writer" /\ F!NotifyStop
    /\ UNCHANGED <<uploadVars, workVars, histVars, subscribed, capture>>

JoinWriter ==
    /\ main = "joining writer"
    /\ F!Joined
    /\ main' = "closing"
    /\ UNCHANGED <<frameVars, uploadVars, workVars, histVars, subscribed, capture>>

(* close_current_segment(true): the writer has closed the segment, but the *)
(* finished playlist of a session, if a frame has begun one, is uploaded   *)
(* once more.                                                              *)
StopCloses ==
    /\ main = "closing"
    /\ main' = "closed"
    /\ \/ UNCHANGED <<uploadVars, requested, dropped>>
       \/ /\ written # {}
          /\ requested < RequestBound
          /\ Request
    /\ UNCHANGED <<frameVars, workVars, subscribed, capture,
                   published, accepted, written, tried, lateTries>>

StopUploader ==
    /\ \/ main = "closed" /\ main' = "uploader flagged" /\ U!SetStopping
       \/ main = "uploader flagged" /\ main' = "joining uploader" /\ U!NotifyStop
    /\ UNCHANGED <<frameVars, workVars, histVars, subscribed, capture>>

JoinUploader ==
    /\ main = "joining uploader"
    /\ U!Joined
    /\ main' = "stopped"
    /\ UNCHANGED <<frameVars, uploadVars, workVars, histVars, subscribed, capture>>

-----------------------------------------------------------------------------
Init ==
    /\ frames = <<>> /\ framesStopping = FALSE /\ writer = "exited"
    /\ uploads = <<>> /\ uploadsStopping = FALSE /\ uploader = "ready"
    /\ subscribed = FALSE
    /\ capture = "idle"
    /\ main = "starting"
    /\ owed = 0
    /\ attempt = 0
    /\ retries = 0
    /\ trying = FALSE
    /\ published = 0
    /\ accepted = {}
    /\ written = {}
    /\ requested = 0
    /\ dropped = {}
    /\ tried = {}
    /\ lateTries = 0

CaptureStep == CaptureCalls \/ OnFrameEnters \/ OnFramePushes
WriterStep == WriterTakes \/ WriterWaits \/ WriterRequests \/ WriterFinishes
UploaderStep ==
    \/ UploaderTakes \/ UploaderWaits \/ UploaderBegins
    \/ UploaderNaps \/ UploaderRetries \/ UploaderFinishes
StartStep == StartPrunes \/ StartSubscribes \/ StartRefused \/ StartWithoutDirectory
StopStep == StopWriter \/ JoinWriter \/ StopCloses \/ StopUploader \/ JoinUploader

Next == CaptureStep \/ WriterStep \/ UploaderStep \/ StartStep \/ StopUnsubscribes \/ StopStep

(* Every thread that can run does; an HTTP request ends (its socket has a  *)
(* timeout of kPutTimeoutSec).  Nobody is obliged to capture or to stop.   *)
Fairness ==
    /\ WF_recordVars(OnFrameEnters \/ OnFramePushes)
    /\ WF_recordVars(WriterStep)
    /\ WF_recordVars(UploaderStep)
    /\ WF_recordVars(StartStep)
    /\ WF_recordVars(StopStep)

Spec == Init /\ [][Next]_recordVars /\ Fairness

-----------------------------------------------------------------------------
RecordTypeOK ==
    /\ frames \in Seq(1..FrameBound) /\ framesStopping \in BOOLEAN /\ writer \in F!Places
    /\ uploads \in Seq(1..RequestBound) /\ uploadsStopping \in BOOLEAN /\ uploader \in U!Places
    /\ Len(frames) <= MaxPendingFrames
    /\ Len(uploads) <= MaxQueued
    /\ subscribed \in BOOLEAN
    /\ capture \in {"idle", "called", "entered"}
    /\ main \in {"starting", "running", "unsubscribed", "flagged", "joining writer", "closing", "closed",
                 "uploader flagged", "joining uploader", "stopped"}
    /\ owed \in 0..RequestBound
    /\ attempt \in 0..MaxRetries
    /\ retries \in 0..MaxRetries
    /\ trying \in BOOLEAN
    /\ published \in 0..FrameBound
    /\ accepted \subseteq 1..FrameBound
    /\ written \subseteq 1..FrameBound
    /\ requested \in 0..RequestBound
    /\ dropped \subseteq 1..RequestBound
    /\ tried \subseteq 1..RequestBound
    /\ lateTries \in Nat

(* Once it is told to stop, the uploader makes at most one attempt for     *)
(* each queued request and one for the request in hand, so that shutdown   *)
(* takes at most MaxQueued + 1 request timeouts                            *)
(* (http_segment_uploader.cpp:308-315).                                    *)
StopIsBounded == lateTries <= MaxQueued + 1

(* A queued frame reaches the recording: on_frame's notification, given    *)
(* with the mutex held, is never lost (segment_recorder.cpp:121-130).      *)
AcceptedFramesReachWriter ==
    \A f \in 1..FrameBound : f \in accepted ~> f \in written

(* application.h: stop_media is the phase that waits, stop_network the one *)
(* that "may block".  stop returns, and so does a start that has failed.   *)
StopReturns == main = "unsubscribed" ~> main = "stopped"
=============================================================================
