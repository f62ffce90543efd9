---------------------------- MODULE SegmentStore ----------------------------
(***************************************************************************)
(* The recording on the camera's card and its copy in the cloud.           *)
(*                                                                         *)
(* SegmentRecorder (src/record/segment_recorder.cpp) cuts the recording    *)
(* into segment files, keeps one folder per day with an init file and an   *)
(* HLS index (src/record/hls_playlist.cpp), and drops the oldest segments  *)
(* beyond a limit.  Everything it writes or drops it also asks the         *)
(* uploader (src/record/http_segment_uploader.cpp) to PUT or DELETE; the   *)
(* server (cloud/signaling/record_http.js) stores the objects and, when an *)
(* index arrives, removes the segments of that day that it does not list.  *)
(*                                                                         *)
(* A file is named by its key <<kind, day, number>>.  An operation of the  *)
(* recorder runs on the writer thread while the uploader's thread reads    *)
(* the same files: it is a list of elementary effects (todo) carried out   *)
(* one by one.  An index is rewritten in place with one write, so each     *)
(* rewrite is one effect; what the uploader reads while the file is        *)
(* truncated is refused by the server as an empty body and is one of the   *)
(* failing attempts.  The clock does not run backwards.                    *)
(***************************************************************************)
EXTENDS Integers, FiniteSets, Sequences, SequencesExt

CONSTANTS
    MaxQueued,    \* kMaxQueued
    MaxRetries,   \* kMaxRetries
    Retain,       \* retain_sec, max_bytes_mb: what may be kept, in units of time (or size);
                  \* 0 for everything
    SegmentSec,   \* segment_sec: what a segment found at start is taken to last
    Durations,    \* what a closed segment may last (or weigh)
    MaxDay,       \* bound: days
    MaxSegs,      \* bound: segments
    MaxFaults     \* bound: crashes, unanswered requests, midnights between two
                  \* readings of the clock

ASSUME StoreAssumption ==
    /\ MaxQueued \in Nat \ {0} /\ MaxRetries \in Nat \ {0}
    /\ Retain \in Nat /\ SegmentSec \in Nat \ {0} /\ Durations \subseteq Nat \ {0}
    /\ MaxDay \in Nat \ {0} /\ MaxSegs \in Nat /\ MaxFaults \in Nat

Days == 1..MaxDay
None == <<>>   \* no key, no request, no listing
NoDay == 0

Seg(d, n) == <<"seg", d, n>>
InitKey(d) == <<"init", d, 0>>
IndexKey(d) == <<"index", d, 0>>
Kind(k) == k[1]
DayOf(k) == k[2]
Segs == {Seg(d, n) : d \in Days, n \in 1..MaxSegs}
Keys == Segs \cup {InitKey(d) : d \in Days} \cup {IndexKey(d) : d \in Days}

VARIABLES
    disk,      \* the keys that exist under config_.directory
    listing,   \* per day: what its index file says, [list, ended, whole]
    rec,       \* the recorder's members, see NewRecorder
    todo,      \* what is left of the operation under way
    process,   \* "down", "up", "stopping"
    queue,     \* the uploader's queue_: [key, remove]
    job,       \* the item in the worker's hand, with its attempt
    cloud,     \* the keys the server stores
    cloudListing,
    late,      \* requests the client gave up on that the server has not finished
    today,     \* the date
    segCount, faults,   \* counters for names and bounds
    missed     \* history: keys whose last change the cloud has missed

storeVars == <<disk, listing, rec, todo, process, queue, job, cloud, cloudListing, late,
               today, segCount, faults, missed>>

-----------------------------------------------------------------------------
(* An operation takes the recorder r to a later one and adds its effects   *)
(* to r.ops.  kept_ is oldest first; pl is playlist_, its day NoDay while  *)
(* it has no path; open is current_media_path_.                            *)
NewRecorder ==
    [kept |-> <<>>, pl |-> [day |-> NoDay, list |-> <<>>, ended |-> FALSE],
     curDay |-> NoDay, session |-> FALSE, open |-> None, ops |-> <<>>]

Effect(op, key) == [op |-> op, key |-> key, listing |-> None]
Do(r, ops) == [r EXCEPT !.ops = @ \o ops]

(* A rewrite of day d's index.  whole: it does not leave out entries that  *)
(* the same operation is about to add.                                     *)
Rewrite(d, list, ended, whole) ==
    [op |-> "index", key |-> IndexKey(d),
     listing |-> [list |-> list, ended |-> ended, whole |-> whole]]

(* The segments of day d among the kept ones, in order. *)
OfDay(kept, d) ==
    LET upTo[i \in 0..Len(kept)] ==
          IF i = 0 THEN <<>>
          ELSE IF DayOf(kept[i].seg) = d THEN Append(upTo[i - 1], kept[i].seg) ELSE upTo[i - 1]
    IN  upTo[Len(kept)]
KeptOf(r, d) == OfDay(r.kept, d)

(* begin, then append for every kept segment of the day: a rewrite each. *)
Rebuild(r, d) ==
    LET list == KeptOf(r, d)
    IN  [i \in 1..(Len(list) + 1) |->
            Rewrite(d, SubSeq(list, 1, i - 1), FALSE, i = Len(list) + 1)]

PlaylistRewrite(pl) == Rewrite(pl.day, pl.list, pl.ended, TRUE)

-----------------------------------------------------------------------------
(* over_retain: time and bytes are limits of the same form, and 0 is none. *)
over_retain(kept) ==
    /\ Len(kept) > 1
    /\ Retain > 0
    /\ FoldLeft(LAMBDA sum, item : sum + item.dur, 0, kept) > Retain

(* Mutant: the index keeps the dropped segment. *)
DropListedForgotten(r, s) == r

(* playlist_.drop_front_if. *)
DropListed(r, s) ==
    IF r.pl.list # <<>> /\ Head(r.pl.list) = s
    THEN LET pl == [r.pl EXCEPT !.list = Tail(@)]
         IN  Do([r EXCEPT !.pl = pl], <<PlaylistRewrite(pl)>>)
    ELSE r

(* What becomes of an earlier day's folder when a segment has gone. *)
FolderEffects(r, d) ==
    IF d = r.curDay THEN <<>>
    ELSE IF KeptOf(r, d) = <<>>
    THEN <<Effect("unlink", InitKey(d)), Effect("unlink", IndexKey(d)),
           Effect("del", InitKey(d)), Effect("del", IndexKey(d))>>
    ELSE Rebuild(r, d) \o <<Rewrite(d, KeptOf(r, d), TRUE, TRUE), Effect("put", IndexKey(d))>>

(* One round of prune_retained's loop. *)
DropOldest(r) ==
    LET s == Head(r.kept).seg
        dropped == Do(DropListed([r EXCEPT !.kept = Tail(@)], s),
                      <<Effect("unlink", s), Effect("del", s)>>)
    IN  Do(dropped, FolderEffects(dropped, DayOf(s)))

prune_retained(r) ==
    LET rounds == CHOOSE n \in 0..Len(r.kept) :
                     /\ ~over_retain(SubSeq(r.kept, n + 1, Len(r.kept)))
                     /\ \A m \in 0..(n - 1) : over_retain(SubSeq(r.kept, m + 1, Len(r.kept)))
        after[n \in 0..rounds] == IF n = 0 THEN r ELSE DropOldest(after[n - 1])
    IN  after[rounds]

-----------------------------------------------------------------------------
(* Mutant: the segment is listed after it and the index were uploaded. *)
CloseSegmentLateListing(r, dur) ==
    IF r.open = None THEN r
    ELSE LET pl == [r.pl EXCEPT !.list = Append(@, r.open), !.ended = FALSE]
             closed == prune_retained(Do([r EXCEPT !.pl = pl, !.open = None,
                                                   !.kept = Append(@, [seg |-> r.open, dur |-> dur])],
                                         <<Effect("put", r.open)>>))
         IN  Do(closed, <<Effect("put", IndexKey(pl.day)), PlaylistRewrite(closed.pl)>>)

(* close_current_segment, a segment being open: it is listed, uploaded and *)
(* what is too old is dropped; then the index is uploaded.                 *)
CloseSegment(r, dur) ==
    IF r.open = None THEN r
    ELSE LET pl == [r.pl EXCEPT !.list = Append(@, r.open), !.ended = FALSE]
             closed == prune_retained(Do([r EXCEPT !.pl = pl, !.open = None,
                                                   !.kept = Append(@, [seg |-> r.open, dur |-> dur])],
                                         <<PlaylistRewrite(pl), Effect("put", r.open)>>))
         IN  Do(closed, <<Effect("put", IndexKey(pl.day))>>)

(* close_current_segment, end_playlist: finish does nothing the second     *)
(* time, but the index is uploaded again.                                  *)
EndPlaylist(r) ==
    IF r.pl.day = NoDay THEN r
    ELSE LET pl == [r.pl EXCEPT !.ended = TRUE]
         IN  Do([r EXCEPT !.pl = pl],
                (IF r.pl.ended THEN <<>> ELSE <<PlaylistRewrite(pl)>>)
                \o <<Effect("put", IndexKey(pl.day))>>)

(* start_session, begin, the day's kept segments; init and index uploaded. *)
BeginSession(r, d) ==
    Do([r EXCEPT !.pl = [day |-> d, list |-> KeptOf(r, d), ended |-> FALSE],
                 !.curDay = d, !.session = TRUE],
       <<Effect("create", InitKey(d))>> \o Rebuild(r, d)
       \o <<Effect("put", InitKey(d)), Effect("put", IndexKey(d))>>)

(* open_next_segment reads the clock, and ensure_session reads it again:   *)
(* past midnight in between, the later day's session is begun and ended    *)
(* for nothing.  The files may not be writable: no session, no session for *)
(* the day the segment belongs to, or no segment.                          *)
Opened(r, day, day2, s, outcome) ==
    LET left == IF r.session /\ day # r.curDay
                THEN [EndPlaylist(r) EXCEPT !.session = FALSE, !.curDay = NoDay] ELSE r
        ensured == IF left.session THEN left ELSE BeginSession(left, day2)
        back == EndPlaylist(ensured)
        ready == IF day = ensured.curDay THEN ensured ELSE BeginSession(back, day)
    IN  CASE outcome = "no session" /\ ~left.session -> left
          [] outcome = "no day session" /\ day # ensured.curDay -> [back EXCEPT !.session = FALSE]
          [] outcome = "ok" -> Do([ready EXCEPT !.open = s], <<Effect("create", s)>>)
          [] OTHER -> ready

-----------------------------------------------------------------------------
Runs(r) ==
    /\ rec' = [r EXCEPT !.ops = <<>>]
    /\ todo' = r.ops

(* Something goes wrong in this step, or not. *)
Fault(wrong) ==
    /\ faults' = faults + (IF wrong THEN 1 ELSE 0)
    /\ faults' <= MaxFaults

(* The writer thread between two frames. *)
AtRest == process = "up" /\ todo = <<>>

(* scan_existing_segments: the files found, oldest first. *)
Scanned(files) ==
    CHOOSE found \in [1..Cardinality(files) -> files] :
        /\ Range(found) = files
        /\ \A i, j \in DOMAIN found : i < j => found[i][3] < found[j][3]

(* SegmentRecorder::start: scan_existing_segments, then prune_retained,    *)
(* which finds no current day.  The uploader starts with an empty queue.   *)
Start ==
    /\ process = "down" /\ todo = <<>>
    /\ process' = "up"
    /\ LET found == Scanned(disk \cap Segs)
       IN  Runs(prune_retained([NewRecorder EXCEPT !.kept =
                  [i \in DOMAIN found |-> [seg |-> found[i], dur |-> SegmentSec]]]))
    /\ UNCHANGED <<disk, listing, queue, job, cloud, cloudListing, late,
                   today, segCount, faults, missed>>

(* process_frame: a key frame that opens the first segment (after start or *)
(* a failure) or, when the segment has lasted long enough, rotates.  The   *)
(* day may have changed since the last one.                                *)
KeyFrame ==
    /\ AtRest
    /\ \E dur \in Durations, day \in today..MaxDay, day2 \in today..MaxDay,
          outcome \in {"ok", "no session", "no day session", "no segment"} :
          /\ day <= day2
          /\ segCount' = segCount + (IF outcome = "ok" THEN 1 ELSE 0)
          /\ segCount' <= MaxSegs
          /\ Runs(Opened(CloseSegment(rec, dur), day, day2, Seg(day, segCount + 1), outcome))
          /\ today' = day2
          /\ Fault(day # day2)
    /\ UNCHANGED <<disk, listing, process, queue, job, cloud, cloudListing, late,
                   missed>>

(* stop: the writer closes and ends on its way out, then stop does again.  *)
Stop ==
    /\ AtRest
    /\ process' = "stopping"
    /\ \E dur \in Durations :
          Runs([EndPlaylist(EndPlaylist(CloseSegment(rec, dur))) EXCEPT !.session = FALSE])
    /\ UNCHANGED <<disk, listing, queue, job, cloud, cloudListing, late,
                   today, segCount, faults, missed>>

(* HttpSegmentUploader::stop has joined the worker; the process ends. *)
Stopped ==
    /\ process = "stopping" /\ todo = <<>> /\ queue = <<>> /\ job = None
    /\ process' = "down"
    /\ rec' = NewRecorder
    /\ UNCHANGED <<disk, listing, todo, queue, job, cloud, cloudListing, late,
                   today, segCount, faults, missed>>

(* Mutant: the queue has no limit. *)
EnqueueUnlimited(e) ==
    /\ queue' = Append(queue, [key |-> e.key, remove |-> e.op = "del"])
    /\ UNCHANGED missed

(* enqueue and enqueue_delete: a full queue drops the request. *)
Enqueue(e) ==
    IF Len(queue) < MaxQueued
    THEN /\ queue' = Append(queue, [key |-> e.key, remove |-> e.op = "del"])
         /\ UNCHANGED missed
    ELSE /\ missed' = missed \cup {e.key}
         /\ UNCHANGED queue

(* The next effect of the operation under way. *)
WriterStep ==
    /\ todo # <<>>
    /\ todo' = Tail(todo)
    /\ LET e == Head(todo)
       IN  /\ disk' = IF e.op \in {"create", "index"} THEN disk \cup {e.key}
                      ELSE IF e.op = "unlink" THEN disk \ {e.key} ELSE disk
           /\ listing' = IF Kind(e.key) = "index" /\ e.op \in {"index", "unlink"}
                         THEN [listing EXCEPT ![DayOf(e.key)] = e.listing] ELSE listing
           /\ IF e.op \in {"put", "del"} THEN Enqueue(e) ELSE UNCHANGED <<queue, missed>>
    /\ UNCHANGED <<rec, process, job, cloud, cloudListing, late, today, segCount, faults>>

-----------------------------------------------------------------------------
(* worker_loop.  A job is sent once its attempt has read the file. *)
Take ==
    /\ process # "down" /\ job = None /\ queue # <<>>
    /\ job' = [key |-> Head(queue).key, remove |-> Head(queue).remove, sent |-> FALSE,
               body |-> None, tries |-> 0]
    /\ queue' = Tail(queue)
    /\ UNCHANGED <<disk, listing, rec, todo, process, cloud, cloudListing, late,
                   today, segCount, faults, missed>>

Retries == IF process = "stopping" /\ todo = <<>> THEN 1 ELSE MaxRetries

(* The attempt failed: another follows, or the item is given up.  To give  *)
(* up a file that is no longer there loses nothing.                        *)
Failed(undone) ==
    IF job.tries + 1 < Retries
    THEN /\ job' = [job EXCEPT !.sent = FALSE, !.body = None, !.tries = @ + 1]
         /\ missed' = missed \cup undone
    ELSE /\ job' = None
         /\ missed' = missed \cup undone
                      \cup (IF job.remove \/ job.key \in disk THEN {job.key} ELSE {})

(* put_once opens the file ... *)
Send ==
    /\ job # None /\ ~job.sent
    /\ IF job.remove \/ job.key \in disk
       THEN /\ job' = [job EXCEPT !.sent = TRUE,
                                  !.body = IF ~job.remove /\ Kind(job.key) = "index"
                                           THEN listing[DayOf(job.key)] ELSE None]
            /\ missed' = missed \ {job.key}
       ELSE Failed({})
    /\ UNCHANGED <<disk, listing, rec, todo, process, queue, cloud, cloudListing, late,
                   today, segCount, faults>>

(* Mutant: the server does not look at the other segments. *)
PrunedNothing(req) == {}

(* pruneUnlistedSegments: the segments that a new index drops. *)
Pruned(req) ==
    IF req.remove \/ Kind(req.key) # "index" THEN {}
    ELSE {s \in cloud \cap Segs : DayOf(s) = DayOf(req.key) /\ s \notin Range(req.body.list)}

(* handleRecordRequest, PUT (written aside and renamed) and DELETE (an     *)
(* object that is not there counts as deleted).                            *)
Commit(req) ==
    /\ cloud' = (IF req.remove THEN cloud \ {req.key} ELSE cloud \cup {req.key}) \ Pruned(req)
    /\ cloudListing' = IF Kind(req.key) = "index"
                       THEN [cloudListing EXCEPT ![DayOf(req.key)] = req.body] ELSE cloudListing

(* What a half rebuilt index takes from the cloud although it is kept. *)
Undone(req) ==
    IF ~req.remove /\ Kind(req.key) = "index" /\ ~req.body.whole THEN Pruned(req) \cap disk ELSE {}

(* What an index repairs: a segment it no longer lists, gone from the card, *)
(* whose DELETE was lost.                                                  *)
Repaired(req) ==
    IF req.remove \/ Kind(req.key) # "index" THEN {}
    ELSE {s \in Segs \ disk : DayOf(s) = DayOf(req.key) /\ s \notin Range(req.body.list)}

(* ... the server carries the request out and answers ... *)
Answered ==
    /\ job # None /\ job.sent
    /\ Commit(job)
    /\ job' = None
    /\ missed' = (missed \ Repaired(job)) \cup Undone(job)
    /\ UNCHANGED <<disk, listing, rec, todo, process, queue, late, today, segCount, faults>>

(* ... or the answer is lost, or the request, which the server may still   *)
(* finish after the client has given up waiting.                           *)
Unanswered ==
    /\ job # None /\ job.sent
    /\ Fault(TRUE)
    /\ \/ Commit(job) /\ Failed(Undone(job)) /\ UNCHANGED late
       \/ Failed({}) /\ late' \in {late, late \cup {job}} /\ UNCHANGED <<cloud, cloudListing>>
    /\ UNCHANGED <<disk, listing, rec, todo, process, queue, today, segCount>>

CommitLate ==
    \E req \in late :
        /\ late' = late \ {req}
        /\ Commit(req)
        /\ missed' = missed \cup {req.key} \cup Pruned(req)
        /\ UNCHANGED <<disk, listing, rec, todo, process, queue, job,
                       today, segCount, faults>>

-----------------------------------------------------------------------------
(* The process dies: what was to be done, queued and in hand is forgotten, *)
(* files stay as they are, an unfinished segment among them.               *)
Crash ==
    /\ process # "down"
    /\ Fault(TRUE)
    /\ process' = "down"
    /\ missed' = missed \cup {todo[i].key : i \in DOMAIN todo}
                        \cup {queue[i].key : i \in DOMAIN queue}
                        \cup (IF job = None THEN {} ELSE {job.key})
                        \cup ({rec.open} \ {None})
    /\ rec' = NewRecorder
    /\ todo' = <<>> /\ queue' = <<>> /\ job' = None
    /\ UNCHANGED <<disk, listing, cloud, cloudListing, late, today, segCount>>

Init ==
    /\ disk = {} /\ listing = [d \in Days |-> None]
    /\ rec = NewRecorder /\ todo = <<>> /\ process = "down"
    /\ queue = <<>> /\ job = None
    /\ cloud = {} /\ cloudListing = [d \in Days |-> None] /\ late = {}
    /\ today = 1 /\ segCount = 0 /\ faults = 0
    /\ missed = {}

UploaderStep == Take \/ Send \/ Answered \/ Unanswered

Next ==
    \/ Start \/ KeyFrame \/ Stop \/ Stopped \/ WriterStep
    \/ UploaderStep \/ CommitLate \/ Crash

Spec == Init /\ [][Next]_storeVars

-----------------------------------------------------------------------------
Listing == [list : Seq(Segs), ended : BOOLEAN, whole : BOOLEAN]

StoreTypeOK ==
    /\ disk \subseteq Keys /\ cloud \subseteq Keys /\ missed \subseteq Keys
    /\ \A d \in Days :
          /\ listing[d] # None => listing[d] \in Listing
          /\ cloudListing[d] # None => cloudListing[d] \in Listing
          /\ IndexKey(d) \in disk => listing[d] # None
          /\ IndexKey(d) \in cloud => cloudListing[d] # None
    /\ \A i \in DOMAIN todo : todo[i].op \in {"create", "unlink", "index", "put", "del"}
    /\ process \in {"down", "up", "stopping"}
    /\ Len(queue) <= MaxQueued
    /\ job # None => job.key \in Keys /\ job.tries < MaxRetries

(* The session has yet to begin its index. *)
BeginsIndex ==
    \E i \in DOMAIN todo :
        todo[i].op = "index" /\ todo[i].key = IndexKey(rec.curDay) /\ todo[i].listing.list = <<>>

(* From the begin of a session's index on, the index never lists a file    *)
(* that is not there, not even between the steps of an operation (it is    *)
(* rewritten before the file is removed).  Before, it may: a crash between *)
(* a file's removal at start and the rewrite of its folder's index leaves  *)
(* such an entry.  Between operations it lists exactly the day's kept      *)
(* segments, in order, and no segment file is forgotten by the retention,  *)
(* whatever earlier crashes left (segment_recorder.cpp:388-428,451-497).   *)
SessionIndexIsExact ==
    /\ rec.session /\ listing[rec.curDay] # None /\ ~BeginsIndex =>
          Range(listing[rec.curDay].list) \subseteq disk
    /\ AtRest => disk \cap Segs = {rec.kept[i].seg : i \in DOMAIN rec.kept} \cup ({rec.open} \ {None})
    /\ AtRest /\ rec.session =>
          /\ listing[rec.curDay].list = KeptOf(rec, rec.curDay)
          /\ ~listing[rec.curDay].ended

(* Nothing under way anywhere. *)
Quiet == todo = <<>> /\ queue = <<>> /\ job = None /\ late = {}

(* The cloud is a copy of the card: at rest, every file and every index is *)
(* in the cloud as it is on the card, except the ones whose last request   *)
(* was dropped by a full queue, given up, carried out late, lost in a      *)
(* crash, or undone by an index that was read half rebuilt.  A DELETE      *)
(* missed in such a way is made up for by the next index of the same day   *)
(* that the server answers (segment_recorder.cpp:388-497,                  *)
(* http_segment_uploader.cpp:245-333, record_http.js:30-59).               *)
MirroredUnlessMissed ==
    Quiet =>
        \A k \in Keys \ (missed \cup {rec.open}) :
            /\ k \in disk <=> k \in cloud
            /\ Kind(k) = "index" /\ k \in disk => cloudListing[DayOf(k)] = listing[DayOf(k)]

(* A segment that is still kept on the card leaves the cloud only when the *)
(* uploader sent an index that was being rebuilt (begin and one append per *)
(* segment, each a complete file), or when an old request is carried out   *)
(* late: never because of the order of uploads, drops and indexes          *)
(* (hls_playlist.cpp:8-33, record_http.js:30-59).                          *)
RetainedLeavesCloudOnlyByTornIndex ==
    [][\A i \in DOMAIN rec.kept :
          rec.kept[i].seg \in cloud \ cloud' =>
              \/ late' # late
              \/ job # None /\ job.sent /\ job.body # None /\ ~job.body.whole]_storeVars
=============================================================================
