------------------------------ MODULE GopCache ------------------------------
(***************************************************************************)
(* The per-stream cache of recent groups of pictures                       *)
(* (src/media/gop_cache.cpp).  MediaSource::publish pushes every video     *)
(* frame; snapshot_from_latest_key hands out the newest group.  Every      *)
(* operation runs under the cache's mutex_, so each is one step.           *)
(*                                                                         *)
(* A frame is reduced to what the cache looks at: is it video, is it a key *)
(* frame, its size, its presentation time, and `seq', its position in the  *)
(* published stream (history: the code has no such field).                 *)
(***************************************************************************)
EXTENDS Integers, Sequences

CONSTANTS
    MaxGops,        \* GopCacheConfig::max_gops
    MaxBytes,       \* GopCacheConfig::max_bytes
    MaxDurationMs,  \* GopCacheConfig::max_duration_ms (0 disables the check)
    Sizes,          \* frame sizes the encoder produces
    PtsSteps,       \* distances between the times of two successive frames
    FrameBound      \* bound: number of frames published in a behaviour

ASSUME ConfigAssumption ==
    /\ MaxGops \in Nat
    /\ MaxBytes \in Nat
    /\ MaxDurationMs \in Nat
    /\ Sizes \subseteq Nat
    /\ PtsSteps \subseteq Nat
    /\ FrameBound \in Nat

VARIABLES
    gops_,      \* deque of CachedGop, oldest first
    bytes_,     \* running total of the groups' bytes
    published,  \* history: number of frames pushed so far
    lastPts,    \* history: time of the last frame pushed
    lastKey     \* history: seq of the last non-empty key frame pushed, 0 if none

vars == <<gops_, bytes_, published, lastPts, lastKey>>

Frame == [video : BOOLEAN, key : BOOLEAN, size : Nat, pts : Nat, seq : Nat]

CachedGop == [frames : Seq(Frame), start_pts_ms : Nat, end_pts_ms : Nat, bytes : Nat]

-----------------------------------------------------------------------------
(* start_new_gop_locked: a key frame opens a group of its own. *)
NewGop(f) == [frames       |-> <<f>>,
              start_pts_ms |-> f.pts,
              end_pts_ms   |-> f.pts,
              bytes        |-> f.size]

(* Mutant: the group's own total is not increased. *)
ExtendedNoBytes(g, f) == [frames       |-> Append(g.frames, f),
                          start_pts_ms |-> g.start_pts_ms,
                          end_pts_ms   |-> f.pts,
                          bytes        |-> g.bytes]

(* push appends any other frame to the newest group. *)
Extended(g, f) == [frames       |-> Append(g.frames, f),
                   start_pts_ms |-> g.start_pts_ms,
                   end_pts_ms   |-> f.pts,
                   bytes        |-> g.bytes + f.size]

(* Mutant: the groups are counted before the one just opened. *)
OverLimitOffByOne(g, k, b) ==
    \/ Len(g) - k > MaxGops + 1
    \/ b > MaxBytes
    \/ /\ Len(g) - k > 1
       /\ MaxDurationMs > 0
       /\ g[Len(g)].end_pts_ms - g[k + 1].start_pts_ms > MaxDurationMs

(* trim_locked pops groups from the front while this holds.  The deque's  *)
(* groups are g[k+1], ..., g[Len(g)] after k pops, b the bytes_ left then. *)
OverLimit(g, k, b) ==
    \/ Len(g) - k > MaxGops
    \/ b > MaxBytes
    \/ /\ Len(g) - k > 1
       /\ MaxDurationMs > 0
       /\ g[Len(g)].end_pts_ms - g[k + 1].start_pts_ms > MaxDurationMs

(* bytes_ after k iterations of trim_locked's loop, from b. *)
BytesLeft(g, b) ==
    LET left[k \in 0..Len(g)] == IF k = 0 THEN b ELSE left[k - 1] - g[k].bytes
    IN  left

(* The number of groups trim_locked pops: it stops at the first k at which *)
(* the loop's condition is false.                                          *)
Pops(g, b) ==
    CHOOSE k \in 0..Len(g) :
        /\ ~OverLimit(g, k, BytesLeft(g, b)[k])
        /\ \A i \in 0..(k - 1) : OverLimit(g, i, BytesLeft(g, b)[i])

(* Mutant: groups are popped from the back. *)
TrimNewest(g, b) ==
    LET k == Pops(g, b)
    IN  /\ gops_' = SubSeq(g, 1, Len(g) - k)
        /\ bytes_' = BytesLeft(g, b)[k]

trim_locked(g, b) ==
    LET k == Pops(g, b)
    IN  /\ gops_' = SubSeq(g, k + 1, Len(g))
        /\ bytes_' = BytesLeft(g, b)[k]

(* The early returns of push that do not look at the cached groups. *)
Cacheable(f) ==
    /\ f.video
    /\ f.size # 0
    /\ MaxGops # 0
    /\ MaxBytes # 0
    /\ f.size <= MaxBytes

(* A frame that is no key frame fits the newest group g. *)
Fits(g, f) ==
    /\ g.bytes <= MaxBytes - f.size
    /\ MaxDurationMs > 0 => f.pts - g.start_pts_ms <= MaxDurationMs

(* Mutant: bytes_ is left alone when a group is opened. *)
StartGopUncounted(f) ==
    /\ Cacheable(f)
    /\ f.key
    /\ trim_locked(Append(gops_, NewGop(f)), bytes_)

StartGop(f) ==
    /\ Cacheable(f)
    /\ f.key
    /\ trim_locked(Append(gops_, NewGop(f)), bytes_ + f.size)

ExtendGop(f) ==
    /\ Cacheable(f)
    /\ ~f.key
    /\ gops_ # <<>>
    /\ Fits(gops_[Len(gops_)], f)
    /\ trim_locked([gops_ EXCEPT ![Len(gops_)] = Extended(gops_[Len(gops_)], f)],
                   bytes_ + f.size)

Reject(f) ==
    /\ ~Cacheable(f) \/ /\ ~f.key
                        /\ gops_ # <<>> => ~Fits(gops_[Len(gops_)], f)
    /\ UNCHANGED <<gops_, bytes_>>

(* GopCache::push(frame), for the next frame of the stream. *)
push(f) ==
    /\ published < FrameBound
    /\ f.seq = published + 1
    /\ published' = published + 1
    /\ lastPts' = f.pts
    /\ lastKey' = IF f.video /\ f.key /\ f.size # 0 THEN f.seq ELSE lastKey
    /\ StartGop(f) \/ ExtendGop(f) \/ Reject(f)

(* snapshot_from_latest_key: the frames of the newest group. *)
snapshot_from_latest_key ==
    IF gops_ = <<>> THEN <<>> ELSE gops_[Len(gops_)].frames

-----------------------------------------------------------------------------
Init ==
    /\ gops_ = <<>>
    /\ bytes_ = 0
    /\ published = 0
    /\ lastPts = 0
    /\ lastKey = 0

Next ==
    \E video \in BOOLEAN, key \in BOOLEAN, size \in Sizes, step \in PtsSteps :
        push([video |-> video, key |-> key, size |-> size,
              pts |-> lastPts + step, seq |-> published + 1])

Spec == Init /\ [][Next]_vars

-----------------------------------------------------------------------------
TypeOK ==
    /\ gops_ \in Seq(CachedGop)
    /\ bytes_ \in Nat
    /\ published \in Nat
    /\ lastPts \in Nat
    /\ lastKey \in 0..published

(* Prefix totals of the groups' bytes, without recursion: acc[i] is the    *)
(* total of the first i groups.                                            *)
Totals(g, b, acc) ==
    /\ acc[0] = 0
    /\ acc[Len(g)] = b
    /\ \A i \in 1..Len(g) : acc[i] = acc[i - 1] + g[i].bytes
    /\ \A i, j \in 0..Len(g) : i <= j => acc[i] <= acc[j]

(* bytes_ is the sum of what the cached groups hold: push adds to it and   *)
(* trim_locked subtracts a whole group at a time (gop_cache.cpp:16,47,58), *)
(* so the unsigned counter never drifts and never wraps below zero.        *)
BytesAccounted ==
    \E acc \in [0..Len(gops_) -> 0..bytes_] : Totals(gops_, bytes_, acc)

(* The cache stays inside its configured budget: groups, bytes and, from   *)
(* the oldest cached frame to the newest, time (gop_cache.cpp:26-61).      *)
WithinBudget ==
    /\ Len(gops_) <= MaxGops
    /\ bytes_ <= MaxBytes
    /\ gops_ # <<>> /\ MaxDurationMs > 0 =>
          gops_[Len(gops_)].end_pts_ms - gops_[1].start_pts_ms <= MaxDurationMs

(* fs is a group: its only key frame comes first and the frames are in the *)
(* order they were published, none later than the n-th.                    *)
IsGop(fs, n) ==
    /\ fs # <<>>
    /\ \A j \in DOMAIN fs : /\ fs[j].video
                            /\ fs[j].key <=> j = 1
                            /\ fs[j].seq <= n
    /\ \A j, k \in DOMAIN fs : j < k => fs[j].seq < fs[k].seq

(* A cached group opens with its only key frame and holds later frames in  *)
(* the order they were published, so a snapshot starts at a point a        *)
(* decoder can start from (gop_cache.cpp:30-48).                           *)
KeyFirst == \A i \in DOMAIN gops_ : IsGop(gops_[i].frames, published)

(* trim_locked never evicts the group that the push it belongs to has just *)
(* opened or extended (gop_cache.cpp:53-61): the loop ends before it runs  *)
(* off the deque, and after an accepted push the newest frame is the last  *)
(* one of the snapshot.                                                    *)
NewestKept ==
    [][ <<gops_, bytes_>>' # <<gops_, bytes_>> =>
          /\ gops_' # <<>>
          /\ LET fs == gops_'[Len(gops_')].frames
             IN  fs[Len(fs)].seq = published' ]_vars

(* docs: "the GOP cache lets a new viewer first take the latest key frame  *)
(* and the predicted frames that follow it".  The predicted frames that    *)
(* were published after the latest key frame are then only handed out      *)
(* behind that key frame.  push drops a key frame larger than the cache    *)
(* but appends the frames predicted from it to the group before            *)
(* (gop_cache.cpp:26-48).  Audio frames do not count.                      *)
SnapshotFollowsLatestKey ==
    LET fs == snapshot_from_latest_key
    IN  \A j \in DOMAIN fs : fs[j].seq > lastKey => fs[1].seq = lastKey

=============================================================================
