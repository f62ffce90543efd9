------------------------- MODULE ViewerQueuesProofs -------------------------
(***************************************************************************)
(* The frame queues for any number of viewers and peers and any limits:    *)
(* the books of a queue are right, what is queued is on its way to be      *)
(* sent, a viewer that misses a frame has a key frame coming, and a peer   *)
(* is written frames in the order of their publication.                    *)
(***************************************************************************)
EXTENDS ViewerQueues, TLAPS, WellFoundedInduction, NaturalsInduction

(* The partial sums of the sizes of a queue's frames, the whole being n: a *)
(* witness carried along, since the provers cannot unfold a sum by         *)
(* induction.                                                              *)
Sums(q, acc) == acc[0] = 0 /\ \A i \in 1..Len(q) : acc[i] = acc[i - 1] + q[i].size
Amounts(q, n) == \E acc \in [0..Len(q) -> Nat] : Sums(q, acc) /\ acc[Len(q)] = n

(* A queue, and the bytes it is said to have. *)
QueueOK(q, n) ==
    /\ q \in Seq(Frame) /\ n \in Nat /\ Amounts(q, n)
    /\ Len(q) <= kVideoQueueFrames
    /\ n > video_queue_limit => Len(q) = 1 /\ q[1].key

(* The other variables have their types. *)
RestOK ==
    /\ running \in BOOLEAN
    /\ viewers \in [Viewers -> Peers \cup {0}]
    /\ connected \subseteq Sessions /\ gap \subseteq Sessions
    /\ audio_queue \in [Viewers -> 0..kAudioQueueFrames]
    /\ latest_detection \subseteq Sessions
    /\ keyframe_pending \in BOOLEAN /\ drain_scheduled \in BOOLEAN
    /\ todo \in [Threads -> SUBSET {"request", "schedule"}]
    /\ drains \in Nat
    /\ batches \in [Peers -> Seq(Frame)]
    /\ sending \in Peers \cup {0}
    /\ media_ready_ \subseteq Peers
    /\ peer \in [Peers -> {"none", "live", "reaping", "freed"}]
    /\ written \in [Peers -> 0..FrameBound]
    /\ published \in 0..FrameBound
    /\ asked \in BOOLEAN

QueuesInv ==
    /\ video_queue \in [Viewers -> Seq(Frame)] /\ video_bytes \in [Viewers -> Nat]
    /\ \A v \in Viewers : QueueOK(video_queue[v], video_bytes[v])

Posted == drains > 0 \/ \E t \in Threads : "schedule" \in todo[t]
Requested == asked \/ \E t \in Threads : "request" \in todo[t]
Waits(v) == video_queue[v] # NewQueue \/ audio_queue[v] > 0 \/ v \in latest_detection

(* Only a connected session has something queued, and then a drain is      *)
(* scheduled; a scheduled drain is posted or about to be.                  *)
DrainInv ==
    /\ \A v \in Viewers : Waits(v) => v \in connected /\ (running => drain_scheduled)
    /\ running /\ drain_scheduled => Posted

(* A key frame that is waited for was asked for, unless those who waited   *)
(* are gone.                                                               *)
KeyframeInv ==
    /\ keyframe_pending /\ connected # {} => Requested
    /\ gap # {} => Requested

Ordered(q) == \A i, j \in 1..Len(q) : i < j => q[i].no < q[j].no
Within(q, low, high) == \A i \in 1..Len(q) : low < q[i].no /\ q[i].no <= high

(* A session has its peer for itself, and the peer is live; a peer that    *)
(* was never created is given nothing, and the peer that is sent to has    *)
(* something to be sent.                                                   *)
PeersInv ==
    /\ \A v \in Sessions : peer[viewers[v]] = "live"
    /\ \A v, w \in Sessions : viewers[v] = viewers[w] => v = w
    /\ \A p \in Peers : peer[p] = "none" => batches[p] = NewQueue /\ written[p] = 0
    /\ sending # 0 => batches[sending] # NewQueue

(* What is queued for a session is later than what the running drain has   *)
(* for its peer, and that is later than what has been written.             *)
FramesInv ==
    /\ \A p \in Peers : written[p] <= published
    /\ \A p \in Peers : Ordered(batches[p]) /\ Within(batches[p], written[p], published)
    /\ \A v \in Viewers : Ordered(video_queue[v]) /\ Within(video_queue[v], 0, published)
    /\ \A v \in Sessions : Within(video_queue[v], written[viewers[v]], published)
    /\ \A v \in Sessions : \A i \in 1..Len(batches[viewers[v]]) :
          Within(video_queue[v], batches[viewers[v]][i].no, published)

Inv == RestOK /\ QueuesInv /\ DrainInv /\ KeyframeInv /\ PeersInv /\ FramesInv


-----------------------------------------------------------------------------
(* The sum of the sizes.                                                   *)

(* Every non-empty set of naturals has a least element: induction in the   *)
(* form the provers can use, with a set in place of a predicate.           *)
LEMMA LeastElement ==
  ASSUME NEW T, T \subseteq Nat, T # {}
  PROVE  \E m \in T : \A n \in T : m <= n
<1>1. IsWellFoundedOn(OpToRel(<, Nat), Nat)
  BY NatLessThanWellFounded
<1>2. PICK m \in T : \A n \in T : <<n, m>> \notin OpToRel(<, Nat)
  BY <1>1, WFMin, Zenon
<1>3. \A n \in T : ~(n < m)
  BY <1>2 DEF OpToRel
<1> QED BY <1>3

LEMMA SizesAreNat == \A f \in Frame : f.size \in Nat /\ f.no \in Nat /\ f.no > 0
<1>1. FrameBound \in Nat /\ Sizes \subseteq Nat
  BY QueuesAssumption
<1>2. \A f \in Frame : f.size \in Sizes /\ f.no \in 1..FrameBound
  BY DEF Frame
<1> SUFFICES ASSUME NEW f \in Frame PROVE f.size \in Nat /\ f.no \in Nat /\ f.no > 0
  OBVIOUS
<1>3. f.size \in Nat
  BY ONLY <1>1, <1>2
<1>4. f.no \in 1..FrameBound
  BY ONLY <1>2
<1>5. f.no \in Nat /\ f.no > 0
  BY ONLY <1>1, <1>4
<1> QED BY <1>3, <1>5

LEMMA BytesAmount ==
  ASSUME NEW q \in Seq(Frame), NEW n, Amounts(q, n)
  PROVE  Bytes(q) = n
<1> DEFINE Dom == 0..Len(q)
           Step(f) == [i \in Dom |-> IF i = 0 THEN 0 ELSE f[i - 1] + q[i].size]
           sum == CHOOSE f : f = Step(f)
<1>1. Len(q) \in Nat /\ \A i \in 1..Len(q) : q[i] \in Frame
  OBVIOUS
<1>2. PICK acc \in [0..Len(q) -> Nat] : Sums(q, acc) /\ acc[Len(q)] = n
  BY DEF Amounts
<1>3. ASSUME NEW i \in Dom, i # 0
      PROVE  i - 1 \in Dom /\ q[i].size \in Nat /\ acc[i] = acc[i - 1] + q[i].size
  <2>1. i \in 1..Len(q) /\ i - 1 \in Dom
    BY <1>1, <1>3
  <2> QED BY <1>1, <1>2, <2>1, SizesAreNat DEF Sums
<1>4. acc = Step(acc)
  <2>1. acc[0] = 0
    BY <1>2 DEF Sums
  <2> QED BY <1>2, <1>3, <2>1
<1>5. sum = Step(sum)
  <2> HIDE DEF Step
  <2> QED BY <1>4
<1>6. Bytes(q) = sum[Len(q)]
  BY DEF Bytes
<1>7. \A i \in Dom : sum[i] = IF i = 0 THEN 0 ELSE sum[i - 1] + q[i].size
  <2> HIDE DEF sum
  <2> QED BY <1>5
<1> HIDE DEF sum, Step
<1> DEFINE Bad == {i \in Dom : sum[i] # acc[i]}
<1>8. CASE Bad = {}
  <2>1. Len(q) \in Dom
    BY <1>1
  <2> QED BY <1>2, <1>6, <1>8, <2>1
<1>9. CASE Bad # {}
  <2>1. PICK m \in Bad : \A i \in Bad : m <= i
    <3>1. Bad \subseteq Nat
      OBVIOUS
    <3> HIDE DEF Bad
    <3> QED BY <3>1, <1>9, LeastElement
  <2>2. m # 0
    BY <1>1, <1>2, <1>7, <2>1 DEF Sums
  <2>3. m \in Dom /\ m - 1 \in Dom /\ q[m].size \in Nat /\ acc[m] = acc[m - 1] + q[m].size
    BY <1>3, <2>1, <2>2
  <2>4. sum[m - 1] = acc[m - 1]
    BY <2>1, <2>3
  <2> QED BY <1>7, <2>1, <2>2, <2>3, <2>4
<1> QED BY <1>8, <1>9

LEMMA EmptyQueue == QueueOK(NewQueue, 0)
<1> DEFINE acc == [i \in {0} |-> 0]
<1>1. NewQueue \in Seq(Frame) /\ Len(NewQueue) = 0 /\ 0..0 = {0} /\ 1..0 = {}
  BY DEF NewQueue
<1>2. acc \in [0..Len(NewQueue) -> Nat] /\ acc[0] = 0
  BY <1>1
<1> HIDE DEF acc
<1>3. Amounts(NewQueue, 0)
  BY <1>1, <1>2 DEF Amounts, Sums
<1> QED BY <1>1, <1>3, QueuesAssumption DEF QueueOK

LEMMA AppendAmount ==
  ASSUME NEW q \in Seq(Frame), NEW n \in Nat, Amounts(q, n), NEW f \in Frame
  PROVE  Amounts(Append(q, f), n + f.size)
<1>1. PICK acc \in [0..Len(q) -> Nat] : Sums(q, acc) /\ acc[Len(q)] = n
  BY DEF Amounts
<1> DEFINE x == Append(q, f)
           sum == [i \in 0..Len(x) |-> IF i = Len(x) THEN n + f.size ELSE acc[i]]
<1>2. /\ Len(q) \in Nat /\ Len(x) = Len(q) + 1 /\ x[Len(x)] = f
      /\ \A i \in 1..Len(q) : x[i] = q[i]
  OBVIOUS
<1>3. f.size \in Nat
  BY SizesAreNat
<1>4. sum \in [0..Len(x) -> Nat]
  BY <1>1, <1>2, <1>3
<1>5. sum[Len(x)] = n + f.size /\ sum[0] = 0
  BY <1>1, <1>2 DEF Sums
<1>6. ASSUME NEW i \in 1..Len(x) PROVE sum[i] = sum[i - 1] + x[i].size
  <2>1. CASE i = Len(x)
    <3>1. sum[i - 1] = n
      BY <1>1, <1>2, <2>1
    <3> QED BY <1>2, <1>5, <2>1, <3>1
  <2>2. CASE i # Len(x)
    <3>1. i \in 1..Len(q) /\ sum[i] = acc[i] /\ sum[i - 1] = acc[i - 1] /\ x[i] = q[i]
      BY <1>2, <2>2
    <3> QED BY <1>1, <3>1 DEF Sums
  <2> QED BY <2>1, <2>2
<1> HIDE DEF sum, x
<1> QED BY <1>4, <1>5, <1>6 DEF Amounts, Sums, x

(* A frame is appended to a queue that has room for it, or to a cleared    *)
(* one if it is a key frame.                                               *)
LEMMA QueuedFrame ==
  ASSUME NEW q, NEW n, QueueOK(q, n), NEW f \in Frame,
         \/ Len(q) < kVideoQueueFrames /\ n + f.size <= video_queue_limit
         \/ q = NewQueue /\ n = 0 /\ f.key
  PROVE  QueueOK(Append(q, f), n + f.size)
<1>1. q \in Seq(Frame) /\ n \in Nat /\ Amounts(q, n) /\ f.size \in Nat
  BY SizesAreNat DEF QueueOK
<1>2. Append(q, f) \in Seq(Frame) /\ n + f.size \in Nat /\ Amounts(Append(q, f), n + f.size)
  BY <1>1, AppendAmount
<1>3. Len(q) \in Nat /\ Len(Append(q, f)) = Len(q) + 1
  BY <1>1
<1>4. CASE Len(q) < kVideoQueueFrames /\ n + f.size <= video_queue_limit
  BY <1>1, <1>2, <1>3, <1>4, QueuesAssumption DEF QueueOK
<1>5. CASE q = NewQueue /\ n = 0 /\ f.key
  <2>1. Len(q) = 0 /\ Append(q, f)[1] = f
    BY <1>1, <1>5 DEF NewQueue
  <2> QED BY <1>2, <1>3, <1>5, <2>1, QueuesAssumption DEF QueueOK
<1> QED BY <1>4, <1>5


-----------------------------------------------------------------------------
(* Queues of increasing frames.                                            *)

LEMMA EmptyWithin == Ordered(NewQueue) /\ \A low, high : Within(NewQueue, low, high)
<1>1. Len(NewQueue) = 0 /\ 1..0 = {}
  BY DEF NewQueue
<1> QED BY <1>1 DEF Ordered, Within

LEMMA WithinMore ==
  ASSUME NEW q \in Seq(Frame), NEW low, NEW high \in Nat, Within(q, low, high),
         NEW high2 \in Nat, high <= high2
  PROVE  Within(q, low, high2)
<1>1. \A i \in 1..Len(q) : q[i] \in Frame
  OBVIOUS
<1> QED BY <1>1, SizesAreNat DEF Within

LEMMA AppendWithin ==
  ASSUME NEW q \in Seq(Frame), NEW f \in Frame, NEW low \in Nat, NEW high \in Nat,
         Within(q, low, high), low <= high, high < f.no
  PROVE  Within(Append(q, f), low, f.no)
<1> DEFINE x == Append(q, f)
<1>1. /\ Len(q) \in Nat /\ Len(x) = Len(q) + 1 /\ x[Len(x)] = f
      /\ \A i \in 1..Len(q) : x[i] = q[i] /\ q[i] \in Frame
  OBVIOUS
<1> HIDE DEF x
<1>2. ASSUME NEW i \in 1..Len(x) PROVE low < x[i].no /\ x[i].no <= f.no
  <2>1. CASE i = Len(x)
    BY <1>1, <2>1, SizesAreNat
  <2>2. CASE i # Len(x)
    <3>1. i \in 1..Len(q)
      BY <1>1, <2>2
    <3> QED BY <1>1, <3>1, SizesAreNat DEF Within
  <2> QED BY <2>1, <2>2
<1> QED BY <1>2 DEF Within, x

LEMMA AppendOrdered ==
  ASSUME NEW q \in Seq(Frame), NEW f \in Frame, NEW low, NEW high \in Nat,
         Ordered(q), Within(q, low, high), high < f.no
  PROVE  Ordered(Append(q, f))
<1> DEFINE x == Append(q, f)
<1>1. /\ Len(q) \in Nat /\ Len(x) = Len(q) + 1 /\ x[Len(x)] = f
      /\ \A i \in 1..Len(q) : x[i] = q[i] /\ q[i] \in Frame
  OBVIOUS
<1> HIDE DEF x
<1>2. ASSUME NEW i \in 1..Len(x), NEW j \in 1..Len(x), i < j PROVE x[i].no < x[j].no
  <2>1. i \in 1..Len(q)
    BY <1>1, <1>2
  <2>2. CASE j = Len(x)
    BY <1>1, <2>1, <2>2, SizesAreNat DEF Within
  <2>3. CASE j # Len(x)
    <3>1. j \in 1..Len(q)
      BY <1>1, <2>3
    <3> QED BY <1>1, <1>2, <2>1, <3>1 DEF Ordered
  <2> QED BY <2>2, <2>3
<1> QED BY <1>2 DEF Ordered, x

LEMMA TailOrdered ==
  ASSUME NEW q \in Seq(Frame), q # <<>>, NEW low, NEW high, Ordered(q), Within(q, low, high)
  PROVE  /\ Tail(q) \in Seq(Frame) /\ Head(q) \in Frame /\ Head(q) = q[1]
         /\ low < Head(q).no /\ Head(q).no <= high
         /\ Ordered(Tail(q)) /\ Within(Tail(q), Head(q).no, high) /\ Within(Tail(q), low, high)
         /\ \A i \in 1..Len(Tail(q)) : \E j \in 1..Len(q) : Tail(q)[i] = q[j]
<1> DEFINE x == Tail(q)
<1>1. /\ Len(q) \in Nat /\ Len(q) >= 1 /\ x \in Seq(Frame) /\ Len(x) = Len(q) - 1
      /\ Head(q) = q[1] /\ Head(q) \in Frame
      /\ \A i \in 1..Len(x) : x[i] = q[i + 1]
  OBVIOUS
<1> HIDE DEF x
<1>2. \A i \in 1..Len(x) : i + 1 \in 1..Len(q) /\ 1 < i + 1
  BY <1>1
<1>3. 1 \in 1..Len(q)
  BY <1>1
<1>4. Ordered(x)
  <2> SUFFICES ASSUME NEW i \in 1..Len(x), NEW j \in 1..Len(x), i < j PROVE x[i].no < x[j].no
    BY DEF Ordered
  <2>1. i + 1 < j + 1
    BY <1>1
  <2> QED BY <1>1, <1>2, <2>1 DEF Ordered
<1>5. Within(x, Head(q).no, high)
  BY <1>1, <1>2, <1>3 DEF Ordered, Within
<1>6. low < Head(q).no /\ Head(q).no <= high
  BY <1>1, <1>3 DEF Within
<1>7. \A i \in 1..Len(x) : \E j \in 1..Len(q) : x[i] = q[j]
  BY <1>1, <1>2
<1>8. Within(x, low, high)
  BY <1>7 DEF Within
<1> QED BY <1>1, <1>4, <1>5, <1>6, <1>7, <1>8 DEF x


-----------------------------------------------------------------------------
(* The types.                                                              *)

LEMMA InitInv == Init => Inv
<1> SUFFICES ASSUME Init PROVE Inv
  OBVIOUS
<1> USE DEF Init
<1>1. Sessions = {}
  BY DEF Sessions
<1>2. PeerBound \in Nat /\ FrameBound \in Nat /\ kAudioQueueFrames \in Nat \ {0}
  BY QueuesAssumption
<1>3. NewQueue \in Seq(Frame)
  BY DEF NewQueue
<1>4. RestOK
  <2>1. 0 \in 0..FrameBound /\ 0 \in 0..kAudioQueueFrames
    BY <1>2
  <2>2. /\ viewers \in [Viewers -> Peers \cup {0}] /\ batches \in [Peers -> Seq(Frame)]
        /\ written \in [Peers -> 0..FrameBound]
        /\ audio_queue \in [Viewers -> 0..kAudioQueueFrames]
    BY <1>3, <2>1
  <2>3. /\ todo \in [Threads -> SUBSET {"request", "schedule"}]
        /\ peer \in [Peers -> {"none", "live", "reaping", "freed"}]
    OBVIOUS
  <2> QED BY <1>1, <2>1, <2>2, <2>3 DEF RestOK
<1>5. QueuesInv
  BY <1>3, EmptyQueue DEF QueuesInv
<1>6. DrainInv /\ KeyframeInv
  BY DEF DrainInv, KeyframeInv, Waits, Posted, Requested
<1>7. PeersInv /\ FramesInv
  BY <1>1, EmptyWithin DEF PeersInv, FramesInv
<1> QED BY <1>4, <1>5, <1>6, <1>7 DEF Inv

(* What a drain takes for a peer is the queue of its session, or nothing. *)
LEMMA BatchIsAQueue ==
  ASSUME NEW p
  PROVE  \/ Batch(p) = NewQueue /\ \A v \in Sessions : viewers[v] # p
         \/ \E v \in Sessions : viewers[v] = p /\ Batch(p) = video_queue[v]
BY DEF Batch

LEMMA TodoTyped ==
  ASSUME RestOK, NEW t \in Threads, NEW queued, NEW request, Scheduled(t, queued, request),
         queued \in BOOLEAN
  PROVE  todo' \in [Threads -> SUBSET {"request", "schedule"}] /\ drain_scheduled' \in BOOLEAN
BY DEF Scheduled, RestOK

LEMMA RestKept ==
  ASSUME Inv, [Next]_vars
  PROVE  RestOK'
<1> USE DEF RestOK, sessionVars, queueVars
<1>1. RestOK /\ QueuesInv /\ PeersInv
  BY DEF Inv
<1>2. PeerBound \in Nat /\ FrameBound \in Nat /\ kAudioQueueFrames \in Nat \ {0}
  BY QueuesAssumption
<1>3. NewQueue \in Seq(Frame)
  BY DEF NewQueue
<1>4. ASSUME NEW v \in Viewers, NEW p \in Peers, Enter(v, p) PROVE RestOK'
  <2>1. Sessions \subseteq Sessions'
    BY <1>1, <1>4 DEF Enter, Sessions
  <2> QED BY <1>1, <1>4, <2>1 DEF Enter
<1>5. ASSUME NEW p \in Peers, ReportConnected(p) PROVE RestOK'
  BY <1>1, <1>5 DEF ReportConnected, Sessions
<1>6. ASSUME NEW v \in Viewers, on_connected(v) PROVE RestOK'
  BY <1>1, <1>6 DEF on_connected, Sessions
<1>7. ASSUME NEW v \in Viewers, remove_viewer(v) PROVE RestOK'
  <2>1. Sessions' = Sessions \ {v}
    BY <1>1, <1>7 DEF remove_viewer, Sessions
  <2>2. viewers[v] \in Peers /\ 0 \notin Peers
    BY <1>1, <1>2, <1>7 DEF remove_viewer, Sessions, Peers
  <2> QED BY <1>1, <1>2, <1>7, <2>1, <2>2 DEF remove_viewer
<1>8. ASSUME NEW p \in Peers, Reap(p) PROVE RestOK'
  BY <1>1, <1>8 DEF Reap, Sessions
<1>9. ASSUME StopBegin PROVE RestOK'
  BY <1>1, <1>9 DEF StopBegin, Sessions
<1>10. ASSUME NEW f \in Frame, enqueue_video(f) PROVE RestOK'
  <2>1. Sessions' = Sessions
    BY <1>10 DEF enqueue_video, Enqueued, Sessions
  <2>2. f.no \in 1..FrameBound /\ f.key \in BOOLEAN
    BY DEF Frame
  <2>3. gap' \subseteq Sessions
    BY <1>1, <1>10 DEF enqueue_video, Enqueued
  <2>4. todo' \in [Threads -> SUBSET {"request", "schedule"}] /\ drain_scheduled' \in BOOLEAN
    BY <1>1, <1>10, TodoTyped DEF enqueue_video, Enqueued, Threads
  <2>5. keyframe_pending' \in BOOLEAN /\ asked' \in BOOLEAN
    BY <1>1, <1>10, <2>2 DEF enqueue_video, Enqueued
  <2>6. published' \in 0..FrameBound
    BY <1>2, <1>10, <2>2 DEF enqueue_video, Enqueued
  <2>7. UNCHANGED <<running, viewers, connected, audio_queue, latest_detection, drains, batches,
                    sending, media_ready_, peer, written>>
    BY <1>10 DEF enqueue_video, Enqueued
  <2> QED BY <1>1, <2>1, <2>3, <2>4, <2>5, <2>6, <2>7
<1>11. ASSUME NEW f \in Frame, PublishUnheard(f) PROVE RestOK'
  <2>1. f.no \in 1..FrameBound /\ f.key \in BOOLEAN /\ published' \in 0..FrameBound
    BY <1>2, <1>11 DEF Frame, PublishUnheard
  <2> QED BY <1>1, <1>11, <2>1 DEF PublishUnheard, Sessions
<1>12. ASSUME enqueue_audio PROVE RestOK'
  <2>1. todo' \in [Threads -> SUBSET {"request", "schedule"}] /\ drain_scheduled' \in BOOLEAN
    BY <1>1, <1>12, TodoTyped DEF enqueue_audio, Threads
  <2>2. audio_queue' \in [Viewers -> 0..kAudioQueueFrames]
    BY <1>1, <1>2, <1>12 DEF enqueue_audio
  <2> QED BY <1>1, <1>12, <2>1, <2>2 DEF enqueue_audio, Sessions
<1>13. ASSUME enqueue_detection PROVE RestOK'
  <2>1. todo' \in [Threads -> SUBSET {"request", "schedule"}] /\ drain_scheduled' \in BOOLEAN
    BY <1>1, <1>13, TodoTyped DEF enqueue_detection, Threads
  <2> QED BY <1>1, <1>13, <2>1 DEF enqueue_detection, Sessions
<1>14. ASSUME NEW t \in Threads, RequestKeyframe(t) PROVE RestOK'
  BY <1>1, <1>14 DEF RequestKeyframe, Sessions
<1>15. ASSUME NEW t \in Threads, schedule_drain(t) PROVE RestOK'
  <2>1. todo' \in [Threads -> SUBSET {"request", "schedule"}]
    BY <1>1, <1>15 DEF schedule_drain
  <2>2. drains' \in Nat /\ drain_scheduled' \in BOOLEAN
    <3>1. drains \in Nat /\ drain_scheduled \in BOOLEAN
      BY <1>1
    <3>2. \/ drains' = drains + 1 /\ drain_scheduled' = drain_scheduled
          \/ drains' = drains /\ drain_scheduled' = FALSE
      BY <1>15 DEF schedule_drain
    <3>3. drain_scheduled' \in BOOLEAN
      BY ONLY <3>1, <3>2, Zenon
    <3>4. CASE drains' = drains + 1
      BY ONLY <3>1, <3>3, <3>4
    <3>5. CASE drains' = drains
      BY ONLY <3>1, <3>3, <3>5
    <3> QED BY ONLY <3>2, <3>4, <3>5
  <2> QED BY <1>1, <1>15, <2>1, <2>2 DEF schedule_drain, Sessions
<1>16. ASSUME DrainBegin PROVE RestOK'
  <2>1. ASSUME NEW p \in Peers PROVE Batch(p) \in Seq(Frame)
    <3>1. \A v \in Sessions : video_queue[v] \in Seq(Frame)
      BY <1>1 DEF QueuesInv, Sessions
    <3> QED BY <1>3, <3>1, BatchIsAQueue
  <2>2. audio_queue' \in [Viewers -> 0..kAudioQueueFrames] /\ drains' \in Nat
    BY <1>1, <1>2, <1>16 DEF DrainBegin
  <2> QED BY <1>1, <1>16, <2>1, <2>2 DEF DrainBegin, Sessions
<1>17. ASSUME NEW p \in Peers, WriteBegin(p) PROVE RestOK'
  <2>1. batches[p] \in Seq(Frame) /\ batches[p] # <<>>
    BY <1>1, <1>17 DEF WriteBegin, NewQueue
  <2>2. Tail(batches[p]) \in Seq(Frame)
    BY <2>1
  <2>3. batches' \in [Peers -> Seq(Frame)] /\ sending' \in Peers \cup {0}
    BY <1>1, <1>17, <2>2 DEF WriteBegin
  <2> QED BY <1>1, <1>17, <2>3 DEF WriteBegin, Sessions
<1>18. ASSUME WriteEnd PROVE RestOK'
  <2>1. sending \in Peers /\ batches[sending] \in Seq(Frame) /\ batches[sending] # <<>>
    BY <1>1, <1>18 DEF WriteEnd, PeersInv, NewQueue
  <2>2. Head(batches[sending]) \in Frame /\ Tail(batches[sending]) \in Seq(Frame)
    BY <2>1
  <2>3. Head(batches[sending]).no \in 0..FrameBound
    BY <1>2, <2>2 DEF Frame
  <2>4. written' \in [Peers -> 0..FrameBound] /\ batches' \in [Peers -> Seq(Frame)]
    BY <1>1, <1>18, <2>1, <2>2, <2>3 DEF WriteEnd
  <2> QED BY <1>1, <1>18, <2>4 DEF WriteEnd, Sessions
<1>19. CASE UNCHANGED vars
  BY <1>1, <1>19 DEF vars, Sessions
<1> QED BY <1>4, <1>5, <1>6, <1>7, <1>8, <1>9, <1>10, <1>11, <1>12, <1>13, <1>14, <1>15, <1>16,
           <1>17, <1>18, <1>19 DEF Next, Capture, Drain


(* The queue of v after f was published, and its bytes. *)
EnqueuedAt(v, f) ==
    \/ /\ v \in connected /\ Overflows(v, f) /\ f.key
       /\ video_queue'[v] = Append(NewQueue, f) /\ video_bytes'[v] = 0 + f.size
    \/ /\ v \in connected /\ Overflows(v, f) /\ ~f.key
       /\ video_queue'[v] = NewQueue /\ video_bytes'[v] = 0
    \/ /\ v \in connected /\ ~Overflows(v, f)
       /\ video_queue'[v] = Append(video_queue[v], f) /\ video_bytes'[v] = video_bytes[v] + f.size
    \/ /\ v \notin connected
       /\ video_queue'[v] = video_queue[v] /\ video_bytes'[v] = video_bytes[v]

LEMMA EnqueueEffect ==
  ASSUME NEW f \in Frame, enqueue_video(f), NEW v \in Viewers
  PROVE  EnqueuedAt(v, f)
BY DEF enqueue_video, Enqueued, EnqueuedAt

LEMMA QueuesKept ==
  ASSUME Inv, [Next]_vars
  PROVE  QueuesInv'
<1> USE DEF sessionVars, queueVars
<1>1. RestOK /\ QueuesInv
  BY DEF Inv
<1>2. CASE UNCHANGED <<video_queue, video_bytes>>
  BY <1>1, <1>2 DEF QueuesInv
<1>3. ASSUME NEW v \in Viewers, remove_viewer(v) PROVE QueuesInv'
  <2>1. /\ video_queue' = [video_queue EXCEPT ![v] = NewQueue]
        /\ video_bytes' = [video_bytes EXCEPT ![v] = 0]
    BY <1>3 DEF remove_viewer
  <2>2. NewQueue \in Seq(Frame)
    BY DEF NewQueue
  <2>3. video_queue' \in [Viewers -> Seq(Frame)] /\ video_bytes' \in [Viewers -> Nat]
    BY <1>1, <2>1, <2>2 DEF QueuesInv
  <2>4. ASSUME NEW w \in Viewers PROVE QueueOK(video_queue'[w], video_bytes'[w])
    BY <1>1, <2>1, EmptyQueue DEF QueuesInv
  <2> QED BY <2>3, <2>4 DEF QueuesInv
<1>4. ASSUME NEW f \in Frame, enqueue_video(f) PROVE QueuesInv'
  <2>1. ASSUME NEW v \in Viewers PROVE QueueOK(video_queue'[v], video_bytes'[v])
    <3>1. QueueOK(video_queue[v], video_bytes[v])
      BY <1>1 DEF QueuesInv
    <3>2. EnqueuedAt(v, f)
      BY <1>4, EnqueueEffect
    <3>3. CASE /\ v \in connected /\ Overflows(v, f) /\ f.key
               /\ video_queue'[v] = Append(NewQueue, f) /\ video_bytes'[v] = 0 + f.size
      <4>1. QueueOK(Append(NewQueue, f), 0 + f.size)
        BY <3>3, EmptyQueue, QueuedFrame
      <4> QED BY <3>3, <4>1
    <3>4. CASE video_queue'[v] = NewQueue /\ video_bytes'[v] = 0
      BY <3>4, EmptyQueue
    <3>5. CASE /\ v \in connected /\ ~Overflows(v, f)
               /\ video_queue'[v] = Append(video_queue[v], f)
               /\ video_bytes'[v] = video_bytes[v] + f.size
      <4>1. Len(video_queue[v]) \in Nat /\ video_bytes[v] \in Nat /\ f.size \in Nat
        BY <3>1, SizesAreNat DEF QueueOK
      <4>2. Len(video_queue[v]) < kVideoQueueFrames /\ video_bytes[v] + f.size <= video_queue_limit
        BY <3>5, <4>1, QueuesAssumption DEF Overflows
      <4> HIDE DEF Overflows
      <4>3. QueueOK(Append(video_queue[v], f), video_bytes[v] + f.size)
        BY <3>1, <4>2, QueuedFrame
      <4> QED BY <3>5, <4>3
    <3>6. CASE video_queue'[v] = video_queue[v] /\ video_bytes'[v] = video_bytes[v]
      BY <3>1, <3>6
    <3> QED BY <3>2, <3>3, <3>4, <3>5, <3>6 DEF EnqueuedAt
  <2>2. video_queue' = [v \in Viewers |-> video_queue'[v]] /\ video_bytes' = [v \in Viewers |-> video_bytes'[v]]
    BY <1>4 DEF enqueue_video, Enqueued
  <2> QED BY <2>1, <2>2 DEF QueuesInv, QueueOK
<1>5. ASSUME DrainBegin PROVE QueuesInv'
  <2>1. NewQueue \in Seq(Frame)
    BY DEF NewQueue
  <2>2. video_queue' = [v \in Viewers |-> NewQueue] /\ video_bytes' = [v \in Viewers |-> 0]
    BY <1>5 DEF DrainBegin
  <2> QED BY <2>1, <2>2, EmptyQueue DEF QueuesInv
<1>6. ASSUME NEW p \in Peers, Reap(p) \/ WriteBegin(p) \/ ReportConnected(p)
      PROVE  UNCHANGED <<video_queue, video_bytes>>
  BY <1>6 DEF Reap, WriteBegin, ReportConnected
<1>7. ASSUME NEW v \in Viewers, on_connected(v) \/ \E p \in Peers : Enter(v, p)
      PROVE  UNCHANGED <<video_queue, video_bytes>>
  BY <1>7 DEF on_connected, Enter
<1>8. ASSUME StopBegin \/ enqueue_audio \/ enqueue_detection \/ WriteEnd
             \/ (\E f \in Frame : PublishUnheard(f)) \/ (\E t \in Threads : Capture(t))
      PROVE  UNCHANGED <<video_queue, video_bytes>>
  BY <1>8 DEF StopBegin, enqueue_audio, enqueue_detection, WriteEnd, PublishUnheard, Capture,
              RequestKeyframe, schedule_drain
<1>9. CASE UNCHANGED vars
  BY <1>2, <1>9 DEF vars
<1> QED BY <1>2, <1>3, <1>4, <1>5, <1>6, <1>7, <1>8, <1>9 DEF Next, Drain

(* The books of the queues, and the types. *)
LEMMA TypesFollow == Inv => TypeOK
<1> SUFFICES ASSUME Inv PROVE TypeOK
  OBVIOUS
<1>1. RestOK /\ QueuesInv
  BY DEF Inv
<1>2. ASSUME NEW v \in Viewers
      PROVE  /\ video_bytes[v] = Bytes(video_queue[v])
             /\ Len(video_queue[v]) <= kVideoQueueFrames
             /\ video_bytes[v] > video_queue_limit =>
                  Len(video_queue[v]) = 1 /\ video_queue[v][1].key
  <2>1. QueueOK(video_queue[v], video_bytes[v])
    BY <1>1 DEF QueuesInv
  <2>2. video_queue[v] \in Seq(Frame) /\ Amounts(video_queue[v], video_bytes[v])
    BY <2>1 DEF QueueOK
  <2>3. Bytes(video_queue[v]) = video_bytes[v]
    BY <2>2, BytesAmount
  <2> QED BY <2>1, <2>3 DEF QueueOK
<1> QED BY <1>1, <1>2 DEF TypeOK, RestOK, QueuesInv


-----------------------------------------------------------------------------
(* Drains and key frame requests.                                          *)

(* A thread that schedules a drain leaves it posted or posts it next, and  *)
(* forgets nothing it still had to do.                                     *)
LEMMA ScheduledEffect ==
  ASSUME NEW t \in Threads, NEW queued \in BOOLEAN, NEW request \in BOOLEAN,
         Scheduled(t, queued, request), todo[t] = {}, RestOK, drains' = drains
  PROVE  /\ \A s \in Threads : s # t => todo'[s] = todo[s]
         /\ (drain_scheduled => Posted) => (drain_scheduled' => Posted')
         /\ queued => drain_scheduled'
         /\ drain_scheduled => drain_scheduled'
         /\ request => "request" \in todo'[t]
<1>1. todo \in [Threads -> SUBSET {"request", "schedule"}]
  BY DEF RestOK
<1>2. \A s \in Threads : s # t => todo'[s] = todo[s]
  BY <1>1 DEF Scheduled
<1>3. request => "request" \in todo'[t]
  BY <1>1 DEF Scheduled
<1>4. queued /\ ~drain_scheduled => "schedule" \in todo'[t]
  BY <1>1 DEF Scheduled
<1>5. drain_scheduled' = (drain_scheduled \/ queued)
  BY DEF Scheduled
<1>6. Posted => Posted'
  BY <1>2 DEF Posted
<1>7. queued /\ ~drain_scheduled => Posted'
  BY <1>4 DEF Posted
<1> QED BY <1>2, <1>3, <1>5, <1>6, <1>7

LEMMA DrainKept ==
  ASSUME Inv, [Next]_vars
  PROVE  DrainInv'
<1> USE DEF sessionVars, queueVars
<1>1. RestOK /\ DrainInv
  BY DEF Inv
<1>2. /\ todo \in [Threads -> SUBSET {"request", "schedule"}] /\ drains \in Nat
      /\ connected \subseteq Sessions
  BY <1>1 DEF RestOK
<1>3. ASSUME UNCHANGED <<running, queueVars, drain_scheduled, drains>>, connected \subseteq connected',
             Posted => Posted'
      PROVE  DrainInv'
  BY <1>1, <1>3 DEF DrainInv, Waits
<1>4. ASSUME NEW v \in Viewers, NEW p \in Peers, Enter(v, p) PROVE DrainInv'
  BY <1>3, <1>4 DEF Enter, Posted
<1>5. ASSUME NEW p \in Peers, ReportConnected(p) \/ Reap(p) \/ WriteBegin(p) PROVE DrainInv'
  BY <1>3, <1>5 DEF ReportConnected, Reap, WriteBegin, Posted
<1>6. ASSUME NEW v \in Viewers, on_connected(v) PROVE DrainInv'
  <2>1. \A t \in Threads : todo[t] # {} => todo'[t] = todo[t]
    BY <1>2, <1>6 DEF on_connected
  <2>2. drains' = drains
    BY <1>6 DEF on_connected
  <2>3. Posted => Posted'
    BY <2>1, <2>2 DEF Posted
  <2> QED BY <1>3, <1>6, <2>3 DEF on_connected
<1>7. ASSUME NEW v \in Viewers, remove_viewer(v) PROVE DrainInv'
  <2>1. UNCHANGED <<running, todo, drains>>
    BY <1>7 DEF remove_viewer
  <2>2. ASSUME NEW w \in Viewers, Waits(w)' PROVE w # v /\ Waits(w)
    <3>1. w # v
      <4>1. SUFFICES ASSUME w = v PROVE FALSE
        OBVIOUS
      <4>2. video_queue'[v] = NewQueue
        BY <1>1, <1>7 DEF remove_viewer, Inv, QueuesInv
      <4>3. audio_queue'[v] = 0 /\ v \notin latest_detection'
        BY <1>1, <1>7 DEF remove_viewer, RestOK
      <4> QED BY <2>2, <4>1, <4>2, <4>3 DEF Waits
    <3>2. /\ video_queue'[w] = video_queue[w] /\ audio_queue'[w] = audio_queue[w]
          /\ w \in latest_detection' => w \in latest_detection
      BY <1>1, <1>7, <3>1 DEF remove_viewer, Inv, QueuesInv, RestOK
    <3> QED BY <2>2, <3>1, <3>2 DEF Waits
  <2>3. connected' = connected \ {v}
    BY <1>7 DEF remove_viewer
  <2>4. drain_scheduled' => drain_scheduled
    BY <1>7 DEF remove_viewer
  <2>5. Sessions # {v} => drain_scheduled' = drain_scheduled
    <3>1. drain_scheduled' = (drain_scheduled /\ Sessions # {v})
      BY <1>7 DEF remove_viewer
    <3> QED BY <1>1, <3>1, Zenon DEF RestOK
  <2>6. ASSUME NEW w \in Viewers, Waits(w)'
        PROVE  w \in connected' /\ (running' => drain_scheduled')
    <3>1. w # v /\ w \in connected /\ (running => drain_scheduled)
      BY <1>1, <2>2, <2>6 DEF DrainInv
    <3>2. Sessions # {v}
      BY <1>2, <3>1
    <3> QED BY <2>1, <2>3, <2>5, <3>1, <3>2
  <2>7. running' /\ drain_scheduled' => Posted'
    BY <1>1, <2>1, <2>4 DEF DrainInv, Posted
  <2> QED BY <2>6, <2>7 DEF DrainInv
<1>8. ASSUME StopBegin PROVE DrainInv'
  BY <1>1, <1>8 DEF StopBegin, DrainInv, Waits
<1>9. ASSUME NEW f \in Frame, enqueue_video(f) PROVE DrainInv'
  <2> DEFINE over == {v \in connected : Overflows(v, f)}
             lost == IF f.key THEN {} ELSE over
             takes == connected \ lost
             awaited == keyframe_pending /\ ~f.key
  <2>1. /\ Scheduled("video", takes # {}, lost # {} /\ ~awaited) /\ todo["video"] = {}
        /\ UNCHANGED <<running, connected, audio_queue, latest_detection, drains>>
    BY <1>9 DEF enqueue_video, Enqueued
  <2>2. \A v \in Viewers : EnqueuedAt(v, f)
    BY <1>9, EnqueueEffect
  <2>3. ASSUME NEW v \in Viewers, Waits(v)' PROVE v \in takes \/ Waits(v)
    BY <2>1, <2>2, <2>3 DEF EnqueuedAt, Waits
  <2> HIDE DEF over, lost, takes, awaited
  <2>4. /\ (drain_scheduled => Posted) => (drain_scheduled' => Posted')
        /\ takes # {} => drain_scheduled'
        /\ drain_scheduled => drain_scheduled'
    <3>1. "video" \in Threads /\ (takes # {}) \in BOOLEAN /\ (lost # {} /\ ~awaited) \in BOOLEAN
      BY DEF Threads
    <3>2. \A queued, request \in BOOLEAN : Scheduled("video", queued, request) =>
            /\ (drain_scheduled => Posted) => (drain_scheduled' => Posted')
            /\ queued => drain_scheduled'
            /\ drain_scheduled => drain_scheduled'
      BY <1>1, <2>1, <3>1, ScheduledEffect
    <3> QED BY <2>1, <3>1, <3>2
  <2>5. ASSUME NEW v \in Viewers, Waits(v)'
        PROVE  v \in connected' /\ (running' => drain_scheduled')
    <3>1. takes \subseteq connected
      BY DEF takes
    <3> QED BY <1>1, <2>1, <2>3, <2>4, <2>5, <3>1 DEF DrainInv
  <2> QED BY <1>1, <2>1, <2>4, <2>5 DEF DrainInv
<1>10. ASSUME NEW f \in Frame, PublishUnheard(f) PROVE DrainInv'
  BY <1>3, <1>10 DEF PublishUnheard, Posted
<1>11. ASSUME NEW t \in {"audio", "detect"}, Scheduled(t, connected # {}, FALSE), todo[t] = {},
              UNCHANGED <<running, connected, drains>>,
              \A v \in Viewers : Waits(v)' => v \in connected \/ Waits(v)
       PROVE  DrainInv'
  <2>1. t \in Threads /\ (connected # {}) \in BOOLEAN /\ FALSE \in BOOLEAN
    BY DEF Threads
  <2>2. /\ (drain_scheduled => Posted) => (drain_scheduled' => Posted')
        /\ connected # {} => drain_scheduled'
        /\ drain_scheduled => drain_scheduled'
    BY <1>1, <1>11, <2>1, ScheduledEffect
  <2> QED BY <1>1, <1>11, <2>2 DEF DrainInv
<1>12. ASSUME enqueue_audio PROVE DrainInv'
  <2>1. \A v \in Viewers : Waits(v)' => v \in connected \/ Waits(v)
    BY <1>12 DEF enqueue_audio, Waits
  <2> QED BY <1>11, <1>12, <2>1 DEF enqueue_audio
<1>13. ASSUME enqueue_detection PROVE DrainInv'
  <2>1. \A v \in Viewers : Waits(v)' => v \in connected \/ Waits(v)
    BY <1>13 DEF enqueue_detection, Waits
  <2> QED BY <1>11, <1>13, <2>1 DEF enqueue_detection
<1>14. ASSUME NEW t \in Threads, RequestKeyframe(t) PROVE DrainInv'
  <2>1. \A s \in Threads : "schedule" \in todo[s] => "schedule" \in todo'[s]
    BY <1>2, <1>14 DEF RequestKeyframe
  <2> QED BY <1>3, <1>14, <2>1 DEF RequestKeyframe, Posted
<1>15. ASSUME NEW t \in Threads, schedule_drain(t) PROVE DrainInv'
  <2>1. UNCHANGED <<running, connected, queueVars>>
    BY <1>15 DEF schedule_drain
  <2>2. CASE running
    <3>1. drains' = drains + 1 /\ drain_scheduled' = drain_scheduled
      BY <1>15, <2>2 DEF schedule_drain
    <3>2. Posted'
      BY <1>2, <3>1 DEF Posted
    <3> QED BY <1>1, <2>1, <3>1, <3>2 DEF DrainInv, Waits
  <2>3. CASE ~running
    BY <1>1, <2>1, <2>3 DEF DrainInv, Waits
  <2> QED BY <2>2, <2>3
<1>16. ASSUME DrainBegin PROVE DrainInv'
  BY <1>16 DEF DrainBegin, DrainInv, Waits
<1>17. ASSUME WriteEnd PROVE DrainInv'
  BY <1>3, <1>17 DEF WriteEnd, Posted
<1>18. CASE UNCHANGED vars
  BY <1>3, <1>18 DEF vars, Posted
<1> QED BY <1>4, <1>5, <1>6, <1>7, <1>8, <1>9, <1>10, <1>12, <1>13, <1>14, <1>15, <1>16, <1>17,
           <1>18 DEF Next, Capture, Drain


LEMMA KeyframeKept ==
  ASSUME Inv, [Next]_vars
  PROVE  KeyframeInv'
<1> USE DEF sessionVars, queueVars
<1>1. RestOK /\ KeyframeInv
  BY DEF Inv
<1>2. /\ todo \in [Threads -> SUBSET {"request", "schedule"}]
      /\ connected \subseteq Sessions /\ gap \subseteq Sessions
      /\ keyframe_pending \in BOOLEAN /\ asked \in BOOLEAN
  BY <1>1 DEF RestOK
<1>3. ASSUME keyframe_pending' = keyframe_pending, gap' \subseteq gap, connected' \subseteq connected,
             Requested => Requested'
      PROVE  KeyframeInv'
  BY <1>1, <1>3 DEF KeyframeInv
<1>4. ASSUME NEW v \in Viewers, remove_viewer(v) \/ \E p \in Peers : Enter(v, p)
      PROVE  KeyframeInv'
  BY <1>3, <1>4 DEF Enter, remove_viewer, Requested
<1>5. ASSUME NEW p \in Peers, ReportConnected(p) \/ Reap(p) \/ WriteBegin(p) PROVE KeyframeInv'
  BY <1>3, <1>5 DEF ReportConnected, Reap, WriteBegin, Requested
<1>6. ASSUME NEW v \in Viewers, on_connected(v) PROVE KeyframeInv'
  <2>1. "request" \in todo'["poller"] /\ "poller" \in Threads
    BY <1>2, <1>6 DEF on_connected, Threads
  <2> QED BY <2>1 DEF KeyframeInv, Requested
<1>7. ASSUME StopBegin \/ DrainBegin \/ WriteEnd PROVE KeyframeInv'
  BY <1>3, <1>7 DEF StopBegin, DrainBegin, WriteEnd, Requested
<1>8. ASSUME NEW f \in Frame, enqueue_video(f) PROVE KeyframeInv'
  <2> DEFINE over == {v \in connected : Overflows(v, f)}
             lost == IF f.key THEN {} ELSE over
             takes == connected \ lost
             awaited == keyframe_pending /\ ~f.key
  <2>1. /\ Scheduled("video", takes # {}, lost # {} /\ ~awaited) /\ todo["video"] = {}
        /\ UNCHANGED <<running, connected, drains>>
        /\ asked' = (asked /\ ~f.key)
        /\ keyframe_pending' = (awaited \/ lost # {})
        /\ gap' = IF f.key THEN {} ELSE gap \cup lost
    BY <1>8 DEF enqueue_video, Enqueued
  <2>2. CASE f.key
    <3>1. gap' = {} /\ ~keyframe_pending'
      BY <2>1, <2>2
    <3> QED BY <3>1 DEF KeyframeInv
  <2>3. CASE ~f.key
    <3>1. lost \subseteq connected
      OBVIOUS
    <3>2. asked => asked'
      BY <2>1, <2>3
    <3>3. (awaited => keyframe_pending) /\ (keyframe_pending' => awaited \/ lost # {})
      BY <2>1
    <3>4. gap' = gap \cup lost
      BY <2>1, <2>3
    <3>5. \A s \in Threads : s # "video" => todo'[s] = todo[s]
      BY <1>2, <2>1 DEF Scheduled
    <3>6. Requested => Requested'
      BY <2>1, <3>2, <3>5 DEF Requested
    <3>7. lost # {} /\ ~awaited => Requested'
      <4> SUFFICES ASSUME lost # {}, ~awaited PROVE Requested'
        OBVIOUS
      <4>1. "request" \in todo'["video"] /\ "video" \in Threads
        BY <1>2, <2>1 DEF Scheduled, Threads
      <4> QED BY <4>1 DEF Requested
    <3> HIDE DEF lost, awaited
    <3>8. ASSUME keyframe_pending', connected' # {} PROVE Requested'
      BY <1>1, <2>1, <3>3, <3>6, <3>7, <3>8 DEF KeyframeInv
    <3>9. ASSUME gap' # {} PROVE Requested'
      <4>1. CASE gap # {}
        BY <1>1, <3>6, <4>1 DEF KeyframeInv
      <4>2. CASE lost # {} /\ awaited
        BY <1>1, <3>1, <3>3, <3>6, <4>2 DEF KeyframeInv
      <4>3. CASE lost # {} /\ ~awaited
        BY <3>7, <4>3
      <4> QED BY <3>4, <3>9, <4>1, <4>2, <4>3
    <3> QED BY <3>8, <3>9 DEF KeyframeInv
  <2> QED BY <2>2, <2>3
<1>9. ASSUME NEW f \in Frame, PublishUnheard(f) PROVE KeyframeInv'
  BY <1>2, <1>9 DEF PublishUnheard, KeyframeInv
<1>10. ASSUME NEW t \in {"audio", "detect"}, NEW queued, Scheduled(t, queued, FALSE), todo[t] = {},
              UNCHANGED <<connected, keyframe_pending, gap, asked>>
       PROVE  KeyframeInv'
  <2>1. \A s \in Threads : s # t => todo'[s] = todo[s]
    BY <1>2, <1>10 DEF Scheduled
  <2>2. Requested => Requested'
    BY <1>10, <2>1 DEF Requested
  <2> QED BY <1>3, <1>10, <2>2
<1>11. ASSUME enqueue_audio \/ enqueue_detection PROVE KeyframeInv'
  BY <1>10, <1>11 DEF enqueue_audio, enqueue_detection
<1>12. ASSUME NEW t \in Threads, RequestKeyframe(t) PROVE KeyframeInv'
  BY <1>12 DEF RequestKeyframe, KeyframeInv, Requested
<1>13. ASSUME NEW t \in Threads, schedule_drain(t) PROVE KeyframeInv'
  <2>1. \A s \in Threads : "request" \in todo[s] => "request" \in todo'[s]
    BY <1>2, <1>13 DEF schedule_drain
  <2> QED BY <1>3, <1>13, <2>1 DEF schedule_drain, Requested
<1>14. CASE UNCHANGED vars
  BY <1>3, <1>14 DEF vars, Requested
<1> QED BY <1>4, <1>5, <1>6, <1>7, <1>8, <1>9, <1>11, <1>12, <1>13, <1>14 DEF Next, Capture, Drain


-----------------------------------------------------------------------------
(* Peers.                                                                  *)

(* In what way a step can disturb what the invariant says of the peers,    *)
(* the queues and the batches.                                             *)
LEMMA QuietSteps ==
  ASSUME [Next]_vars
  PROVE  \/ UNCHANGED <<viewers, peer, video_queue, batches, written, sending, published>>
         \/ \E v \in Viewers, p \in Peers : Enter(v, p)
         \/ \E v \in Viewers : remove_viewer(v)
         \/ \E p \in Peers : Reap(p)
         \/ \E f \in Frame : enqueue_video(f)
         \/ \E f \in Frame : PublishUnheard(f)
         \/ DrainBegin
         \/ \E p \in Peers : WriteBegin(p)
         \/ WriteEnd
<1> USE DEF sessionVars, queueVars
<1> DEFINE quiet == UNCHANGED <<viewers, peer, video_queue, batches, written, sending, published>>
<1>1. ASSUME NEW p \in Peers, ReportConnected(p) PROVE quiet
  BY <1>1 DEF ReportConnected
<1>2. ASSUME NEW v \in Viewers, on_connected(v) PROVE quiet
  BY <1>2 DEF on_connected
<1>3. ASSUME StopBegin \/ enqueue_audio \/ enqueue_detection PROVE quiet
  BY <1>3 DEF StopBegin, enqueue_audio, enqueue_detection
<1>4. ASSUME NEW t \in Threads, Capture(t) PROVE quiet
  BY <1>4 DEF Capture, RequestKeyframe, schedule_drain
<1>5. CASE UNCHANGED vars
  BY <1>5 DEF vars
<1> HIDE DEF quiet
<1>6. QED BY <1>1, <1>2, <1>3, <1>4, <1>5 DEF Next, Drain, quiet

LEMMA PeersKept ==
  ASSUME Inv, [Next]_vars
  PROVE  PeersInv'
<1> USE DEF sessionVars, queueVars
<1>1. RestOK /\ PeersInv
  BY DEF Inv
<1>2. /\ viewers \in [Viewers -> Peers \cup {0}] /\ batches \in [Peers -> Seq(Frame)]
      /\ peer \in [Peers -> {"none", "live", "reaping", "freed"}]
      /\ written \in [Peers -> 0..FrameBound] /\ sending \in Peers \cup {0}
  BY <1>1 DEF RestOK
<1>3. 0 \notin Peers
  BY QueuesAssumption DEF Peers
<1>4. \A v \in Sessions : v \in Viewers /\ viewers[v] \in Peers
  BY <1>2 DEF Sessions
<1>5. CASE UNCHANGED <<viewers, peer, video_queue, batches, written, sending, published>>
  BY <1>1, <1>5 DEF PeersInv, Sessions
<1>6. ASSUME NEW v \in Viewers, NEW p \in Peers, Enter(v, p) PROVE PeersInv'
  <2>1. /\ viewers' = [viewers EXCEPT ![v] = p] /\ peer' = [peer EXCEPT ![p] = "live"]
        /\ peer[p] = "none" /\ UNCHANGED <<batches, written, sending>>
    BY <1>6 DEF Enter
  <2>2. ASSUME NEW w \in Sessions', w # v
        PROVE  w \in Sessions /\ viewers'[w] = viewers[w] /\ viewers[w] # p
    BY <1>1, <1>2, <2>1, <2>2 DEF Sessions, PeersInv
  <2>3. viewers'[v] = p /\ peer'[p] = "live" /\ \A q \in Peers : q # p => peer'[q] = peer[q]
    BY <1>2, <2>1
  <2>4. \A w \in Sessions' : peer'[viewers'[w]] = "live"
    BY <1>1, <1>4, <2>2, <2>3 DEF PeersInv
  <2>5. \A w, x \in Sessions' : viewers'[w] = viewers'[x] => w = x
    BY <1>1, <2>2, <2>3 DEF PeersInv
  <2>6. \A q \in Peers : peer'[q] = "none" => peer[q] = "none"
    BY <2>3
  <2> QED BY <1>1, <2>1, <2>4, <2>5, <2>6 DEF PeersInv
<1>7. ASSUME NEW v \in Viewers, remove_viewer(v) PROVE PeersInv'
  <2>1. /\ viewers' = [viewers EXCEPT ![v] = 0] /\ peer' = [peer EXCEPT ![viewers[v]] = "reaping"]
        /\ v \in Sessions /\ UNCHANGED <<batches, written, sending>>
    BY <1>7 DEF remove_viewer
  <2>2. ASSUME NEW w \in Sessions'
        PROVE  w \in Sessions /\ viewers'[w] = viewers[w] /\ viewers[w] # viewers[v]
    <3>1. w # v /\ w \in Sessions /\ viewers'[w] = viewers[w]
      BY <1>2, <2>1, <2>2 DEF Sessions
    <3> QED BY <1>1, <2>1, <3>1 DEF PeersInv
  <2>3. \A q \in Peers : q # viewers[v] => peer'[q] = peer[q]
    BY <1>2, <2>1
  <2>4. \A w \in Sessions' : peer'[viewers'[w]] = "live"
    BY <1>1, <1>4, <2>2, <2>3 DEF PeersInv
  <2>5. \A w, x \in Sessions' : viewers'[w] = viewers'[x] => w = x
    BY <1>1, <2>2 DEF PeersInv
  <2>6. \A q \in Peers : peer'[q] = "none" => peer[q] = "none"
    BY <1>2, <2>1
  <2> QED BY <1>1, <2>1, <2>4, <2>5, <2>6 DEF PeersInv
<1>8. ASSUME NEW p \in Peers, Reap(p) PROVE PeersInv'
  <2>1. /\ peer' = [peer EXCEPT ![p] = "freed"] /\ peer[p] = "reaping"
        /\ UNCHANGED <<viewers, batches, written, sending>>
    BY <1>8 DEF Reap
  <2>2. Sessions' = Sessions
    BY <2>1 DEF Sessions
  <2>3. \A w \in Sessions : viewers[w] # p
    BY <1>1, <2>1 DEF PeersInv
  <2>4. \A w \in Sessions : peer'[viewers[w]] = "live"
    BY <1>1, <1>2, <1>4, <2>1, <2>3 DEF PeersInv
  <2>5. \A q \in Peers : peer'[q] = "none" => peer[q] = "none"
    BY <1>2, <2>1
  <2> QED BY <1>1, <2>1, <2>2, <2>4, <2>5 DEF PeersInv
<1>9. ASSUME NEW f \in Frame, enqueue_video(f) \/ PublishUnheard(f) PROVE PeersInv'
  BY <1>1, <1>9 DEF enqueue_video, Enqueued, PublishUnheard, PeersInv, Sessions
<1>10. ASSUME DrainBegin PROVE PeersInv'
  <2>1. /\ batches' = [p \in Peers |-> Batch(p)] /\ sending = 0
        /\ UNCHANGED <<viewers, peer, written, sending>>
    BY <1>10 DEF DrainBegin, DrainIdle
  <2>2. Sessions' = Sessions
    BY <2>1 DEF Sessions
  <2>3. ASSUME NEW p \in Peers, peer[p] = "none" PROVE batches'[p] = NewQueue
    <3>1. \A v \in Sessions : viewers[v] # p
      BY <1>1, <2>3 DEF PeersInv
    <3>2. Batch(p) = NewQueue
      BY <3>1, BatchIsAQueue
    <3> QED BY <2>1, <3>2
  <2> QED BY <1>1, <2>1, <2>2, <2>3 DEF PeersInv
<1>11. ASSUME NEW p \in Peers, WriteBegin(p) PROVE PeersInv'
  <2>1. sending = 0 /\ batches[p] # NewQueue /\ UNCHANGED <<viewers, peer, written>>
    BY <1>11 DEF WriteBegin
  <2>2. Sessions' = Sessions
    BY <2>1 DEF Sessions
  <2>3. CASE sending' = p /\ UNCHANGED batches
    BY <1>1, <2>1, <2>2, <2>3 DEF PeersInv
  <2>4. CASE sending' = 0 /\ batches' = [batches EXCEPT ![p] = Tail(@)]
    <3>1. peer[p] # "none"
      BY <1>1, <2>1 DEF PeersInv
    <3> QED BY <1>1, <1>2, <2>1, <2>2, <2>4, <3>1 DEF PeersInv
  <2> QED BY <1>11, <2>1, <2>3, <2>4 DEF WriteBegin
<1>12. ASSUME WriteEnd PROVE PeersInv'
  <2>1. /\ sending # 0 /\ sending' = 0 /\ UNCHANGED <<viewers, peer>>
        /\ \A q \in Peers : q # sending => batches'[q] = batches[q] /\ written'[q] = written[q]
    BY <1>2, <1>12 DEF WriteEnd
  <2>2. Sessions' = Sessions
    BY <2>1 DEF Sessions
  <2>3. peer[sending] # "none"
    BY <1>1, <1>2, <2>1 DEF PeersInv
  <2> QED BY <1>1, <2>1, <2>2, <2>3 DEF PeersInv
<1> QED BY <1>5, <1>6, <1>7, <1>8, <1>9, <1>10, <1>11, <1>12, QuietSteps


-----------------------------------------------------------------------------
(* The order of the frames.                                                *)

(* Publishing a frame leaves a queue later than whatever it was later than. *)
LEMMA EnqueueWithin ==
  ASSUME NEW f \in Frame, enqueue_video(f), NEW v \in Viewers,
         video_queue[v] \in Seq(Frame), published \in Nat,
         NEW low \in Nat, low <= published, Within(video_queue[v], low, published)
  PROVE  Within(video_queue[v], low, published)'
<1>1. published' = published + 1 /\ f.no = published'
  BY DEF enqueue_video, Enqueued
<1>2. f.no \in Nat /\ published < f.no /\ published <= published'
  BY <1>1
<1>3. NewQueue \in Seq(Frame) /\ Within(NewQueue, low, published) /\ Within(NewQueue, low, published')
  BY EmptyWithin DEF NewQueue
<1>4. EnqueuedAt(v, f)
  BY EnqueueEffect
<1>5. CASE video_queue'[v] = Append(NewQueue, f)
  <2>1. Within(Append(NewQueue, f), low, f.no)
    BY <1>2, <1>3, AppendWithin
  <2> QED BY <1>1, <1>5, <2>1
<1>6. CASE video_queue'[v] = NewQueue
  BY <1>3, <1>6
<1>7. CASE video_queue'[v] = Append(video_queue[v], f)
  <2>1. Within(Append(video_queue[v], f), low, f.no)
    BY <1>2, AppendWithin
  <2> QED BY <1>1, <1>7, <2>1
<1>8. CASE video_queue'[v] = video_queue[v]
  <2>1. Within(video_queue[v], low, published')
    BY <1>1, <1>2, WithinMore
  <2> QED BY <1>8, <2>1
<1> QED BY <1>4, <1>5, <1>6, <1>7, <1>8 DEF EnqueuedAt

LEMMA EnqueueOrdered ==
  ASSUME NEW f \in Frame, enqueue_video(f), NEW v \in Viewers,
         video_queue[v] \in Seq(Frame), published \in Nat,
         Ordered(video_queue[v]), Within(video_queue[v], 0, published)
  PROVE  Ordered(video_queue[v])'
<1>1. f.no = published + 1 /\ published < f.no
  BY DEF enqueue_video, Enqueued
<1>2. NewQueue \in Seq(Frame) /\ Ordered(NewQueue) /\ Within(NewQueue, 0, published)
  BY EmptyWithin DEF NewQueue
<1>3. EnqueuedAt(v, f)
  BY EnqueueEffect
<1>4. Ordered(Append(NewQueue, f))
  BY <1>1, <1>2, AppendOrdered
<1>5. Ordered(Append(video_queue[v], f))
  BY <1>1, AppendOrdered
<1> QED BY <1>2, <1>3, <1>4, <1>5 DEF EnqueuedAt

LEMMA FramesKept ==
  ASSUME Inv, [Next]_vars
  PROVE  FramesInv'
<1> USE DEF sessionVars, queueVars
<1>1. RestOK /\ QueuesInv /\ DrainInv /\ PeersInv /\ FramesInv
  BY DEF Inv
<1>2. /\ viewers \in [Viewers -> Peers \cup {0}] /\ batches \in [Peers -> Seq(Frame)]
      /\ written \in [Peers -> 0..FrameBound] /\ sending \in Peers \cup {0}
      /\ video_queue \in [Viewers -> Seq(Frame)] /\ connected \subseteq Sessions
  BY <1>1 DEF RestOK, QueuesInv
<1>3. published \in Nat /\ \A p \in Peers : written[p] \in Nat
  BY <1>1, <1>2, QueuesAssumption DEF RestOK
<1>4. \A v \in Sessions : v \in Viewers /\ viewers[v] \in Peers
  BY <1>2 DEF Sessions
<1>5. Ordered(NewQueue) /\ (\A low, high : Within(NewQueue, low, high)) /\ Len(NewQueue) = 0
  BY EmptyWithin DEF NewQueue
<1>6. ASSUME NEW v \in Viewers, v \notin Sessions PROVE video_queue[v] = NewQueue
  BY <1>1, <1>2, <1>6 DEF DrainInv, Waits
<1>7. CASE UNCHANGED <<viewers, peer, video_queue, batches, written, sending, published>>
  BY <1>1, <1>7 DEF FramesInv, Sessions
<1>8. ASSUME NEW v \in Viewers, NEW p \in Peers, Enter(v, p) PROVE FramesInv'
  <2>1. /\ viewers' = [viewers EXCEPT ![v] = p] /\ viewers[v] = 0 /\ peer[p] = "none"
        /\ UNCHANGED <<video_queue, batches, written, published>>
    BY <1>8 DEF Enter
  <2>2. v \notin Sessions
    BY <2>1 DEF Sessions
  <2>3. video_queue[v] = NewQueue
    BY <1>6, <2>2
  <2>4. ASSUME NEW w \in Sessions', w # v PROVE w \in Sessions /\ viewers'[w] = viewers[w]
    BY <1>2, <2>1, <2>4 DEF Sessions
  <2>5. \A w \in Sessions' : Within(video_queue[w], written[viewers'[w]], published)
    BY <1>1, <1>5, <2>3, <2>4 DEF FramesInv
  <2>6. \A w \in Sessions' : \A i \in 1..Len(batches[viewers'[w]]) :
           Within(video_queue[w], batches[viewers'[w]][i].no, published)
    BY <1>1, <1>5, <2>3, <2>4 DEF FramesInv
  <2> QED BY <1>1, <2>1, <2>5, <2>6 DEF FramesInv
<1>9. ASSUME NEW v \in Viewers, remove_viewer(v) PROVE FramesInv'
  <2>1. /\ viewers' = [viewers EXCEPT ![v] = 0] /\ video_queue' = [video_queue EXCEPT ![v] = NewQueue]
        /\ UNCHANGED <<batches, written, published>>
    BY <1>9 DEF remove_viewer
  <2>2. ASSUME NEW w \in Sessions'
        PROVE  w \in Sessions /\ viewers'[w] = viewers[w] /\ video_queue'[w] = video_queue[w]
    BY <1>2, <2>1, <2>2 DEF Sessions
  <2>3. \A w \in Viewers : video_queue'[w] = video_queue[w] \/ video_queue'[w] = NewQueue
    BY <1>2, <2>1
  <2>4. \A w \in Viewers : Ordered(video_queue'[w]) /\ Within(video_queue'[w], 0, published)
    BY <1>1, <1>5, <2>3 DEF FramesInv
  <2>5. \A w \in Sessions' : Within(video_queue'[w], written[viewers'[w]], published)
    BY <1>1, <2>2 DEF FramesInv
  <2>6. \A w \in Sessions' : \A i \in 1..Len(batches[viewers'[w]]) :
           Within(video_queue'[w], batches[viewers'[w]][i].no, published)
    BY <1>1, <2>2 DEF FramesInv
  <2> QED BY <1>1, <2>1, <2>4, <2>5, <2>6 DEF FramesInv
<1>10. ASSUME NEW p \in Peers, Reap(p) PROVE FramesInv'
  <2>1. UNCHANGED <<viewers, video_queue, batches, written, published>>
    BY <1>10 DEF Reap
  <2> QED BY <1>1, <2>1 DEF FramesInv, Sessions
<1>11. ASSUME NEW f \in Frame, enqueue_video(f) PROVE FramesInv'
  <2>1. UNCHANGED <<viewers, batches, written>> /\ published' = published + 1
    BY <1>11 DEF enqueue_video, Enqueued
  <2>2. Sessions' = Sessions /\ published' \in Nat /\ published <= published'
    BY <1>3, <2>1 DEF Sessions
  <2>3. \A p \in Peers : written[p] <= published'
    BY <1>1, <1>3, <2>2 DEF FramesInv
  <2>4. ASSUME NEW p \in Peers PROVE Ordered(batches[p]) /\ Within(batches[p], written[p], published')
    BY <1>1, <1>2, <1>3, <2>2, WithinMore DEF FramesInv
  <2>5. ASSUME NEW v \in Viewers
        PROVE  Ordered(video_queue'[v]) /\ Within(video_queue'[v], 0, published')
    <3>1. /\ video_queue[v] \in Seq(Frame) /\ Ordered(video_queue[v])
          /\ Within(video_queue[v], 0, published) /\ 0 <= published
      BY <1>1, <1>2, <1>3 DEF FramesInv
    <3> QED BY <1>3, <1>11, <3>1, EnqueueWithin, EnqueueOrdered
  <2>6. ASSUME NEW v \in Sessions PROVE Within(video_queue'[v], written[viewers[v]], published')
    <3> DEFINE low == written[viewers[v]]
    <3>1. low \in Nat /\ low <= published /\ Within(video_queue[v], low, published)
      BY <1>1, <1>3, <1>4 DEF FramesInv
    <3>2. v \in Viewers /\ video_queue[v] \in Seq(Frame)
      BY <1>2, <1>4
    <3> HIDE DEF low
    <3>3. Within(video_queue'[v], low, published')
      BY <1>3, <1>11, <3>1, <3>2, EnqueueWithin
    <3> QED BY <3>3 DEF low
  <2>7. ASSUME NEW v \in Sessions, NEW i \in 1..Len(batches[viewers[v]])
        PROVE  Within(video_queue'[v], batches[viewers[v]][i].no, published')
    <3> DEFINE low == batches[viewers[v]][i].no
    <3>1. batches[viewers[v]][i] \in Frame
      BY <1>2, <1>4
    <3>2. low \in Nat /\ low <= published /\ Within(video_queue[v], low, published)
      BY <1>1, <1>4, <3>1, SizesAreNat DEF FramesInv, Within
    <3>3. v \in Viewers /\ video_queue[v] \in Seq(Frame)
      BY <1>2, <1>4
    <3> HIDE DEF low
    <3>4. Within(video_queue'[v], low, published')
      BY <1>3, <1>11, <3>2, <3>3, EnqueueWithin
    <3> QED BY <3>4 DEF low
  <2> QED BY <2>1, <2>2, <2>3, <2>4, <2>5, <2>6, <2>7 DEF FramesInv
<1>12. ASSUME NEW f \in Frame, PublishUnheard(f) PROVE FramesInv'
  <2>1. /\ UNCHANGED <<viewers, video_queue, batches, written>> /\ published' = published + 1
        /\ Sessions = {}
    BY <1>12 DEF PublishUnheard
  <2>2. Sessions' = {} /\ published' \in Nat /\ published <= published'
    BY <1>3, <2>1 DEF Sessions
  <2>3. \A p \in Peers : written[p] <= published'
    BY <1>1, <1>3, <2>2 DEF FramesInv
  <2>4. ASSUME NEW p \in Peers PROVE Ordered(batches[p]) /\ Within(batches[p], written[p], published')
    BY <1>1, <1>2, <1>3, <2>2, WithinMore DEF FramesInv
  <2>5. ASSUME NEW v \in Viewers
        PROVE  Ordered(video_queue[v]) /\ Within(video_queue[v], 0, published')
    BY <1>1, <1>2, <1>3, <2>2, WithinMore DEF FramesInv
  <2> QED BY <2>1, <2>2, <2>3, <2>4, <2>5 DEF FramesInv
<1>13. ASSUME DrainBegin PROVE FramesInv'
  <2>1. /\ batches' = [p \in Peers |-> Batch(p)] /\ video_queue' = [v \in Viewers |-> NewQueue]
        /\ UNCHANGED <<viewers, written, published>>
    BY <1>13 DEF DrainBegin
  <2>2. ASSUME NEW p \in Peers PROVE Ordered(Batch(p)) /\ Within(Batch(p), written[p], published)
    <3>1. CASE Batch(p) = NewQueue
      BY <1>5, <3>1
    <3>2. ASSUME NEW v \in Sessions, viewers[v] = p, Batch(p) = video_queue[v]
          PROVE  Ordered(Batch(p)) /\ Within(Batch(p), written[p], published)
      BY <1>1, <1>4, <3>2 DEF FramesInv
    <3> QED BY <3>1, <3>2, BatchIsAQueue
  <2>3. Sessions' = Sessions /\ \A v \in Sessions : v \in Viewers
    BY <1>4, <2>1 DEF Sessions
  <2> HIDE DEF NewQueue
  <2> QED BY <1>1, <1>5, <2>1, <2>2, <2>3 DEF FramesInv
<1>14. ASSUME NEW p \in Peers, batches[p] # NewQueue, batches' = [batches EXCEPT ![p] = Tail(@)],
              UNCHANGED <<viewers, video_queue, published>>,
              \A q \in Peers : q # p => written'[q] = written[q],
              written'[p] = written[p] \/ written'[p] = Head(batches[p]).no
       PROVE  FramesInv'
  <2> DEFINE q == batches[p]
  <2>1. q \in Seq(Frame) /\ q # <<>> /\ Ordered(q) /\ Within(q, written[p], published)
    BY <1>1, <1>2, <1>14 DEF FramesInv, NewQueue
  <2>2. /\ Head(q) = q[1] /\ written[p] < Head(q).no /\ Head(q).no <= published
        /\ Ordered(Tail(q)) /\ Within(Tail(q), Head(q).no, published)
        /\ Within(Tail(q), written[p], published)
        /\ \A i \in 1..Len(Tail(q)) : \E j \in 1..Len(q) : Tail(q)[i] = q[j]
    BY <2>1, TailOrdered
  <2>3. batches'[p] = Tail(q) /\ \A r \in Peers : r # p => batches'[r] = batches[r]
    BY <1>2, <1>14
  <2>4. 1 \in 1..Len(q)
    BY <2>1
  <2> HIDE DEF q
  <2>5. Sessions' = Sessions
    BY <1>14 DEF Sessions
  <2>6. \A r \in Peers : written'[r] <= published
    BY <1>1, <1>14, <2>2 DEF FramesInv, q
  <2>7. \A r \in Peers : Ordered(batches'[r]) /\ Within(batches'[r], written'[r], published)
    BY <1>1, <1>14, <2>2, <2>3 DEF FramesInv, q
  <2>8. ASSUME NEW v \in Sessions PROVE Within(video_queue[v], written'[viewers[v]], published)
    <3>1. CASE viewers[v] = p
      <4>1. Within(video_queue[v], q[1].no, published) /\ Within(video_queue[v], written[p], published)
        BY <1>1, <2>4, <3>1 DEF FramesInv, q
      <4> QED BY <1>14, <2>2, <3>1, <4>1 DEF q
    <3>2. CASE viewers[v] # p
      BY <1>1, <1>4, <1>14, <3>2 DEF FramesInv
    <3> QED BY <3>1, <3>2
  <2>9. ASSUME NEW v \in Sessions, NEW i \in 1..Len(batches'[viewers[v]])
        PROVE  Within(video_queue[v], batches'[viewers[v]][i].no, published)
    <3>1. CASE viewers[v] = p
      <4>1. PICK j \in 1..Len(q) : batches'[p][i] = q[j]
        BY <2>2, <2>3, <3>1
      <4> QED BY <1>1, <3>1, <4>1 DEF FramesInv, q
    <3>2. CASE viewers[v] # p
      BY <1>1, <1>4, <2>3, <3>2 DEF FramesInv
    <3> QED BY <3>1, <3>2
  <2> QED BY <1>1, <1>14, <2>5, <2>6, <2>7, <2>8, <2>9 DEF FramesInv
<1>15. ASSUME NEW p \in Peers, WriteBegin(p) PROVE FramesInv'
  <2>1. batches[p] # NewQueue /\ UNCHANGED <<viewers, video_queue, written, published>>
    BY <1>15 DEF WriteBegin
  <2>2. CASE batches' = batches
    BY <1>1, <2>1, <2>2 DEF FramesInv, Sessions
  <2>3. CASE batches' = [batches EXCEPT ![p] = Tail(@)]
    BY <1>14, <2>1, <2>3
  <2> QED BY <1>15, <2>2, <2>3 DEF WriteBegin
<1>16. ASSUME WriteEnd PROVE FramesInv'
  <2>1. sending \in Peers /\ batches[sending] # NewQueue
    BY <1>1, <1>2, <1>16 DEF WriteEnd, PeersInv
  <2>2. /\ batches' = [batches EXCEPT ![sending] = Tail(@)]
        /\ written' = [written EXCEPT ![sending] = Head(batches[sending]).no]
        /\ UNCHANGED <<viewers, video_queue, published>>
    BY <1>16 DEF WriteEnd
  <2>3. /\ written'[sending] = Head(batches[sending]).no
        /\ \A q \in Peers : q # sending => written'[q] = written[q]
    BY <1>2, <2>1, <2>2
  <2> QED BY <1>14, <2>1, <2>2, <2>3
<1> QED BY <1>7, <1>8, <1>9, <1>10, <1>11, <1>12, <1>13, <1>15, <1>16, QuietSteps


-----------------------------------------------------------------------------
(* The theorems.                                                           *)

LEMMA QueuesInvariant == Spec => []Inv
<1>1. Inv /\ [Next]_vars => Inv'
  BY RestKept, QueuesKept, DrainKept, KeyframeKept, PeersKept, FramesKept DEF Inv
<1> QED BY <1>1, InitInv, PTL DEF Spec

(* For any number of viewers and any limits, video_bytes is what the frames *)
(* queued for a viewer add up to, in whatever order enqueue_video cleared   *)
(* and filled and drain emptied the queue, and a queue is within its limits *)
(* except for a single key frame that is larger than the limit itself.      *)
THEOREM QueuesAreTyped == Spec => []TypeOK
BY QueuesInvariant, TypesFollow, PTL

(* Whatever is queued while the plugin runs is on its way: a drain is       *)
(* posted or a capture thread is about to post one, although drain_scheduled *)
(* is tested and set under the mutex, the drain is posted after it was      *)
(* given up, and remove_viewer clears the flag under a posted drain.        *)
THEOREM WhatIsQueuedIsSent == Spec => []QueuedIsScheduled
<1>1. Inv => QueuedIsScheduled
  BY DEF Inv, DrainInv, QueuedIsScheduled, Waits, Posted
<1> QED BY <1>1, QueuesInvariant, PTL

(* A viewer whose frame was dropped has a key frame coming: one request     *)
(* serves all viewers, and keyframe_pending never suppresses the only one.  *)
THEOREM LossIsRepaired == Spec => []GapAwaitsKeyframe
<1>1. Inv => GapAwaitsKeyframe
  BY DEF Inv, KeyframeInv, GapAwaitsKeyframe, Requested
<1> QED BY <1>1, QueuesInvariant, PTL

(* Every writeFrame that completes gives its peer a later frame than the    *)
(* one before, over any number of drains and over sessions that come and go.*)
THEOREM FramesLeaveInOrder == Spec => WrittenInOrder
<1>1. ASSUME Inv, [Next]_vars
      PROVE  [sending # 0 /\ sending' = 0 => written'[sending] > written[sending]]_vars
  <2> SUFFICES ASSUME sending # 0, sending' = 0 PROVE written'[sending] > written[sending]
    OBVIOUS
  <2> USE DEF sessionVars, queueVars
  <2>1. WriteEnd
    <3>1. sending' # sending
      OBVIOUS
    <3>2. ~\E v \in Viewers : remove_viewer(v) \/ \E p \in Peers : Enter(v, p)
      BY <3>1 DEF Enter, remove_viewer
    <3>3. ~\E p \in Peers : Reap(p)
      BY <3>1 DEF Reap
    <3>4. ~\E f \in Frame : enqueue_video(f) \/ PublishUnheard(f)
      BY <3>1 DEF enqueue_video, Enqueued, PublishUnheard
    <3>5. ~DrainBegin
      BY <3>1 DEF DrainBegin
    <3>6. ~\E p \in Peers : WriteBegin(p)
      BY DEF WriteBegin
    <3> QED BY <1>1, <3>1, <3>2, <3>3, <3>4, <3>5, <3>6, QuietSteps
  <2>2. /\ sending \in Peers /\ written \in [Peers -> 0..FrameBound]
        /\ batches[sending] \in Seq(Frame) /\ batches[sending] # <<>>
        /\ Ordered(batches[sending]) /\ Within(batches[sending], written[sending], published)
    BY <1>1 DEF Inv, RestOK, PeersInv, FramesInv, NewQueue
  <2>3. written'[sending] = Head(batches[sending]).no
    BY <2>1, <2>2 DEF WriteEnd
  <2>4. written[sending] < Head(batches[sending]).no /\ Head(batches[sending]) \in Frame
    BY <2>2, TailOrdered
  <2>5. written[sending] \in Nat /\ Head(batches[sending]).no \in Nat
    BY <2>2, <2>4, SizesAreNat, QueuesAssumption
  <2> QED BY <2>3, <2>4, <2>5
<1> QED BY <1>1, QueuesInvariant, PTL DEF Spec, WrittenInOrder
=============================================================================
