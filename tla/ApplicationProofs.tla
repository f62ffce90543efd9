-------------------------- MODULE ApplicationProofs --------------------------
(***************************************************************************)
(* The recorder's shutdown, for every length of its queues, every number   *)
(* of frames, requests and signals: what the stop waits for, how long the  *)
(* uploader may keep it waiting, and what is left when the process ends.   *)
(***************************************************************************)
EXTENDS Application, TLAPS

Elems(q) == {q[i] : i \in 1..Len(q)}

-----------------------------------------------------------------------------
(* SegmentRecorder::stop, and a start that fails, set the flags and join   *)
(* the threads in this order, and nothing clears a flag.                   *)
StopOrder ==
    /\ main = "starting" => writer = "exited"
    /\ framesStopping <=> main \notin {"starting", "running", "unsubscribed"}
    /\ uploadsStopping <=> main \in {"uploader flagged", "joining uploader", "stopped"}
    /\ main \in {"closing", "closed", "uploader flagged", "joining uploader", "stopped"}
          => writer = "exited"
    /\ main = "stopped" => uploader = "exited"

(* An accepted frame is written or queued, and the writer leaves only when *)
(* all are written.  A frame queued after the flag was set is not          *)
(* accepted, and without a writer there are no frames.                     *)
FramesAccounted ==
    /\ accepted \subseteq written \cup Elems(frames)
    /\ writer \in {"leaving", "exited"} => accepted \subseteq written
    /\ writer = "leaving" => framesStopping
    /\ writer = "exited" => framesStopping \/ (~subscribed /\ capture = "idle")
    /\ capture # "idle" => published > 0

(* A request is taken, dropped or queued; the writer asks for no more than *)
(* it owes, and the uploader leaves only when its queue is empty.          *)
UploadsAccounted ==
    /\ 1..requested = tried \cup dropped \cup Elems(uploads)
    /\ owed <= RequestBound - requested
    /\ writer \notin {"busy", "leaving"} => owed = 0
    /\ uploader \in {"leaving", "exited"} => uploadsStopping /\ uploads = <<>>

(* The request in hand will be tried, or tried once more. *)
AttemptDue == IF uploader = "busy" /\ ~trying THEN 1 ELSE 0

(* Every queued request stands for one attempt after the flag, and so does *)
(* the one in hand unless its attempt is under way.                        *)
AttemptsBounded ==
    /\ attempt <= retries
    /\ attempt = 0 => ~trying
    /\ uploader = "busy" /\ attempt > 0 /\ ~trying => attempt < retries
    /\ ~uploadsStopping => lateTries = 0
    /\ uploadsStopping => lateTries + Len(uploads) + AttemptDue <= MaxQueued + 1

RecordInv ==
    RecordTypeOK /\ StopOrder /\ FramesAccounted /\ UploadsAccounted /\ AttemptsBounded

-----------------------------------------------------------------------------
(* The recorder exists from its start until stop has returned, and the     *)
(* device is stopped after it.                                             *)
RecorderLife ==
    /\ phase \in {"start device", "start webrtc"} => recorder = "none"
    /\ recorder = "none" =>
          /\ main = "starting" /\ capture = "idle" /\ accepted = {}
          /\ requested = 0 /\ tried = {} /\ dropped = {}
    /\ recorder = "freed" => main = "stopped"
    /\ phase \in {"stop device", "stop network"} => recorder # "on"
    /\ phase = "stop network" => ~device /\ capture = "idle"

ProcessLife ==
    /\ handlers <= signals
    /\ exitCode = Running <=> phase # "exited"

AppInv == RecordInv /\ AppTypeOK /\ RecorderLife /\ ProcessLife /\ NothingLeftAtExit
-----------------------------------------------------------------------------
(* What appending to a queue and taking from it do to its elements. *)
LEMMA AppendElems ==
  ASSUME NEW S, NEW q \in Seq(S), NEW x \in S
  PROVE  /\ Append(q, x) \in Seq(S) /\ Len(Append(q, x)) = Len(q) + 1
         /\ Elems(Append(q, x)) = Elems(q) \cup {x}
<1>1. /\ Append(q, x) \in Seq(S) /\ Len(Append(q, x)) = Len(q) + 1
      /\ Len(q) \in Nat
      /\ \A i \in 1..Len(q) : Append(q, x)[i] = q[i]
      /\ Append(q, x)[Len(q) + 1] = x
  OBVIOUS
<1>2. 1..(Len(q) + 1) = 1..Len(q) \cup {Len(q) + 1}
  BY <1>1
<1> QED BY <1>1, <1>2 DEF Elems

LEMMA TailElems ==
  ASSUME NEW S, NEW q \in Seq(S), q # <<>>
  PROVE  /\ Head(q) \in S /\ Tail(q) \in Seq(S) /\ Len(Tail(q)) = Len(q) - 1
         /\ Elems(q) = {Head(q)} \cup Elems(Tail(q))
<1>1. /\ Tail(q) \in Seq(S) /\ Len(Tail(q)) = Len(q) - 1
      /\ Len(q) \in Nat /\ Len(q) > 0
      /\ \A i \in 1..(Len(q) - 1) : Tail(q)[i] = q[i + 1]
      /\ Head(q) = q[1] /\ Head(q) \in S
  OBVIOUS
<1>2. \A i \in 1..Len(q) : i = 1 \/ i - 1 \in 1..(Len(q) - 1)
  BY <1>1
<1>3. \A e \in Elems(q) : e = Head(q) \/ e \in Elems(Tail(q))
  <2> SUFFICES ASSUME NEW i \in 1..Len(q), i # 1 PROVE q[i] \in Elems(Tail(q))
    BY <1>1 DEF Elems
  <2>1. i - 1 \in 1..(Len(q) - 1) /\ (i - 1) + 1 = i
    BY <1>2
  <2> QED BY <1>1, <2>1 DEF Elems
<1>4. \A i \in 1..(Len(q) - 1) : i + 1 \in 1..Len(q)
  BY <1>1
<1>5. \A e \in Elems(Tail(q)) : e \in Elems(q)
  BY <1>1, <1>4 DEF Elems
<1>6. Head(q) \in Elems(q)
  BY <1>1 DEF Elems
<1> QED BY <1>1, <1>3, <1>5, <1>6

LEMMA EmptyElems == Elems(<<>>) = {}
  BY DEF Elems

LEMMA RecordInitInv == Init => RecordInv
<1> SUFFICES ASSUME Init PROVE RecordInv
  OBVIOUS
<1>1. RecordTypeOK
  <2>1. /\ framesStopping \in BOOLEAN /\ uploadsStopping \in BOOLEAN
        /\ subscribed \in BOOLEAN /\ trying \in BOOLEAN
    BY DEF Init
  <2>2. frames \in Seq(1..FrameBound) /\ uploads \in Seq(1..RequestBound)
    BY DEF Init
  <2>3. Len(frames) <= MaxPendingFrames /\ Len(uploads) <= MaxQueued
    BY RecordAssumption DEF Init
  <2>4. /\ owed \in 0..RequestBound /\ attempt \in 0..MaxRetries /\ retries \in 0..MaxRetries
        /\ published \in 0..FrameBound /\ requested \in 0..RequestBound /\ lateTries \in Nat
    BY RecordAssumption DEF Init
  <2>5. /\ accepted \subseteq 1..FrameBound /\ written \subseteq 1..FrameBound
        /\ dropped \subseteq 1..RequestBound /\ tried \subseteq 1..RequestBound
    BY DEF Init
  <2>6. /\ writer \in F!Places /\ uploader \in U!Places /\ capture = "idle" /\ main = "starting"
    BY DEF Init, F!Places, U!Places
  <2> QED BY <2>1, <2>2, <2>3, <2>4, <2>5, <2>6 DEF RecordTypeOK
<1>2. StopOrder /\ FramesAccounted
  BY DEF Init, StopOrder, FramesAccounted
<1>3. UploadsAccounted
  BY EmptyElems, RecordAssumption DEF Init, UploadsAccounted
<1>4. AttemptsBounded
  BY DEF Init, AttemptsBounded
<1> QED BY <1>1, <1>2, <1>3, <1>4 DEF RecordInv

-----------------------------------------------------------------------------
(* The capture thread. *)
LEMMA CaptureStepInv ==
  ASSUME RecordInv, CaptureStep
  PROVE  RecordInv'
<1> USE DEF RecordInv
<1>1. CASE CaptureCalls
  <2> USE <1>1 DEF CaptureCalls, frameVars, uploadVars, workVars
  <2>0. published' \in 0..FrameBound /\ published' > 0
    <3>1. published \in 0..FrameBound /\ FrameBound \in Nat
      BY RecordAssumption DEF RecordTypeOK
    <3> QED BY <3>1
  <2>1. RecordTypeOK'
    BY <2>0 DEF RecordTypeOK
  <2>2. StopOrder' /\ UploadsAccounted' /\ AttemptsBounded'
    BY DEF StopOrder, UploadsAccounted, AttemptsBounded, AttemptDue
  <2>3. FramesAccounted'
    BY <2>0 DEF FramesAccounted
  <2> QED BY <2>1, <2>2, <2>3
<1>2. CASE OnFrameEnters
  <2> USE <1>2 DEF OnFrameEnters, frameVars, uploadVars, workVars, histVars
  <2>1. RecordTypeOK'
    BY DEF RecordTypeOK
  <2>2. StopOrder' /\ UploadsAccounted' /\ AttemptsBounded'
    BY DEF StopOrder, UploadsAccounted, AttemptsBounded, AttemptDue
  <2>3. FramesAccounted'
    BY DEF FramesAccounted
  <2> QED BY <2>1, <2>2, <2>3
<1>3. CASE OnFramePushes
  <2> USE <1>3 DEF OnFramePushes, uploadVars, workVars
  <2>1. published \in 1..FrameBound /\ frames \in Seq(1..FrameBound)
    <3>1. published \in 0..FrameBound /\ FrameBound \in Nat /\ frames \in Seq(1..FrameBound)
      BY RecordAssumption DEF RecordTypeOK
    <3>2. published > 0
      BY DEF FramesAccounted
    <3> QED BY <3>1, <3>2
  <2>2. /\ framesStopping' = framesStopping
        /\ writer' = writer \/ (writer = "asleep" /\ writer' = "ready")
    BY DEF F!Push, F!Notified
  <2>3. /\ frames' \in Seq(1..FrameBound) /\ Len(frames') <= MaxPendingFrames
        /\ F!Full => Elems(frames') = Elems(frames)
        /\ ~F!Full => Elems(frames') = Elems(frames) \cup {published}
    <3>1. CASE F!Full
      <4>1. frames' = frames
        BY <3>1 DEF F!Push
      <4> QED BY <2>1, <3>1, <4>1 DEF RecordTypeOK
    <3>2. CASE ~F!Full
      <4>1. frames' = Append(frames, published)
        BY <3>2 DEF F!Push
      <4>2. Len(frames) < MaxPendingFrames /\ Len(frames) \in Nat /\ MaxPendingFrames \in Nat
        BY <2>1, <3>2, RecordAssumption DEF F!Full
      <4>3. /\ frames' \in Seq(1..FrameBound) /\ Len(frames') = Len(frames) + 1
            /\ Elems(frames') = Elems(frames) \cup {published}
        <5>1. frames' \in Seq(1..FrameBound) /\ Len(frames') = Len(frames) + 1
          BY <2>1, <4>1
        <5>2. Elems(Append(frames, published)) = Elems(frames) \cup {published}
          <6>1. PICK T : T = 1..FrameBound
            OBVIOUS
          <6>2. frames \in Seq(T) /\ published \in T
            BY <2>1, <6>1
          <6> QED BY ONLY <6>2, AppendElems
        <5> QED BY <4>1, <5>1, <5>2
      <4>4. Len(frames') <= MaxPendingFrames
        BY <4>2, <4>3
      <4> QED BY <3>2, <4>3, <4>4
    <3> QED BY <3>1, <3>2
  <2>4. accepted' \subseteq 1..FrameBound
    BY <2>1 DEF RecordTypeOK
  <2>5. RecordTypeOK'
    BY <2>2, <2>3, <2>4 DEF RecordTypeOK, F!Places
  <2>6. StopOrder'
    BY <2>2 DEF StopOrder
  <2>7. UploadsAccounted' /\ AttemptsBounded'
    BY <2>2 DEF UploadsAccounted, AttemptsBounded, AttemptDue
  <2>8. FramesAccounted'
    BY <2>2, <2>3 DEF FramesAccounted
  <2> QED BY <2>5, <2>6, <2>7, <2>8
<1> QED BY <1>1, <1>2, <1>3 DEF CaptureStep

(* The writer. *)
LEMMA WriterTakesInv ==
  ASSUME RecordInv, WriterTakes
  PROVE  RecordInv'
<1> USE DEF RecordInv, WriterTakes, uploadVars
<1>1. writer = "ready" /\ framesStopping' = framesStopping
  BY DEF F!WaitReturns
<1>2. main \notin {"closing", "closed", "uploader flagged", "joining uploader", "stopped"}
  BY <1>1 DEF StopOrder
<1>3. owed' \in 0..RequestBound /\ owed' <= RequestBound - requested
  <2>1. requested \in 0..RequestBound /\ RequestBound \in Nat
    BY RecordAssumption DEF RecordTypeOK
  <2> QED BY <2>1
<1>4. CASE frames = <<>>
  <2>1. writer' = "leaving" /\ frames' = frames /\ framesStopping /\ written' = written
    BY <1>4 DEF F!WaitReturns
  <2>2. accepted \subseteq written
    BY <1>4, EmptyElems DEF FramesAccounted
  <2>3. RecordTypeOK'
    BY <1>1, <1>3, <2>1 DEF RecordTypeOK, F!Places
  <2>4. StopOrder' /\ FramesAccounted'
    BY <1>1, <1>2, <2>1, <2>2 DEF StopOrder, FramesAccounted
  <2>5. UploadsAccounted' /\ AttemptsBounded'
    BY <1>3, <2>1 DEF UploadsAccounted, AttemptsBounded, AttemptDue
  <2> QED BY <2>3, <2>4, <2>5
<1>5. CASE frames # <<>>
  <2>1. writer' = "busy" /\ frames' = Tail(frames) /\ written' = written \cup {Head(frames)}
    BY <1>5 DEF F!WaitReturns
  <2>2. /\ Head(frames) \in 1..FrameBound /\ frames' \in Seq(1..FrameBound)
        /\ Len(frames') <= MaxPendingFrames
        /\ Elems(frames) = {Head(frames)} \cup Elems(frames')
    <3>1. /\ frames \in Seq(1..FrameBound) /\ Len(frames) <= MaxPendingFrames
          /\ MaxPendingFrames \in Nat
      BY RecordAssumption DEF RecordTypeOK
    <3>2. /\ Head(frames) \in 1..FrameBound /\ frames' \in Seq(1..FrameBound)
          /\ Len(frames') = Len(frames) - 1
          /\ Elems(frames) = {Head(frames)} \cup Elems(frames')
      BY <1>5, <2>1, <3>1, TailElems
    <3>3. Len(frames') <= MaxPendingFrames
      <4>1. Len(frames) \in Nat
        BY <3>1
      <4> QED BY <3>1, <3>2, <4>1
    <3> QED BY <3>2, <3>3
  <2>3. RecordTypeOK'
    BY <1>1, <1>3, <2>1, <2>2 DEF RecordTypeOK, F!Places
  <2>4. StopOrder' /\ FramesAccounted'
    BY <1>1, <1>2, <2>1, <2>2 DEF StopOrder, FramesAccounted
  <2>5. UploadsAccounted' /\ AttemptsBounded'
    BY <1>3, <2>1 DEF UploadsAccounted, AttemptsBounded, AttemptDue
  <2> QED BY <2>3, <2>4, <2>5
<1> QED BY <1>4, <1>5

(* A request made before the uploader is told to stop is queued or         *)
(* dropped.                                                                *)
LEMMA RequestEffect ==
  ASSUME RecordInv, Request, ~uploadsStopping, requested < RequestBound
  PROVE  /\ requested' = requested + 1 /\ requested' \in 0..RequestBound
         /\ uploads' \in Seq(1..RequestBound) /\ Len(uploads') <= MaxQueued
         /\ uploadsStopping' = uploadsStopping
         /\ uploader' = uploader \/ (uploader = "asleep" /\ uploader' = "ready")
         /\ dropped' \subseteq 1..RequestBound
         /\ dropped \cup Elems(uploads) \cup {requested + 1} = dropped' \cup Elems(uploads')
<1> USE DEF RecordInv
<1>1. /\ requested \in 0..RequestBound /\ RequestBound \in Nat /\ uploads \in Seq(1..RequestBound)
      /\ dropped \subseteq 1..RequestBound /\ Len(uploads) <= MaxQueued /\ MaxQueued \in Nat
  BY RecordAssumption DEF RecordTypeOK
<1>2. requested' = requested + 1
  BY DEF Request
<1>3. requested + 1 \in 1..RequestBound /\ requested' \in 0..RequestBound
  BY <1>1, <1>2
<1>4. U!Push(requested + 1) /\ dropped' = IF U!Full THEN dropped \cup {requested + 1} ELSE dropped
  BY DEF Request
<1>5. /\ uploadsStopping' = uploadsStopping
      /\ uploader' = uploader \/ (uploader = "asleep" /\ uploader' = "ready")
  BY <1>4 DEF U!Push, U!Notified
<1>6. PICK T, n : T = 1..RequestBound /\ n = requested + 1
  OBVIOUS
<1>7. dropped' \subseteq T /\ n \in T /\ uploads \in Seq(T)
  BY <1>1, <1>3, <1>4, <1>6
<1>8. CASE U!Full
  <2>1. uploads' = uploads /\ dropped' = dropped \cup {n}
    BY <1>4, <1>6, <1>8 DEF U!Push
  <2>2. dropped \cup Elems(uploads) \cup {n} = dropped' \cup Elems(uploads')
    BY <2>1
  <2> QED BY <1>1, <1>2, <1>3, <1>5, <1>6, <1>7, <2>1, <2>2
<1>9. CASE ~U!Full
  <2>1. uploads' = Append(uploads, n) /\ dropped' = dropped
    BY <1>4, <1>6, <1>9 DEF U!Push
  <2>2. Len(uploads) < MaxQueued /\ Len(uploads) \in Nat
    BY <1>1, <1>9 DEF U!Full
  <2>3. /\ uploads' \in Seq(T) /\ Len(uploads') = Len(uploads) + 1
        /\ Elems(uploads') = Elems(uploads) \cup {n}
    BY ONLY <1>7, <2>1, AppendElems
  <2>4. Len(uploads') <= MaxQueued
    BY <1>1, <2>2, <2>3
  <2>5. dropped \cup Elems(uploads) \cup {n} = dropped' \cup Elems(uploads')
    BY <2>1, <2>3
  <2> QED BY <1>2, <1>3, <1>5, <1>6, <1>7, <2>3, <2>4, <2>5
<1> QED BY <1>8, <1>9

LEMMA WriterStepInv ==
  ASSUME RecordInv, WriterStep
  PROVE  RecordInv'
<1> USE DEF RecordInv
<1>1. CASE WriterTakes
  BY <1>1, WriterTakesInv
<1>2. CASE WriterWaits
  <2> USE <1>2 DEF WriterWaits, uploadVars, workVars, histVars
  <2>1. /\ UNCHANGED <<frames, framesStopping>>
        /\ writer \in {"ready", "deciding"} /\ writer' \in {"deciding", "asleep"}
    BY DEF F!WaitDecides, F!WaitSleeps
  <2>2. RecordTypeOK'
    BY <2>1 DEF RecordTypeOK, F!Places
  <2>3. StopOrder' /\ FramesAccounted'
    BY <2>1 DEF StopOrder, FramesAccounted
  <2>4. UploadsAccounted' /\ AttemptsBounded'
    BY <2>1 DEF UploadsAccounted, AttemptsBounded, AttemptDue
  <2> QED BY <2>2, <2>3, <2>4
<1>3. CASE WriterRequests
  <2> USE <1>3 DEF WriterRequests, frameVars
  <2>1. ~uploadsStopping
    BY DEF StopOrder
  <2>2. /\ owed \in 0..RequestBound /\ RequestBound \in Nat /\ requested \in 0..RequestBound
        /\ owed <= RequestBound - requested /\ owed > 0
    BY RecordAssumption DEF RecordTypeOK, UploadsAccounted
  <2>3. requested < RequestBound
    BY <2>2
  <2>4. /\ requested' = requested + 1 /\ requested' \in 0..RequestBound
        /\ uploads' \in Seq(1..RequestBound) /\ Len(uploads') <= MaxQueued
        /\ uploadsStopping' = uploadsStopping
        /\ uploader' = uploader \/ (uploader = "asleep" /\ uploader' = "ready")
        /\ dropped' \subseteq 1..RequestBound
        /\ dropped \cup Elems(uploads) \cup {requested + 1} = dropped' \cup Elems(uploads')
    BY <2>1, <2>3, RequestEffect
  <2>5. owed' \in 0..RequestBound /\ owed' <= RequestBound - requested'
    <3>1. owed' = owed - 1 /\ requested' = requested + 1
      BY <2>4
    <3> QED BY <2>2, <3>1
  <2>6. RecordTypeOK'
    <3>1. uploader' \in U!Places
      BY <2>4 DEF RecordTypeOK, U!Places
    <3>2. uploadsStopping' \in BOOLEAN
      BY <2>4 DEF RecordTypeOK
    <3> QED BY <2>4, <2>5, <3>1, <3>2 DEF RecordTypeOK
  <2>7. StopOrder' /\ FramesAccounted'
    BY <2>1, <2>4 DEF StopOrder, FramesAccounted
  <2>8. UploadsAccounted'
    <3>1. 1..requested' = 1..requested \cup {requested + 1}
      BY <2>2, <2>4
    <3>2. 1..requested = tried \cup dropped \cup Elems(uploads)
      BY DEF UploadsAccounted
    <3>3. 1..requested' = tried' \cup dropped' \cup Elems(uploads')
      BY <2>4, <3>1, <3>2
    <3> QED BY <2>1, <2>4, <2>5, <3>3 DEF UploadsAccounted
  <2>9. AttemptsBounded'
    BY <2>1, <2>4 DEF AttemptsBounded
  <2> QED BY <2>6, <2>7, <2>8, <2>9
<1>4. CASE WriterFinishes
  <2> USE <1>4 DEF WriterFinishes, uploadVars, workVars, histVars
  <2>1. /\ UNCHANGED <<frames, framesStopping>>
        /\ \/ writer = "busy" /\ writer' = "ready"
           \/ writer = "leaving" /\ writer' = "exited"
    BY DEF F!Done, F!Leave
  <2>2. RecordTypeOK'
    BY <2>1 DEF RecordTypeOK, F!Places
  <2>3. StopOrder' /\ FramesAccounted'
    BY <2>1 DEF StopOrder, FramesAccounted
  <2>4. UploadsAccounted' /\ AttemptsBounded'
    BY <2>1 DEF UploadsAccounted, AttemptsBounded, AttemptDue
  <2> QED BY <2>2, <2>3, <2>4
<1> QED BY <1>1, <1>2, <1>3, <1>4 DEF WriterStep

(* The uploader.  A request it takes was queued, an attempt it begins was  *)
(* due.                                                                    *)
LEMMA UploaderTakesInv ==
  ASSUME RecordInv, UploaderTakes
  PROVE  RecordInv'
<1> USE DEF RecordInv, UploaderTakes, frameVars
<1>1. uploader = "ready" /\ uploadsStopping' = uploadsStopping
  BY DEF U!WaitReturns
<1>2. main # "stopped"
  BY <1>1 DEF StopOrder
<1>3. /\ uploads \in Seq(1..RequestBound) /\ Len(uploads) <= MaxQueued /\ MaxQueued \in Nat
      /\ lateTries \in Nat /\ MaxRetries \in Nat
  BY RecordAssumption DEF RecordTypeOK
<1>4. attempt' = 0 /\ retries' = 0 /\ trying' = FALSE /\ lateTries' = lateTries
  OBVIOUS
<1>5. AttemptDue = 0
  BY <1>1 DEF AttemptDue
<1>6. CASE uploads = <<>>
  <2>1. uploader' = "leaving" /\ uploads' = uploads /\ uploadsStopping /\ tried' = tried
    BY <1>6 DEF U!WaitReturns
  <2>2. RecordTypeOK'
    <3>1. uploader' \in U!Places /\ trying' \in BOOLEAN /\ uploadsStopping' \in BOOLEAN
      BY <1>1, <1>4, <2>1 DEF U!Places, RecordTypeOK
    <3>2. attempt' \in 0..MaxRetries /\ retries' \in 0..MaxRetries
      BY <1>3, <1>4
    <3> QED BY <1>4, <2>1, <3>1, <3>2 DEF RecordTypeOK
  <2>3. StopOrder' /\ FramesAccounted'
    BY <1>1, <1>2, <2>1 DEF StopOrder, FramesAccounted
  <2>4. UploadsAccounted'
    BY <1>1, <1>6, <2>1 DEF UploadsAccounted
  <2>5. AttemptsBounded'
    <3>1. AttemptDue' = 0
      BY <2>1 DEF AttemptDue
    <3> QED BY <1>1, <1>4, <1>5, <2>1, <3>1 DEF AttemptsBounded
  <2> QED BY <2>2, <2>3, <2>4, <2>5
<1>7. CASE uploads # <<>>
  <2>1. uploader' = "busy" /\ uploads' = Tail(uploads) /\ tried' = tried \cup {Head(uploads)}
    BY <1>7 DEF U!WaitReturns
  <2>2. /\ Head(uploads) \in 1..RequestBound /\ uploads' \in Seq(1..RequestBound)
        /\ Len(uploads') = Len(uploads) - 1
        /\ Elems(uploads) = {Head(uploads)} \cup Elems(uploads')
    BY <1>3, <1>7, <2>1, TailElems
  <2>3. Len(uploads') <= MaxQueued /\ Len(uploads) \in Nat
    <3>1. Len(uploads) \in Nat
      BY <1>3
    <3> QED BY <1>3, <2>2, <3>1
  <2>4. RecordTypeOK'
    <3>1. uploader' \in U!Places /\ trying' \in BOOLEAN /\ uploadsStopping' \in BOOLEAN
      BY <1>1, <1>4, <2>1 DEF U!Places, RecordTypeOK
    <3>2. attempt' \in 0..MaxRetries /\ retries' \in 0..MaxRetries
      BY <1>3, <1>4
    <3>3. tried' \subseteq 1..RequestBound
      BY <2>1, <2>2 DEF RecordTypeOK
    <3> QED BY <1>4, <2>2, <2>3, <3>1, <3>2, <3>3 DEF RecordTypeOK
  <2>5. StopOrder' /\ FramesAccounted'
    BY <1>1, <1>2, <2>1 DEF StopOrder, FramesAccounted
  <2>6. UploadsAccounted'
    <3>1. 1..requested = tried \cup dropped \cup Elems(uploads)
      BY DEF UploadsAccounted
    <3>2. 1..requested = tried' \cup dropped \cup Elems(uploads')
      BY <2>1, <2>2, <3>1
    <3> QED BY <1>1, <2>1, <3>2 DEF UploadsAccounted
  <2>7. AttemptsBounded'
    <3>1. AttemptDue' = 1
      BY <1>4, <2>1 DEF AttemptDue
    <3>2. uploadsStopping => lateTries + Len(uploads) + 0 <= MaxQueued + 1
      BY <1>5 DEF AttemptsBounded
    <3>3. uploadsStopping' => lateTries' + Len(uploads') + AttemptDue' <= MaxQueued + 1
      BY <1>1, <1>3, <1>4, <2>2, <2>3, <3>1, <3>2
    <3> QED BY <1>1, <1>4, <3>3 DEF AttemptsBounded
  <2> QED BY <2>4, <2>5, <2>6, <2>7
<1> QED BY <1>6, <1>7

LEMMA UploaderTriesInv ==
  ASSUME RecordInv, UploaderBegins \/ UploaderRetries
  PROVE  RecordInv'
<1> USE DEF RecordInv
<1>1. /\ uploader = "busy" /\ ~trying /\ trying' = TRUE
      /\ UNCHANGED <<frames, framesStopping, writer, uploads, uploadsStopping, uploader, owed,
                     subscribed, capture, main, published, accepted, written, requested,
                     dropped, tried>>
  BY DEF UploaderBegins, UploaderRetries, AttemptsBounded, frameVars, uploadVars
<1>2. lateTries' = lateTries + (IF uploadsStopping THEN 1 ELSE 0)
  BY DEF UploaderBegins, UploaderRetries
<1>3. /\ lateTries \in Nat /\ MaxRetries \in Nat \ {0} /\ attempt \in 0..MaxRetries
      /\ retries \in 0..MaxRetries /\ MaxQueued \in Nat
  BY RecordAssumption DEF RecordTypeOK
<1>4. lateTries' \in Nat
  BY <1>2, <1>3
<1>5. /\ attempt' \in 0..MaxRetries /\ retries' \in 0..MaxRetries /\ attempt' > 0
      /\ attempt' <= retries'
  <2>1. CASE UploaderBegins
    <3>1. attempt' = 1 /\ retries' = IF uploadsStopping THEN 1 ELSE MaxRetries
      BY <2>1 DEF UploaderBegins
    <3> QED BY <1>3, <3>1
  <2>2. CASE UploaderRetries
    <3>1. attempt' = attempt + 1 /\ retries' = retries /\ attempt > 0
      BY <2>2 DEF UploaderRetries
    <3>2. attempt < retries
      BY <1>1, <3>1 DEF AttemptsBounded
    <3> QED BY <1>3, <3>1, <3>2
  <2> QED BY <2>1, <2>2
<1>6. RecordTypeOK'
  BY <1>1, <1>4, <1>5 DEF RecordTypeOK
<1>7. StopOrder' /\ FramesAccounted' /\ UploadsAccounted'
  BY <1>1 DEF StopOrder, FramesAccounted, UploadsAccounted
<1>8. AttemptsBounded'
  <2>1. AttemptDue = 1 /\ AttemptDue' = 0
    BY <1>1 DEF AttemptDue
  <2>2. uploadsStopping => lateTries + Len(uploads) + 1 <= MaxQueued + 1
    BY <2>1 DEF AttemptsBounded
  <2>3. Len(uploads) \in Nat
    <3>1. uploads \in Seq(1..RequestBound)
      BY DEF RecordTypeOK
    <3> QED BY <3>1
  <2>4. uploadsStopping' => lateTries' + Len(uploads') + AttemptDue' <= MaxQueued + 1
    BY <1>1, <1>2, <1>3, <2>1, <2>2, <2>3
  <2>5. ~uploadsStopping' => lateTries' = 0
    BY <1>1, <1>2 DEF AttemptsBounded
  <2>6. attempt' # 0
    BY <1>3, <1>5
  <2> QED BY <1>1, <1>5, <2>4, <2>5, <2>6 DEF AttemptsBounded
<1> QED BY <1>6, <1>7, <1>8

LEMMA UploaderStepInv ==
  ASSUME RecordInv, UploaderStep
  PROVE  RecordInv'
<1> USE DEF RecordInv
<1>1. CASE UploaderTakes
  BY <1>1, UploaderTakesInv
<1>2. CASE UploaderBegins \/ UploaderRetries
  BY <1>2, UploaderTriesInv
<1>3. CASE UploaderWaits
  <2> USE <1>3 DEF UploaderWaits, frameVars, workVars, histVars
  <2>1. /\ UNCHANGED <<uploads, uploadsStopping>>
        /\ uploader \in {"ready", "deciding"} /\ uploader' \in {"deciding", "asleep"}
    BY DEF U!WaitDecides, U!WaitSleeps
  <2>2. RecordTypeOK'
    BY <2>1 DEF RecordTypeOK, U!Places
  <2>3. StopOrder' /\ FramesAccounted' /\ UploadsAccounted'
    BY <2>1 DEF StopOrder, FramesAccounted, UploadsAccounted
  <2>4. AttemptsBounded'
    BY <2>1 DEF AttemptsBounded, AttemptDue
  <2> QED BY <2>2, <2>3, <2>4
<1>4. CASE UploaderNaps
  <2> USE <1>4 DEF UploaderNaps, frameVars, uploadVars, histVars
  <2>1. ~uploadsStopping /\ attempt < retries
    BY DEF RetriesAfterFailure
  <2>2. RecordTypeOK'
    BY DEF RecordTypeOK
  <2>3. StopOrder' /\ FramesAccounted' /\ UploadsAccounted'
    BY DEF StopOrder, FramesAccounted, UploadsAccounted
  <2>4. AttemptsBounded'
    BY <2>1 DEF AttemptsBounded
  <2> QED BY <2>2, <2>3, <2>4
<1>5. CASE UploaderFinishes
  <2> USE <1>5 DEF UploaderFinishes, frameVars, histVars
  <2>1. /\ UNCHANGED <<uploads, uploadsStopping>>
        /\ \/ uploader = "busy" /\ uploader' = "ready"
           \/ uploader = "leaving" /\ uploader' = "exited"
    BY DEF U!Done, U!Leave
  <2>2. RecordTypeOK'
    BY <2>1 DEF RecordTypeOK, U!Places
  <2>3. StopOrder' /\ FramesAccounted' /\ UploadsAccounted'
    BY <2>1 DEF StopOrder, FramesAccounted, UploadsAccounted
  <2>4. AttemptsBounded'
    <3>1. AttemptDue' = 0 /\ AttemptDue = 0
      BY <2>1 DEF AttemptDue
    <3> QED BY <2>1, <3>1 DEF AttemptsBounded
  <2> QED BY <2>2, <2>3, <2>4
<1> QED BY <1>1, <1>2, <1>3, <1>4, <1>5 DEF UploaderStep

(* SegmentRecorder::start. *)
LEMMA StartStepInv ==
  ASSUME RecordInv, StartStep
  PROVE  RecordInv'
<1> USE DEF RecordInv
<1>0. main = "starting" /\ writer = "exited" /\ ~uploadsStopping /\ owed = 0
  BY DEF StartStep, StartPrunes, StartSubscribes, StartRefused, StartWithoutDirectory, StopOrder,
         UploadsAccounted
<1>1. CASE StartPrunes
  <2> USE <1>1 DEF StartPrunes, frameVars, workVars
  <2>1. /\ requested' = requested + 1 /\ requested' \in 0..RequestBound
        /\ uploads' \in Seq(1..RequestBound) /\ Len(uploads') <= MaxQueued
        /\ uploadsStopping' = uploadsStopping
        /\ uploader' = uploader \/ (uploader = "asleep" /\ uploader' = "ready")
        /\ dropped' \subseteq 1..RequestBound
        /\ dropped \cup Elems(uploads) \cup {requested + 1} = dropped' \cup Elems(uploads')
    BY <1>0, RequestEffect
  <2>2. RecordTypeOK'
    <3>1. uploader' \in U!Places
      BY <2>1 DEF RecordTypeOK, U!Places
    <3>2. uploadsStopping' \in BOOLEAN
      BY <2>1 DEF RecordTypeOK
    <3> QED BY <2>1, <3>1, <3>2 DEF RecordTypeOK
  <2>3. StopOrder' /\ FramesAccounted'
    BY <1>0, <2>1 DEF StopOrder, FramesAccounted
  <2>4. UploadsAccounted'
    <3>1. requested \in 0..RequestBound /\ RequestBound \in Nat
      BY RecordAssumption DEF RecordTypeOK
    <3>2. 1..requested' = 1..requested \cup {requested + 1}
      BY <2>1, <3>1
    <3>3. 1..requested = tried \cup dropped \cup Elems(uploads)
      BY DEF UploadsAccounted
    <3>4. 1..requested' = tried' \cup dropped' \cup Elems(uploads')
      BY <2>1, <3>2, <3>3
    <3>5. owed' = 0 /\ owed' <= RequestBound - requested'
      BY <1>0, <2>1, <3>1
    <3> QED BY <1>0, <2>1, <3>4, <3>5 DEF UploadsAccounted
  <2>5. AttemptsBounded'
    BY <1>0, <2>1 DEF AttemptsBounded
  <2> QED BY <2>2, <2>3, <2>4, <2>5
<1>2. CASE StartSubscribes \/ StartRefused \/ StartWithoutDirectory
  <2> USE DEF uploadVars, workVars, histVars, frameVars
  <2>1. /\ UNCHANGED <<frames, framesStopping, uploads, uploadsStopping, uploader, owed, attempt,
                       retries, trying, published, accepted, written, requested, dropped, tried,
                       lateTries, capture>>
        /\ \/ main' = "running" /\ writer' = "ready" /\ subscribed' = TRUE
           \/ main' = "unsubscribed" /\ writer' \in {"ready", "exited"} /\ subscribed' = subscribed
    BY <1>0, <1>2 DEF StartSubscribes, StartRefused, StartWithoutDirectory
  <2>2. RecordTypeOK'
    <3>1. main' \in {"running", "unsubscribed"} /\ writer' \in F!Places /\ subscribed' \in BOOLEAN
      BY <2>1 DEF RecordTypeOK, F!Places
    <3> QED BY <2>1, <3>1 DEF RecordTypeOK
  <2>f. ~framesStopping /\ ~uploadsStopping /\ capture = "idle"
    BY <1>0 DEF StopOrder, FramesAccounted
  <2>s. StopOrder'
    BY <1>0, <2>1, <2>f DEF StopOrder
  <2>3. FramesAccounted'
    <3>1. ~subscribed /\ (writer' = "exited" => subscribed' = subscribed)
      BY <1>0, <2>1, <2>f DEF FramesAccounted
    <3> QED BY <1>0, <2>1, <2>f, <3>1 DEF FramesAccounted
  <2>4. UploadsAccounted' /\ AttemptsBounded'
    BY <1>0, <2>1 DEF UploadsAccounted, AttemptsBounded, AttemptDue
  <2> QED BY <2>2, <2>s, <2>3, <2>4
<1> QED BY <1>1, <1>2 DEF StartStep

(* SegmentRecorder::stop. *)
LEMMA StopStepInv ==
  ASSUME RecordInv, StopUnsubscribes \/ StopStep
  PROVE  RecordInv'
<1> USE DEF RecordInv
<1>1. CASE StopUnsubscribes
  <2> USE <1>1 DEF StopUnsubscribes, frameVars, uploadVars, workVars, histVars
  <2>1. RecordTypeOK'
    BY DEF RecordTypeOK
  <2>2. StopOrder' /\ FramesAccounted' /\ UploadsAccounted'
    BY DEF StopOrder, FramesAccounted, UploadsAccounted
  <2>3. AttemptsBounded'
    BY DEF AttemptsBounded, AttemptDue
  <2> QED BY <2>1, <2>2, <2>3
<1>2. CASE StopWriter
  <2> USE <1>2 DEF StopWriter, uploadVars, workVars, histVars
  <2>1. /\ frames' = frames
        /\ writer' = writer \/ (writer = "asleep" /\ writer' = "ready")
    BY DEF F!SetStopping, F!NotifyStop, F!Notified
  <2>2. \/ main = "unsubscribed" /\ main' = "flagged" /\ framesStopping' = TRUE
        \/ /\ main = "flagged" /\ main' = "joining writer"
           /\ framesStopping' = framesStopping
    BY DEF F!SetStopping, F!NotifyStop
  <2>3. framesStopping'
    BY <2>2 DEF StopOrder
  <2>4. framesStopping' \in BOOLEAN /\ writer' \in F!Places
    BY <2>1, <2>2 DEF RecordTypeOK, F!Places
  <2>5. RecordTypeOK'
    BY <2>1, <2>2, <2>4 DEF RecordTypeOK
  <2>6. StopOrder'
    BY <2>1, <2>2, <2>3 DEF StopOrder
  <2>7. FramesAccounted' /\ UploadsAccounted'
    BY <2>1, <2>3 DEF FramesAccounted, UploadsAccounted
  <2>8. AttemptsBounded'
    BY DEF AttemptsBounded, AttemptDue
  <2> QED BY <2>5, <2>6, <2>7, <2>8
<1>3. CASE JoinWriter
  <2> USE <1>3 DEF JoinWriter, frameVars, uploadVars, workVars, histVars
  <2>1. RecordTypeOK'
    BY DEF RecordTypeOK
  <2>2. StopOrder'
    BY DEF StopOrder, F!Joined
  <2>3. FramesAccounted' /\ UploadsAccounted'
    BY DEF FramesAccounted, UploadsAccounted
  <2>4. AttemptsBounded'
    BY DEF AttemptsBounded, AttemptDue
  <2> QED BY <2>1, <2>2, <2>3, <2>4
<1>4. CASE StopCloses
  <2>1. /\ main = "closing" /\ main' = "closed" /\ ~uploadsStopping
        /\ UNCHANGED <<frames, framesStopping, writer, owed, attempt, retries, trying,
                       subscribed, capture, published, accepted, written, tried, lateTries>>
    BY <1>4 DEF StopCloses, StopOrder, frameVars, workVars
  <2>2. writer = "exited" /\ owed = 0
    BY <2>1 DEF StopOrder, UploadsAccounted
  <2>3. CASE UNCHANGED <<uploadVars, requested, dropped>>
    <3> USE <2>3 DEF uploadVars
    <3>1. RecordTypeOK'
      BY <2>1 DEF RecordTypeOK
    <3>2. StopOrder' /\ FramesAccounted' /\ UploadsAccounted'
      BY <2>1 DEF StopOrder, FramesAccounted, UploadsAccounted
    <3>3. AttemptsBounded'
      BY <2>1 DEF AttemptsBounded, AttemptDue
    <3> QED BY <3>1, <3>2, <3>3
  <2>4. CASE requested < RequestBound /\ Request
    <3>1. /\ requested' = requested + 1 /\ requested' \in 0..RequestBound
          /\ uploads' \in Seq(1..RequestBound) /\ Len(uploads') <= MaxQueued
          /\ uploadsStopping' = uploadsStopping
          /\ uploader' = uploader \/ (uploader = "asleep" /\ uploader' = "ready")
          /\ dropped' \subseteq 1..RequestBound
          /\ dropped \cup Elems(uploads) \cup {requested + 1} = dropped' \cup Elems(uploads')
      BY <2>1, <2>4, RequestEffect
    <3>2. RecordTypeOK'
      <4>1. uploader' \in U!Places
        BY <3>1 DEF RecordTypeOK, U!Places
      <4>2. uploadsStopping' \in BOOLEAN
        BY <3>1 DEF RecordTypeOK
      <4> QED BY <2>1, <3>1, <4>1, <4>2 DEF RecordTypeOK
    <3>3. StopOrder' /\ FramesAccounted'
      BY <2>1, <2>2, <3>1 DEF StopOrder, FramesAccounted
    <3>4. UploadsAccounted'
      <4>1. requested \in 0..RequestBound /\ RequestBound \in Nat
        BY RecordAssumption DEF RecordTypeOK
      <4>2. 1..requested' = 1..requested \cup {requested + 1}
        BY <3>1, <4>1
      <4>3. 1..requested = tried \cup dropped \cup Elems(uploads)
        BY DEF UploadsAccounted
      <4>4. 1..requested' = tried' \cup dropped' \cup Elems(uploads')
        BY <2>1, <3>1, <4>2, <4>3
      <4>5. owed' = 0 /\ owed' <= RequestBound - requested'
        BY <2>1, <2>2, <2>4, <3>1, <4>1
      <4> QED BY <2>1, <3>1, <4>4, <4>5 DEF UploadsAccounted
    <3>5. AttemptsBounded'
      BY <2>1, <3>1 DEF AttemptsBounded
    <3> QED BY <3>2, <3>3, <3>4, <3>5
  <2> QED BY <1>4, <2>3, <2>4 DEF StopCloses
<1>5. CASE StopUploader
  <2> USE <1>5 DEF StopUploader, frameVars, workVars, histVars
  <2>1. /\ uploads' = uploads
        /\ uploader' = uploader \/ (uploader = "asleep" /\ uploader' = "ready")
    BY DEF U!SetStopping, U!NotifyStop, U!Notified
  <2>2. \/ main = "closed" /\ main' = "uploader flagged" /\ uploadsStopping' = TRUE
        \/ /\ main = "uploader flagged" /\ main' = "joining uploader"
           /\ uploadsStopping' = uploadsStopping
    BY DEF U!SetStopping, U!NotifyStop
  <2>3. uploadsStopping'
    BY <2>2 DEF StopOrder
  <2>4. uploadsStopping' \in BOOLEAN /\ uploader' \in U!Places
    BY <2>1, <2>2 DEF RecordTypeOK, U!Places
  <2>5. RecordTypeOK'
    BY <2>1, <2>2, <2>4 DEF RecordTypeOK
  <2>6. StopOrder'
    BY <2>1, <2>2, <2>3 DEF StopOrder
  <2>7. FramesAccounted' /\ UploadsAccounted'
    BY <2>1, <2>3 DEF FramesAccounted, UploadsAccounted
  <2>8. AttemptsBounded'
    <3>1. uploader' = "busy" <=> uploader = "busy"
      BY <2>1
    <3>2. AttemptDue' = AttemptDue /\ AttemptDue \in {0, 1}
      BY <3>1 DEF AttemptDue
    <3>3. /\ lateTries \in Nat /\ Len(uploads) \in Nat /\ MaxQueued \in Nat
          /\ Len(uploads) <= MaxQueued
      <4>1. uploads \in Seq(1..RequestBound) /\ lateTries \in Nat /\ Len(uploads) <= MaxQueued
        BY DEF RecordTypeOK
      <4>2. Len(uploads) \in Nat
        <5>1. uploads \in Seq(1..RequestBound)
          BY <4>1
        <5> QED BY ONLY <5>1
      <4>3. MaxQueued \in Nat
        BY RecordAssumption
      <4> QED BY <4>1, <4>2, <4>3
    <3>4. lateTries + Len(uploads) + AttemptDue <= MaxQueued + 1
      <4>1. CASE uploadsStopping
        BY <4>1 DEF AttemptsBounded
      <4>2. CASE ~uploadsStopping
        <5>1. lateTries = 0
          BY <4>2 DEF AttemptsBounded
        <5>2. PICK d : d = AttemptDue
          OBVIOUS
        <5>3. d \in {0, 1}
          BY <3>2, <5>2
        <5>4. Len(uploads) \in Nat /\ MaxQueued \in Nat /\ Len(uploads) <= MaxQueued
          BY <3>3
        <5>5. 0 + Len(uploads) + d <= MaxQueued + 1
          BY ONLY <5>3, <5>4
        <5> QED BY <5>1, <5>2, <5>5
      <4> QED BY <4>1, <4>2
    <3> QED BY <2>1, <2>3, <3>1, <3>2, <3>4 DEF AttemptsBounded
  <2> QED BY <2>5, <2>6, <2>7, <2>8
<1>6. CASE JoinUploader
  <2> USE <1>6 DEF JoinUploader, frameVars, uploadVars, workVars, histVars
  <2>1. RecordTypeOK'
    BY DEF RecordTypeOK
  <2>2. StopOrder'
    BY DEF StopOrder, U!Joined
  <2>3. FramesAccounted' /\ UploadsAccounted'
    BY DEF FramesAccounted, UploadsAccounted
  <2>4. AttemptsBounded'
    BY DEF AttemptsBounded, AttemptDue
  <2> QED BY <2>1, <2>2, <2>3, <2>4
<1> QED BY <1>1, <1>2, <1>3, <1>4, <1>5, <1>6 DEF StopStep

-----------------------------------------------------------------------------
(* The process. *)

(* A recorder that has been stopped has nothing left to do. *)
LEMMA StoppedRecorderIsDone ==
  ASSUME RecordInv, main = "stopped"
  PROVE  accepted \subseteq written /\ 1..requested = tried \cup dropped
<1>1. writer = "exited" /\ uploader = "exited"
  BY DEF RecordInv, StopOrder
<1>2. accepted \subseteq written
  BY <1>1 DEF RecordInv, FramesAccounted
<1>3. uploads = <<>>
  BY <1>1 DEF RecordInv, UploadsAccounted
<1>4. 1..requested = tried \cup dropped \cup Elems(uploads)
  BY DEF RecordInv, UploadsAccounted
<1> QED BY <1>2, <1>3, <1>4, EmptyElems

LEMMA RecordStutters ==
  ASSUME RecordInv, UNCHANGED recordVars
  PROVE  RecordInv'
<1> USE DEF RecordInv, recordVars, frameVars, uploadVars, workVars, histVars
<1>1. RecordTypeOK'
  BY DEF RecordTypeOK
<1>2. StopOrder' /\ FramesAccounted' /\ UploadsAccounted'
  BY DEF StopOrder, FramesAccounted, UploadsAccounted
<1>3. AttemptsBounded'
  BY DEF AttemptsBounded, AttemptDue
<1> QED BY <1>1, <1>2, <1>3

(* The facts about the process that do not concern the recorder's threads. *)
ProcessTypeOK ==
    /\ phase \in Phases
    /\ shutdown \in BOOLEAN
    /\ handlers \in 0..MaxSignals /\ signals \in 0..MaxSignals
    /\ device \in BOOLEAN /\ webrtc \in BOOLEAN
    /\ recorder \in {"none", "on", "freed"}
    /\ exitCode \in {Running, 0, 1, 2, Killed}

LEMMA Codes == Running \notin {0, 1, 2, Killed} /\ Killed \notin {0, 1, 2}
  BY DEF Running, Killed

LEMMA AppInitInv == AppInit => AppInv
<1> SUFFICES ASSUME AppInit PROVE AppInv
  OBVIOUS
<1>1. RecordInv
  BY RecordInitInv DEF AppInit
<1>2. handlers \in 0..MaxSignals /\ signals \in 0..MaxSignals
  <2>1. handlers = 0 /\ signals = 0
    BY DEF AppInit
  <2> QED BY <2>1, SignalAssumption
<1>3. ProcessTypeOK
  BY <1>2 DEF AppInit, ProcessTypeOK, Phases
<1>4. AppTypeOK
  BY <1>1, <1>3 DEF RecordInv, ProcessTypeOK, AppTypeOK
<1>5. RecorderLife
  BY DEF AppInit, Init, RecorderLife
<1>6. ProcessLife /\ NothingLeftAtExit
  <2>1. handlers = 0 /\ signals = 0 /\ exitCode = Running /\ phase = "start device"
    BY DEF AppInit
  <2>2. handlers <= signals
    <3>1. handlers = 0 /\ signals = 0
      BY <2>1
    <3> QED BY ONLY <3>1
  <2>3. exitCode \notin {0, 1}
    BY <2>1, Codes
  <2> QED BY <2>1, <2>2, <2>3 DEF ProcessLife, NothingLeftAtExit
<1> QED BY <1>1, <1>4, <1>5, <1>6 DEF AppInv

(* Steps of main and of the signal handlers that leave the recorder's      *)
(* threads alone and do not end the process.                               *)
LEMMA StartAndWaitInv ==
  ASSUME AppInv, StartDevice \/ StartWebRtc \/ MainWaits
  PROVE  AppInv'
<1>1. RecordInv'
  BY RecordStutters DEF AppInv, StartDevice, StartWebRtc, MainWaits
<1>2. UNCHANGED <<main, capture, accepted, written, requested, tried, dropped, shutdown, handlers, signals>>
  BY DEF StartDevice, StartWebRtc, MainWaits, recordVars, histVars
<1>3. /\ phase' \in Phases /\ phase' \notin {"start device", "stop device", "stop network"}
      /\ phase \notin {"exited", "stop device", "stop network"}
      /\ phase' \in {"start webrtc", "start record"} => recorder' = "none"
      /\ recorder' = recorder
  BY DEF AppInv, RecorderLife, StartDevice, StartWebRtc, MainWaits, Phases, Exit
<1>4. /\ device' \in BOOLEAN /\ webrtc' \in BOOLEAN
  BY DEF AppInv, AppTypeOK, StartDevice, StartWebRtc, MainWaits
<1>5. \/ exitCode' = 2 /\ phase' = "exited"
      \/ exitCode' = exitCode /\ phase' # "exited"
  BY DEF StartDevice, StartWebRtc, MainWaits, Exit
<1>6. exitCode = Running
  BY <1>3 DEF AppInv, ProcessLife
<1>7. ProcessTypeOK'
  BY <1>2, <1>3, <1>4, <1>5 DEF AppInv, AppTypeOK, ProcessTypeOK
<1>8. AppTypeOK'
  BY <1>1, <1>7 DEF RecordInv, ProcessTypeOK, AppTypeOK
<1>9. RecorderLife'
  BY <1>2, <1>3 DEF AppInv, RecorderLife
<1>10. ProcessLife'
  <2>1. handlers' <= signals'
    BY <1>2 DEF AppInv, ProcessLife
  <2>2. exitCode' = Running <=> phase' # "exited"
    BY <1>5, <1>6, Codes
  <2> QED BY <2>1, <2>2 DEF ProcessLife
<1>11. NothingLeftAtExit'
  <2>1. exitCode' \notin {0, 1}
    BY <1>5, <1>6, Codes
  <2> QED BY <2>1 DEF NothingLeftAtExit
<1> QED BY <1>1, <1>8, <1>9, <1>10, <1>11 DEF AppInv

LEMMA SignalInv ==
  ASSUME AppInv, SignalArrives \/ HandlerNotifies
  PROVE  AppInv'
<1>1. RecordInv'
  BY RecordStutters DEF AppInv, SignalArrives, HandlerNotifies
<1>2. /\ UNCHANGED <<main, capture, accepted, written, requested, tried, dropped, device, webrtc,
                      recorder, exitCode>>
      /\ phase # "exited"
      /\ phase' = phase \/ (phase = "asleep" /\ phase' = "ready")
  BY DEF SignalArrives, HandlerNotifies, recordVars, histVars, Alive
<1>3. /\ handlers' \in 0..MaxSignals /\ signals' \in 0..MaxSignals /\ handlers' <= signals'
      /\ shutdown' \in BOOLEAN
  <2>1. /\ handlers \in 0..MaxSignals /\ signals \in 0..MaxSignals /\ handlers <= signals
        /\ MaxSignals \in Nat
    BY SignalAssumption DEF AppInv, AppTypeOK, ProcessLife
  <2>2. CASE SignalArrives
    <3>1. /\ signals < MaxSignals /\ signals' = signals + 1 /\ handlers' = handlers + 1
          /\ shutdown' = TRUE
      BY <2>2 DEF SignalArrives
    <3> QED BY <2>1, <3>1
  <2>3. CASE HandlerNotifies
    <3>1. handlers > 0 /\ handlers' = handlers - 1 /\ signals' = signals
      BY <2>3 DEF HandlerNotifies
    <3>2. shutdown' \in BOOLEAN
      BY <2>3 DEF HandlerNotifies, AppInv, AppTypeOK
    <3> QED BY <2>1, <3>1, <3>2
  <2> QED BY <2>2, <2>3
<1>4. phase' \in Phases
  BY <1>2 DEF AppInv, AppTypeOK, Phases
<1>5. ProcessTypeOK'
  BY <1>2, <1>3, <1>4 DEF AppInv, AppTypeOK, ProcessTypeOK
<1>6. AppTypeOK'
  BY <1>1, <1>5 DEF RecordInv, ProcessTypeOK, AppTypeOK
<1>7. RecorderLife'
  BY <1>2 DEF AppInv, RecorderLife
<1>8. ProcessLife'
  BY <1>2, <1>3 DEF AppInv, ProcessLife
<1>9. NothingLeftAtExit'
  BY <1>2 DEF AppInv, NothingLeftAtExit
<1> QED BY <1>1, <1>6, <1>7, <1>8, <1>9 DEF AppInv

(* The recorder's threads, and main while it starts or stops them. *)
LEMMA RecorderStepInv ==
  ASSUME AppInv, recorder = "on", phase # "exited", UNCHANGED processVars,
         \/ CaptureStep \/ WriterStep \/ UploaderStep
         \/ StartStep \/ StopUnsubscribes \/ StopStep
  PROVE  AppInv'
<1>1. RecordInv'
  BY CaptureStepInv, WriterStepInv, UploaderStepInv, StartStepInv, StopStepInv DEF AppInv
<1>2. UNCHANGED <<phase, shutdown, handlers, signals, device, webrtc, recorder, exitCode>>
  BY DEF processVars
<1>3. AppTypeOK'
  BY <1>1, <1>2 DEF AppInv, RecordInv, AppTypeOK
<1>4. RecorderLife'
  BY <1>2 DEF AppInv, RecorderLife
<1>5. ProcessLife'
  BY <1>2 DEF AppInv, ProcessLife
<1>6. NothingLeftAtExit'
  <2>1. exitCode' \notin {0, 1}
    BY <1>2, Codes DEF AppInv, ProcessLife
  <2> QED BY <2>1 DEF NothingLeftAtExit
<1> QED BY <1>1, <1>3, <1>4, <1>5, <1>6 DEF AppInv

LEMMA StartRecordInv ==
  ASSUME AppInv, StartRecord
  PROVE  AppInv'
<1>1. phase = "start record" /\ UNCHANGED <<shutdown, handlers, signals, device, webrtc, exitCode>>
  BY DEF StartRecord
<1>2. CASE recorder = "on" /\ (StartStep \/ StopStep) /\ UNCHANGED <<phase, recorder>>
  BY <1>1, <1>2, RecorderStepInv DEF processVars
<1>3. CASE /\ UNCHANGED recordVars
           /\ phase' \in {"start record", "ready"}
           /\ \/ recorder = "none" /\ recorder' \in {"none", "on"}
              \/ recorder = "on" /\ recorder' = IF main = "stopped" THEN "freed" ELSE "on"
  <2>1. RecordInv'
    BY <1>3, RecordStutters DEF AppInv
  <2>2. UNCHANGED <<main, capture, accepted, written, requested, tried, dropped>>
    BY <1>3 DEF recordVars, histVars
  <2>3. recorder' \in {"none", "on", "freed"} /\ phase' \in Phases
    BY <1>3 DEF Phases
  <2>4. AppTypeOK'
    BY <1>1, <2>1, <2>3 DEF AppInv, RecordInv, AppTypeOK
  <2>5. RecorderLife'
    BY <1>1, <1>3, <2>2 DEF AppInv, RecorderLife
  <2>6. exitCode = Running /\ exitCode' = Running
    BY <1>1 DEF AppInv, ProcessLife
  <2>7. ProcessLife'
    <3>1. handlers' <= signals'
      BY <1>1 DEF AppInv, ProcessLife
    <3> QED BY <1>3, <2>6, <3>1 DEF ProcessLife
  <2>8. NothingLeftAtExit'
    BY <2>6, Codes DEF NothingLeftAtExit
  <2> QED BY <2>1, <2>4, <2>5, <2>7, <2>8 DEF AppInv
<1> QED
  BY <1>1, <1>2, <1>3 DEF StartRecord

LEMMA StopRecordInv ==
  ASSUME AppInv, StopRecord
  PROVE  AppInv'
<1>1. phase = "stop record" /\ UNCHANGED <<shutdown, handlers, signals, device, webrtc, exitCode>>
  BY DEF StopRecord
<1>2. CASE recorder = "on" /\ main # "stopped"
  BY <1>1, <1>2, RecorderStepInv DEF StopRecord, processVars
<1>3. CASE recorder # "on" \/ main = "stopped"
  <2>1. /\ UNCHANGED recordVars
        /\ \/ /\ recorder = "on" /\ main = "stopped" /\ recorder' = "freed" /\ phase' = phase
           \/ /\ recorder # "on" /\ recorder' = recorder /\ phase' = "stop device"
    BY <1>3 DEF StopRecord
  <2>2. RecordInv'
    BY <2>1, RecordStutters DEF AppInv
  <2>3. UNCHANGED <<main, capture, accepted, written, requested, tried, dropped>>
    BY <2>1 DEF recordVars, histVars
  <2>4. recorder' \in {"none", "on", "freed"} /\ phase' \in Phases
    BY <1>1, <2>1 DEF AppInv, AppTypeOK, Phases
  <2>5. AppTypeOK'
    BY <1>1, <2>2, <2>4 DEF AppInv, RecordInv, AppTypeOK
  <2>6. RecorderLife'
    BY <1>1, <2>1, <2>3 DEF AppInv, RecorderLife
  <2>7. exitCode = Running /\ exitCode' = Running
    BY <1>1 DEF AppInv, ProcessLife
  <2>8. ProcessLife'
    <3>1. handlers' <= signals'
      BY <1>1 DEF AppInv, ProcessLife
    <3>2. phase' # "exited"
      BY <1>1, <2>1
    <3> QED BY <2>7, <3>1, <3>2 DEF ProcessLife
  <2>9. NothingLeftAtExit'
    BY <2>7, Codes DEF NothingLeftAtExit
  <2> QED BY <2>2, <2>5, <2>6, <2>8, <2>9 DEF AppInv
<1> QED BY <1>2, <1>3

LEMMA StopDeviceInv ==
  ASSUME AppInv, StopDevice
  PROVE  AppInv'
<1>1. /\ phase = "stop device" /\ capture = "idle" /\ device' = FALSE /\ phase' = "stop network"
      /\ UNCHANGED <<shutdown, handlers, signals, webrtc, recorder, exitCode>>
      /\ UNCHANGED recordVars
  BY DEF StopDevice
<1>2. RecordInv'
  BY <1>1, RecordStutters DEF AppInv
<1>3. UNCHANGED <<main, capture, accepted, written, requested, tried, dropped>>
  BY <1>1 DEF recordVars, histVars
<1>4. device' \in BOOLEAN /\ phase' \in Phases
  BY <1>1 DEF Phases
<1>5. AppTypeOK'
  BY <1>1, <1>2, <1>4 DEF AppInv, RecordInv, AppTypeOK
<1>6. RecorderLife'
  BY <1>1, <1>3 DEF AppInv, RecorderLife
<1>7. exitCode = Running /\ exitCode' = Running
  BY <1>1 DEF AppInv, ProcessLife
<1>8. ProcessLife'
  <2>1. handlers' <= signals'
    BY <1>1 DEF AppInv, ProcessLife
  <2> QED BY <1>1, <1>7, <2>1 DEF ProcessLife
<1>9. NothingLeftAtExit'
  BY <1>7, Codes DEF NothingLeftAtExit
<1> QED BY <1>2, <1>5, <1>6, <1>8, <1>9 DEF AppInv

(* The process ends, by itself or by the watchdog: only after stop_media. *)
LEMMA ExitInv ==
  ASSUME AppInv, StopNetwork \/ WatchdogFires
  PROVE  AppInv'
<1>1. /\ phase = "stop network" /\ phase' = "exited" /\ exitCode' \in {0, 1}
      /\ webrtc' = FALSE \/ webrtc' = webrtc
      /\ UNCHANGED <<shutdown, handlers, signals, device, recorder>>
      /\ UNCHANGED recordVars
  BY DEF StopNetwork, WatchdogFires, WatchdogArmed, Exit
<1>2. RecordInv'
  BY <1>1, RecordStutters DEF AppInv
<1>3. UNCHANGED <<main, capture, accepted, written, requested, tried, dropped>>
  BY <1>1 DEF recordVars, histVars
<1>4. webrtc' \in BOOLEAN /\ phase' \in Phases
  BY <1>1 DEF AppInv, AppTypeOK, Phases
<1>5. exitCode' \in {Running, 0, 1, 2, Killed} /\ exitCode' # Running
  BY <1>1, Codes
<1>6. AppTypeOK'
  BY <1>1, <1>2, <1>4, <1>5 DEF AppInv, RecordInv, AppTypeOK
<1>7. RecorderLife'
  BY <1>1, <1>3 DEF AppInv, RecorderLife
<1>8. ProcessLife'
  <2>1. handlers' <= signals'
    BY <1>1 DEF AppInv, ProcessLife
  <2> QED BY <1>1, <1>5, <2>1 DEF ProcessLife
<1>9. recorder \in {"none", "freed"} /\ ~device /\ capture = "idle"
  BY <1>1 DEF AppInv, AppTypeOK, RecorderLife
<1>10. accepted \subseteq written /\ 1..requested = tried \cup dropped
  <2>1. CASE recorder = "none"
    <3>1. accepted = {} /\ requested = 0 /\ tried = {} /\ dropped = {}
      BY <2>1 DEF AppInv, RecorderLife
    <3> QED BY <3>1
  <2>2. CASE recorder = "freed"
    BY <2>2, StoppedRecorderIsDone DEF AppInv, RecorderLife
  <2> QED BY <1>9, <2>1, <2>2
<1>11. NothingLeftAtExit'
  BY <1>1, <1>3, <1>9, <1>10 DEF NothingLeftAtExit
<1> QED BY <1>2, <1>6, <1>7, <1>8, <1>11 DEF AppInv

(* A frame that comes too late may kill the process, with its own code. *)
LEMMA LateFrameInv ==
  ASSUME AppInv, LateFrame
  PROVE  AppInv'
<1>1. /\ phase # "exited" /\ recorder = "freed" /\ capture # "idle" /\ capture' = "idle"
      /\ \/ phase' = phase /\ exitCode' = exitCode
         \/ phase' = "exited" /\ exitCode' = Killed
      /\ UNCHANGED <<frameVars, uploadVars, workVars, histVars, subscribed, main>>
      /\ UNCHANGED <<shutdown, handlers, signals, device, webrtc, recorder>>
  BY DEF LateFrame, Alive, Exit
<1>2. RecordInv'
  <2> USE <1>1 DEF AppInv, RecordInv, frameVars, uploadVars, workVars, histVars
  <2>1. RecordTypeOK'
    BY DEF RecordTypeOK
  <2>2. StopOrder' /\ FramesAccounted' /\ UploadsAccounted'
    BY DEF StopOrder, FramesAccounted, UploadsAccounted
  <2>3. AttemptsBounded'
    BY DEF AttemptsBounded, AttemptDue
  <2> QED BY <2>1, <2>2, <2>3
<1>3. UNCHANGED <<main, accepted, written, requested, tried, dropped>>
  BY <1>1 DEF histVars
<1>4. phase' \in Phases /\ exitCode' \in {Running, 0, 1, 2, Killed}
  BY <1>1 DEF AppInv, AppTypeOK, Phases
<1>5. AppTypeOK'
  BY <1>1, <1>2, <1>4 DEF AppInv, RecordInv, AppTypeOK
<1>6. RecorderLife'
  BY <1>1, <1>3 DEF AppInv, RecorderLife
<1>7. exitCode = Running
  BY <1>1 DEF AppInv, ProcessLife
<1>8. ProcessLife'
  <2>1. handlers' <= signals'
    BY <1>1 DEF AppInv, ProcessLife
  <2>2. exitCode' = Running <=> phase' # "exited"
    BY <1>1, <1>7, Codes
  <2> QED BY <2>1, <2>2 DEF ProcessLife
<1>9. NothingLeftAtExit'
  <2>1. exitCode' \notin {0, 1}
    BY <1>1, <1>7, Codes
  <2> QED BY <2>1 DEF NothingLeftAtExit
<1> QED BY <1>2, <1>5, <1>6, <1>8, <1>9 DEF AppInv

LEMMA AppStepInv == AppInv /\ [AppNext]_appVars => AppInv'
<1> SUFFICES ASSUME AppInv, [AppNext]_appVars PROVE AppInv'
  OBVIOUS
<1>1. CASE UNCHANGED appVars
  <2>1. UNCHANGED recordVars /\ UNCHANGED processVars
    BY <1>1 DEF appVars
  <2>2. RecordInv'
    BY <2>1, RecordStutters DEF AppInv
  <2>3. /\ UNCHANGED <<main, capture, accepted, written, requested, tried, dropped>>
        /\ UNCHANGED <<phase, shutdown, handlers, signals, device, webrtc, recorder, exitCode>>
    BY <2>1 DEF recordVars, histVars, processVars
  <2>4. AppTypeOK'
    BY <2>2, <2>3 DEF AppInv, RecordInv, AppTypeOK
  <2>5. RecorderLife' /\ ProcessLife' /\ NothingLeftAtExit'
    BY <2>3 DEF AppInv, RecorderLife, ProcessLife, NothingLeftAtExit
  <2> QED BY <2>2, <2>4, <2>5 DEF AppInv
<1>2. CASE RecorderRuns
  BY <1>2, RecorderStepInv DEF RecorderRuns, Alive
<1> QED
  BY <1>1, <1>2, StartAndWaitInv, SignalInv, StartRecordInv, StopRecordInv, StopDeviceInv, ExitInv, LateFrameInv
  DEF AppNext, MainStep

LEMMA AppInvariant == AppSpec => []AppInv
  BY AppInitInv, AppStepInv, PTL DEF AppSpec

(* Every variable of the recorder's threads and of the process keeps its   *)
(* type, and no queue outgrows its limit: Len(frames) and Len(uploads)     *)
(* stay within max_pending_frames and kMaxQueued.                          *)
THEOREM AppIsTyped == AppSpec => []AppTypeOK
<1>1. AppInv => AppTypeOK
  BY DEF AppInv
<1> QED BY <1>1, AppInvariant, PTL

(* main ends after stop_media: whether stop_network returns or the         *)
(* watchdog fires, the device and the recorder are stopped, every accepted *)
(* frame is in the recording and every requested upload was tried or had   *)
(* been dropped by a full queue, for queues of any length.                 *)
THEOREM NothingIsLeft == AppSpec => []NothingLeftAtExit
<1>1. AppInv => NothingLeftAtExit
  BY DEF AppInv
<1> QED BY <1>1, AppInvariant, PTL

(* From the moment the uploader is told to stop it makes at most one       *)
(* attempt for each queued request and one for the request in hand, also   *)
(* when it was told so between two attempts: kMaxQueued + 1 timeouts.      *)
THEOREM ShutdownIsBounded == AppSpec => []StopIsBounded
<1>1. AppInv => StopIsBounded
  <2> SUFFICES ASSUME AppInv PROVE lateTries <= MaxQueued + 1
    BY DEF StopIsBounded
  <2>1. MaxQueued \in Nat
    BY RecordAssumption
  <2>2. CASE ~uploadsStopping
    <3>1. lateTries = 0
      BY <2>2 DEF AppInv, RecordInv, AttemptsBounded
    <3> QED BY ONLY <2>1, <3>1
  <2>3. CASE uploadsStopping
    <3>1. lateTries + Len(uploads) + AttemptDue <= MaxQueued + 1
      BY <2>3 DEF AppInv, RecordInv, AttemptsBounded
    <3>2. uploads \in Seq(1..RequestBound)
      BY DEF AppInv, RecordInv, RecordTypeOK
    <3>3. lateTries \in Nat
      BY DEF AppInv, RecordInv, RecordTypeOK
    <3>4. Len(uploads) \in Nat
      BY ONLY <3>2
    <3>5. AttemptDue \in Nat
      BY DEF AttemptDue
    <3> QED BY ONLY <2>1, <3>1, <3>3, <3>4, <3>5
  <2> QED BY <2>2, <2>3
<1> QED BY <1>1, AppInvariant, PTL
=============================================================================
