--------------------------- MODULE MediaPathProofs ---------------------------
(***************************************************************************)
(* The source in front of the real device pipeline still is the source of  *)
(* MediaSource: its steps are MediaSource's or leave the source alone.     *)
(* What MediaSourceProofs shows of a source with an arbitrary demand       *)
(* handler therefore holds of the composition.  The second part is about   *)
(* the pipeline: what its workers and set_stream_active keep, and how the  *)
(* pipeline's wishes follow the source's demands.                          *)
(***************************************************************************)
EXTENDS MediaPath, MediaSourceProofs

(* Init and every step of the composition, mapped by forgetting the        *)
(* pipeline's variables.                                                   *)
LEMMA PathStepIsSourceStep ==
  ASSUME [Next]_vars
  PROVE  [SourceNext]_sourceVars
<1>1. CASE UNCHANGED vars
  BY <1>1 DEF vars
<1>2. CASE \E s \in Streams : RegisterTrack(s)
  BY <1>2 DEF RegisterTrack, SourceNext
<1>3. CASE StartDevice
  BY <1>3 DEF StartDevice
<1>4. CASE \E c \in Clients, s \in Streams : Subscribe(c, s)
  BY <1>4 DEF Subscribe, SourceNext
<1>5. CASE \E c \in Clients : Demand(c)
  BY <1>5 DEF Demand, SourceNext
<1>6. CASE \E c \in Clients : SubscribeReturn(c)
  BY <1>6 DEF SubscribeReturn, SourceNext
<1>7. CASE \E c \in Clients : UnsubscribeErase(c) /\ UNCHANGED lifecycleVars
  BY <1>7 DEF SourceNext
<1>8. CASE \E c \in Clients : Release(c)
  BY <1>8 DEF Release, SourceNext
<1>9. CASE \E p \in Publishers : PublishCall(p) \/ \E s \in Streams : PublishBegin(p, s)
  BY <1>9 DEF SourceNext
<1>10. CASE UNCHANGED sourceVars
  BY <1>10
<1> QED
  BY <1>1, <1>2, <1>3, <1>4, <1>5, <1>6, <1>7, <1>8, <1>9, <1>10 DEF Next

(* Application::start puts the pipeline behind the demand handler: the     *)
(* composition implements the source's specification, in which the handler *)
(* answers anything at any time.                                           *)
THEOREM PathImplementsSource == Spec => SourceSpec
<1>1. Init => SourceInit
  BY DEF Init
<1> QED
  BY <1>1, PathStepIsSourceStep, PTL DEF Spec, SourceSpec

(* So does the device pipeline's composition keep what the source promises: *)
(* between calls the device has been asked for exactly the subscribed      *)
(* streams, for any number of clients, publishers and streams, whatever    *)
(* the workers do and whatever device calls fail.                          *)
THEOREM PathDemandIsRight == Spec => []DemandMatchesSubscribers
  BY PathImplementsSource, DemandIsRight, PTL

(* And a callback whose subscription is gone is only ever called by a      *)
(* publish that copied its snapshot before that unsubscribe, whatever the  *)
(* pipeline's workers and its stop do meanwhile.                           *)
THEOREM PathLateCallsStayOld == Spec => []LateCallsAreOld
  BY PathImplementsSource, LateCallsStayOld, PTL

-----------------------------------------------------------------------------
(* The device pipeline.  Its invariants, under set_stream_active and the   *)
(* workers' steps.                                                         *)

(* A healthy pipeline encodes the sub stream while it is required, and the *)
(* flag and the encoder agree.                                             *)
RequiredSubRuns ==
    running_ /\ faults = 0 =>
        /\ sub_stream_required_ => sub.running
        /\ sub.running = sub.encoding
        /\ capturing

(* Without a failing device call the AI worker only fails to start a       *)
(* detector that something has overtaken: the generation has moved on, the *)
(* wish is gone or the detector is there.                                  *)
FailedStartIsStale ==
    aiWorker.at = "failed" /\ running_ /\ faults = 0 =>
        ~ai_stream_required_ \/ ai_generation_ # aiWorker.generation \/ yolov8_

(* What touches a stream during the idle time moves its generation. *)
TouchedIsSeen ==
    /\ streamWorker.at = "idle" /\ Sub \in touched =>
          stream_generation_ # streamWorker.generation
    /\ aiWorker.at = "idle" /\ Ai \in touched =>
          ai_generation_ # aiWorker.generation

LifecycleInv ==
    LifecycleTypeOK /\ StoppedIsQuiet /\ RequiredSubRuns /\ FailedStartIsStale /\ TouchedIsSeen

StreamWorkers(n) ==
    [at : {"release", "idle", "parked", "exited"}, awake : BOOLEAN, generation : 0..n]
AiWorkers(n) ==
    [at : {"wait", "start", "loading", "loaded", "failed", "idle", "exited"},
     awake : BOOLEAN, generation : 0..n]

(* Waking a worker leaves its place and its generation alone. *)
LEMMA SetAwake ==
  ASSUME NEW S, NEW T, NEW B, NEW b \in B, NEW w \in [at : S, awake : B, generation : T]
  PROVE  /\ [w EXCEPT !.awake = b] \in [at : S, awake : B, generation : T]
         /\ [w EXCEPT !.awake = b].at = w.at
         /\ [w EXCEPT !.awake = b].generation = w.generation
  OBVIOUS

(* So does moving it to another place. *)
LEMMA SetPlace ==
  ASSUME NEW S, NEW T, NEW B, NEW s \in S, NEW w \in [at : S, awake : B, generation : T]
  PROVE  /\ [w EXCEPT !.at = s] \in [at : S, awake : B, generation : T]
         /\ [w EXCEPT !.at = s].at = s
         /\ [w EXCEPT !.at = s].generation = w.generation
  OBVIOUS

LEMMA Widen ==
  ASSUME NEW S, NEW T, NEW U, T \subseteq U, NEW B, NEW w \in [at : S, awake : B, generation : T]
  PROVE  w \in [at : S, awake : B, generation : U]
  OBVIOUS

(* A worker stays one when the generation grows. *)
LEMMA GenerationGrows ==
  ASSUME NEW n \in Nat, NEW m \in Nat, n <= m
  PROVE  /\ \A w \in StreamWorkers(n) : w \in StreamWorkers(m)
         /\ \A w \in AiWorkers(n) : w \in AiWorkers(m)
<1>1. 0..n \subseteq 0..m
  OBVIOUS
<1>2. ASSUME NEW w \in StreamWorkers(n) PROVE w \in StreamWorkers(m)
  BY <1>1, <1>2, Widen DEF StreamWorkers
<1>3. ASSUME NEW w \in AiWorkers(n) PROVE w \in AiWorkers(m)
  BY <1>1, <1>3, Widen DEF AiWorkers
<1> QED BY <1>2, <1>3

LEMMA NotifiedWorker ==
  ASSUME NEW n \in Nat
  PROVE  /\ \A w \in StreamWorkers(n) :
               /\ Notified(w) \in StreamWorkers(n)
               /\ Notified(w).at = w.at /\ Notified(w).generation = w.generation
         /\ \A w \in AiWorkers(n) :
               /\ Notified(w) \in AiWorkers(n)
               /\ Notified(w).at = w.at /\ Notified(w).generation = w.generation
<1>1. TRUE \in BOOLEAN
  OBVIOUS
<1>2. ASSUME NEW w \in StreamWorkers(n)
      PROVE  /\ Notified(w) \in StreamWorkers(n)
             /\ Notified(w).at = w.at /\ Notified(w).generation = w.generation
  BY <1>1, <1>2, SetAwake DEF StreamWorkers, Notified
<1>3. ASSUME NEW w \in AiWorkers(n)
      PROVE  /\ Notified(w) \in AiWorkers(n)
             /\ Notified(w).at = w.at /\ Notified(w).generation = w.generation
  BY <1>1, <1>3, SetAwake DEF AiWorkers, Notified
<1> QED BY <1>2, <1>3

(* Workers at the start of a wait. *)
LEMMA PlacedWorker ==
  ASSUME NEW n \in Nat
  PROVE  /\ \A p \in {"release", "idle", "parked", "exited"} :
               /\ Asleep(p) \in StreamWorkers(n) /\ Asleep(p).at = p
               /\ Running(p) \in StreamWorkers(n) /\ Running(p).at = p
         /\ \A p \in {"wait", "start", "loading", "loaded", "failed", "idle", "exited"} :
               /\ Asleep(p) \in AiWorkers(n) /\ Asleep(p).at = p
               /\ Running(p) \in AiWorkers(n) /\ Running(p).at = p
<1>1. 0 \in 0..n
  OBVIOUS
<1> QED BY <1>1 DEF StreamWorkers, AiWorkers, Asleep, Running

LEMMA LifecycleInitInv == LifecycleInit => LifecycleInv
<1> SUFFICES ASSUME LifecycleInit PROVE LifecycleInv
  OBVIOUS
<1>1. streamWorker \in StreamWorkers(0) /\ streamWorker.at = "exited"
  BY PlacedWorker DEF LifecycleInit
<1>2. aiWorker \in AiWorkers(0) /\ aiWorker.at = "exited"
  BY PlacedWorker DEF LifecycleInit
<1>3. sub \in [running : BOOLEAN, encoding : BOOLEAN]
  BY DEF LifecycleInit
<1>4. faults \in 0..FaultBound
  BY PipelineAssumption DEF LifecycleInit
<1>5. LifecycleTypeOK
  BY <1>1, <1>2, <1>3, <1>4 DEF LifecycleInit, LifecycleTypeOK, StreamWorkers, AiWorkers
<1>6. StoppedIsQuiet /\ RequiredSubRuns /\ FailedStartIsStale /\ TouchedIsSeen
  BY <1>1, <1>2 DEF LifecycleInit, StoppedIsQuiet, RequiredSubRuns, FailedStartIsStale,
     TouchedIsSeen, running_
<1> QED BY <1>5, <1>6 DEF LifecycleInv

-----------------------------------------------------------------------------
(* set_sub_stream_enabled keeps the types; without a fault it switches     *)
(* flag and encoder together and leaves the capture alone.                 *)
LEMMA SetSubStreamEnabled ==
  ASSUME LifecycleTypeOK, NEW enable \in BOOLEAN, NEW ok \in BOOLEAN,
         set_sub_stream_enabled(enable, ok)
  PROVE  /\ sub' \in [running : BOOLEAN, encoding : BOOLEAN]
         /\ capturing' \in BOOLEAN
         /\ faults' \in 0..FaultBound /\ faults <= faults'
         /\ faults' = 0 =>
               /\ ok /\ sub'.running = enable /\ capturing' = capturing
               /\ sub.running = sub.encoding => sub'.running = sub'.encoding
         /\ enable /\ sub.running => sub'.running
<1>0. /\ sub \in [running : BOOLEAN, encoding : BOOLEAN] /\ capturing \in BOOLEAN
      /\ faults \in 0..FaultBound /\ FaultBound \in Nat
  BY PipelineAssumption DEF LifecycleTypeOK
<1>a. CASE ok /\ sub.running = enable /\ UNCHANGED <<sub, capturing, faults>>
  <2>1. sub' = sub /\ capturing' = capturing /\ faults' = faults
    BY <1>a
  <2> QED BY <1>a, <1>0, <2>1
<1>b. CASE /\ ok /\ sub' = [running |-> enable, encoding |-> enable]
           /\ UNCHANGED <<capturing, faults>>
  <2>1. capturing' = capturing /\ faults' = faults /\ ok
    BY <1>b
  <2>2. /\ sub' \in [running : BOOLEAN, encoding : BOOLEAN]
        /\ sub'.running = enable /\ sub'.encoding = enable
    BY <1>b
  <2> QED BY <1>0, <2>1, <2>2
<1>c. CASE /\ ~ok /\ faults < FaultBound /\ faults' = faults + 1
           /\ sub' = sub /\ capturing' \in {capturing, FALSE}
  <2>1. capturing' \in BOOLEAN
    BY <1>c, <1>0
  <2>2. faults' \in 0..FaultBound /\ faults <= faults' /\ faults' # 0
    BY <1>c, <1>0
  <2>3. sub' = sub
    BY <1>c
  <2> QED BY <1>0, <2>1, <2>2, <2>3
<1>d. CASE /\ ~ok /\ faults < FaultBound /\ faults' = faults + 1
           /\ sub' = [sub EXCEPT !.encoding = enable] /\ capturing' = FALSE
  <2>1. capturing' \in BOOLEAN
    BY <1>d
  <2>2. faults' \in 0..FaultBound /\ faults <= faults' /\ faults' # 0
    BY <1>d, <1>0
  <2>3. sub' \in [running : BOOLEAN, encoding : BOOLEAN] /\ sub'.running = sub.running
    BY <1>0, <1>d
  <2> QED BY <1>0, <2>1, <2>2, <2>3
<1> QED
  BY <1>a, <1>b, <1>c, <1>d DEF set_sub_stream_enabled

LEMMA SetSubActiveInv ==
  ASSUME LifecycleInv, NEW active \in BOOLEAN, NEW ok \in BOOLEAN, SetSubActive(active, ok)
  PROVE  LifecycleInv'
<1> USE DEF LifecycleInv
<1>1. /\ sub' \in [running : BOOLEAN, encoding : BOOLEAN]
      /\ capturing' \in BOOLEAN
      /\ faults' \in 0..FaultBound /\ faults <= faults'
      /\ faults' = 0 => /\ ok /\ capturing' = capturing
                        /\ active => sub'.running
                        /\ ~active => sub' = sub
                        /\ sub.running = sub.encoding => sub'.running = sub'.encoding
  <2>1. CASE active
    <3>1. set_sub_stream_enabled(TRUE, ok)
      BY <2>1 DEF SetSubActive
    <3> QED BY <2>1, <3>1, SetSubStreamEnabled
  <2>2. CASE ~active
    <3>1. ok /\ sub' = sub /\ capturing' = capturing /\ faults' = faults
      BY <2>2 DEF SetSubActive
    <3>2. faults \in 0..FaultBound /\ FaultBound \in Nat
      BY PipelineAssumption DEF LifecycleTypeOK
    <3> QED BY <2>2, <3>1, <3>2 DEF LifecycleTypeOK
  <2> QED BY <2>1, <2>2
<1>2. stream_generation_' \in Nat /\ stream_generation_' > stream_generation_
  BY DEF SetSubActive, LifecycleTypeOK
<1>3. stream_generation_ \in Nat /\ streamWorker \in StreamWorkers(stream_generation_)
  BY DEF LifecycleTypeOK, StreamWorkers
<1>4. /\ streamWorker' \in StreamWorkers(stream_generation_')
      /\ streamWorker'.at = streamWorker.at /\ streamWorker'.generation = streamWorker.generation
  BY <1>2, <1>3, NotifiedWorker, GenerationGrows DEF SetSubActive
<1>5. LifecycleTypeOK'
  <2>1. aiWorker' = aiWorker /\ phase' = phase /\ yolov8_' = yolov8_
        /\ ai_stream_required_' = ai_stream_required_ /\ ai_generation_' = ai_generation_
        /\ touched' = touched \cup {Sub}
    BY DEF SetSubActive
  <2>2. sub_stream_required_' \in BOOLEAN
    BY DEF SetSubActive
  <2> QED BY <1>1, <1>2, <1>4, <2>1, <2>2 DEF LifecycleTypeOK, StreamWorkers
<1>6. StoppedIsQuiet'
  BY DEF SetSubActive, StoppedIsQuiet, running_
<1>7. RequiredSubRuns'
  <2> SUFFICES ASSUME faults' = 0
               PROVE  /\ sub_stream_required_' => sub'.running
                      /\ sub'.running = sub'.encoding /\ capturing'
    BY DEF RequiredSubRuns
  <2>1. faults = 0 /\ ok
    BY <1>1 DEF LifecycleTypeOK
  <2>2. sub.running = sub.encoding /\ capturing
    BY <2>1 DEF SetSubActive, RequiredSubRuns
  <2> QED BY <1>1, <2>1, <2>2 DEF SetSubActive
<1>8. FailedStartIsStale'
  <2>1. faults' = 0 => faults = 0
    BY <1>1 DEF LifecycleTypeOK
  <2> QED BY <2>1 DEF SetSubActive, FailedStartIsStale, running_
<1>9. TouchedIsSeen'
  <2>1. stream_generation_' # streamWorker'.generation
    BY <1>2, <1>3, <1>4 DEF StreamWorkers
  <2>2. Ai \in touched' => Ai \in touched
    BY PipelineAssumption DEF SetSubActive
  <2> QED BY <2>1, <2>2 DEF SetSubActive, TouchedIsSeen
<1> QED BY <1>5, <1>6, <1>7, <1>8, <1>9

LEMMA SetAiActiveInv ==
  ASSUME LifecycleInv, NEW active \in BOOLEAN, NEW ok \in BOOLEAN, SetAiActive(active, ok)
  PROVE  LifecycleInv'
<1> USE DEF LifecycleInv
<1>1. ai_generation_' \in Nat /\ ai_generation_' > ai_generation_
  BY DEF SetAiActive, LifecycleTypeOK
<1>2. ai_generation_ \in Nat /\ aiWorker \in AiWorkers(ai_generation_)
  BY DEF LifecycleTypeOK, AiWorkers
<1>3. /\ aiWorker' \in AiWorkers(ai_generation_')
      /\ aiWorker'.at = aiWorker.at /\ aiWorker'.generation = aiWorker.generation
  BY <1>1, <1>2, NotifiedWorker, GenerationGrows DEF SetAiActive
<1>4. ai_generation_' # aiWorker'.generation
  BY <1>1, <1>2, <1>3 DEF AiWorkers
<1>5. LifecycleTypeOK'
  BY <1>1, <1>3 DEF SetAiActive, LifecycleTypeOK, AiWorkers
<1>6. StoppedIsQuiet' /\ RequiredSubRuns'
  BY DEF SetAiActive, StoppedIsQuiet, RequiredSubRuns, running_
<1>7. FailedStartIsStale'
  BY <1>4 DEF FailedStartIsStale
<1>8. TouchedIsSeen'
  <2>1. Sub \in touched' => Sub \in touched
    BY PipelineAssumption DEF SetAiActive
  <2> QED BY <1>4, <2>1 DEF SetAiActive, TouchedIsSeen
<1> QED BY <1>5, <1>6, <1>7, <1>8

-----------------------------------------------------------------------------
(* A step of the sub stream's worker changes its place and, when the idle  *)
(* time is up undisturbed, the encoder.                                    *)
LEMMA StreamWorkerInv ==
  ASSUME LifecycleInv, StreamWorkerStep
  PROVE  LifecycleInv' /\ UNCHANGED <<phase, sub_stream_required_, ai_stream_required_>>
<1> USE DEF LifecycleInv
<1>a. /\ stream_generation_ \in Nat /\ streamWorker \in StreamWorkers(stream_generation_)
      /\ stream_generation_ \in 0..stream_generation_
  BY DEF LifecycleTypeOK, StreamWorkers
<1>b. UNCHANGED <<phase, sub_stream_required_, stream_generation_, ai_stream_required_,
                  ai_generation_, yolov8_, aiWorker>>
  BY DEF StreamWorkerStep, StreamAwaitRelease, StreamIdleWoken, StreamIdleTimeout,
     StreamAwaitDemand
<1>c. streamWorker.at # "exited" /\ phase # "stopped"
  BY DEF StreamWorkerStep, StreamAwaitRelease, StreamIdleWoken, StreamIdleTimeout,
     StreamAwaitDemand, StoppedIsQuiet
<1>1. streamWorker' \in StreamWorkers(stream_generation_)
  <2>1. CASE StreamAwaitRelease
    <3>1. [at |-> "idle", awake |-> FALSE, generation |-> stream_generation_]
             \in StreamWorkers(stream_generation_)
      BY <1>a DEF StreamWorkers
    <3> QED BY <1>a, <2>1, <3>1, PlacedWorker DEF StreamAwaitRelease
  <2>2. CASE StreamIdleWoken
    <3>1. FALSE \in BOOLEAN
      OBVIOUS
    <3>2. [streamWorker EXCEPT !.awake = FALSE] \in StreamWorkers(stream_generation_)
      BY <1>a, <3>1, SetAwake DEF StreamWorkers
    <3> QED BY <1>a, <2>2, <3>2, PlacedWorker DEF StreamIdleWoken
  <2>3. CASE StreamIdleTimeout
    BY <1>a, <2>3, PlacedWorker DEF StreamIdleTimeout
  <2>4. CASE StreamAwaitDemand
    BY <1>a, <2>4, PlacedWorker DEF StreamAwaitDemand
  <2> QED BY <2>1, <2>2, <2>3, <2>4 DEF StreamWorkerStep
<1>2. \/ sub' = sub /\ capturing' = capturing /\ faults' = faults
      \/ /\ \E ok \in BOOLEAN : set_sub_stream_enabled(FALSE, ok)
         /\ ~StreamDisturbed
  BY DEF StreamWorkerStep, StreamAwaitRelease, StreamIdleWoken, StreamIdleTimeout,
     StreamAwaitDemand
<1>3. /\ sub' \in [running : BOOLEAN, encoding : BOOLEAN] /\ capturing' \in BOOLEAN
      /\ faults' \in 0..FaultBound /\ faults <= faults'
      /\ faults' = 0 => /\ capturing' = capturing
                        /\ sub.running = sub.encoding => sub'.running = sub'.encoding
                        /\ sub_stream_required_ => sub' = sub
  <2>1. CASE sub' = sub /\ capturing' = capturing /\ faults' = faults
    <3>1. faults \in 0..FaultBound /\ FaultBound \in Nat
      BY PipelineAssumption DEF LifecycleTypeOK
    <3> QED BY <2>1, <3>1 DEF LifecycleTypeOK
  <2>2. CASE (\E ok \in BOOLEAN : set_sub_stream_enabled(FALSE, ok)) /\ ~StreamDisturbed
    <3>1. PICK ok \in BOOLEAN : set_sub_stream_enabled(FALSE, ok)
      BY <2>2
    <3>2. ~sub_stream_required_
      BY <2>2 DEF StreamDisturbed
    <3> QED BY <3>1, <3>2, SetSubStreamEnabled
  <2> QED BY <1>2, <2>1, <2>2
<1>4. touched' \in SUBSET {Sub, Ai} /\ (Ai \in touched' => Ai \in touched)
  BY DEF LifecycleTypeOK, StreamWorkerStep, StreamAwaitRelease, StreamIdleWoken,
     StreamIdleTimeout, StreamAwaitDemand
<1>5. LifecycleTypeOK'
  BY <1>b, <1>1, <1>3, <1>4 DEF LifecycleTypeOK, StreamWorkers
<1>6. StoppedIsQuiet'
  BY <1>b, <1>c DEF StoppedIsQuiet
<1>7. RequiredSubRuns'
  <2> SUFFICES ASSUME running_, faults' = 0
               PROVE  /\ sub_stream_required_ => sub'.running
                      /\ sub'.running = sub'.encoding /\ capturing'
    BY <1>b DEF RequiredSubRuns, running_
  <2>1. faults = 0
    BY <1>3 DEF LifecycleTypeOK
  <2> QED BY <1>3, <2>1 DEF RequiredSubRuns
<1>8. FailedStartIsStale'
  <2>1. faults' = 0 => faults = 0
    BY <1>3 DEF LifecycleTypeOK
  <2> QED BY <1>b, <2>1 DEF FailedStartIsStale, running_
<1>9. TouchedIsSeen'
  <2>1. streamWorker'.at = "idle" /\ Sub \in touched' =>
           stream_generation_ # streamWorker'.generation
    <3>1. CASE StreamAwaitRelease
      BY <1>a, <3>1, PlacedWorker DEF StreamAwaitRelease
    <3>2. CASE StreamIdleWoken
      <4>1. CASE StreamDisturbed
        BY <1>a, <3>2, <4>1, PlacedWorker DEF StreamIdleWoken
      <4>2. CASE ~StreamDisturbed
        <5>1. FALSE \in BOOLEAN
          OBVIOUS
        <5>2. streamWorker'.at = streamWorker.at
              /\ streamWorker'.generation = streamWorker.generation /\ touched' = touched
          BY <1>a, <3>2, <4>2, <5>1, SetAwake DEF StreamIdleWoken, StreamWorkers
        <5> QED BY <5>2 DEF TouchedIsSeen
      <4> QED BY <4>1, <4>2
    <3>3. CASE StreamIdleTimeout \/ StreamAwaitDemand
      BY <1>a, <3>3, PlacedWorker DEF StreamIdleTimeout, StreamAwaitDemand
    <3> QED BY <3>1, <3>2, <3>3 DEF StreamWorkerStep
  <2> QED BY <1>b, <1>4, <2>1 DEF TouchedIsSeen
<1> QED BY <1>b, <1>5, <1>6, <1>7, <1>8, <1>9

(* The AI worker's step leaves the sub stream alone; it gives a wish up    *)
(* only when a device call has failed.                                     *)
LEMMA AiWorkerInv ==
  ASSUME LifecycleInv, AiWorkerStep
  PROVE  /\ LifecycleInv'
         /\ UNCHANGED <<phase, sub_stream_required_>>
         /\ running_ /\ faults' = 0 => UNCHANGED ai_stream_required_
<1> USE DEF LifecycleInv
<1>a. /\ ai_generation_ \in Nat /\ aiWorker \in AiWorkers(ai_generation_)
      /\ ai_generation_ \in 0..ai_generation_
  BY DEF LifecycleTypeOK, AiWorkers
<1>b. UNCHANGED <<phase, sub_stream_required_, stream_generation_, streamWorker, sub, capturing>>
  BY DEF AiWorkerStep, AiAwaitWork, AiStartBegin, AiLoad, AiInstall, AiStartFailed,
     AiIdleWoken, AiIdleTimeout
<1>c. aiWorker.at # "exited" /\ phase # "stopped"
  BY DEF AiWorkerStep, AiAwaitWork, AiStartBegin, AiLoad, AiInstall, AiStartFailed,
     AiIdleWoken, AiIdleTimeout, StoppedIsQuiet
<1>d. faults' \in 0..FaultBound /\ faults <= faults' /\ (faults' = 0 => faults' = faults)
  <2>1. faults \in 0..FaultBound /\ FaultBound \in Nat
    BY PipelineAssumption DEF LifecycleTypeOK
  <2>2. faults' = faults \/ (faults < FaultBound /\ faults' = faults + 1)
    BY DEF AiWorkerStep, AiAwaitWork, AiStartBegin, AiLoad, AiInstall, AiStartFailed,
       AiIdleWoken, AiIdleTimeout
  <2> QED BY <2>1, <2>2
<1>e. touched' \in SUBSET {Sub, Ai} /\ (Sub \in touched' => Sub \in touched)
  BY PipelineAssumption DEF LifecycleTypeOK, AiWorkerStep, AiAwaitWork, AiStartBegin, AiLoad,
     AiInstall, AiStartFailed, AiIdleWoken, AiIdleTimeout
<1>f. yolov8_' \in BOOLEAN
  BY DEF LifecycleTypeOK, AiWorkerStep, AiAwaitWork, AiStartBegin, AiLoad, AiInstall,
     AiStartFailed, AiIdleWoken, AiIdleTimeout
(* What each step does to the worker itself, the wish and the generation. *)
<1>1. /\ ai_generation_' \in Nat
      /\ aiWorker' \in AiWorkers(ai_generation_')
      /\ ai_stream_required_' \in BOOLEAN
      /\ running_ /\ faults' = 0 => ai_stream_required_' = ai_stream_required_
      /\ aiWorker'.at = "failed" /\ running_ /\ faults' = 0 =>
            ~ai_stream_required_' \/ ai_generation_' # aiWorker'.generation \/ yolov8_'
      /\ aiWorker'.at = "idle" /\ Ai \in touched' => ai_generation_' # aiWorker'.generation
  <2>1. CASE AiAwaitWork
    <3>1. UNCHANGED <<ai_generation_, ai_stream_required_>>
      BY <2>1 DEF AiAwaitWork
    <3>2. aiWorker' \in AiWorkers(ai_generation_) /\ aiWorker'.at # "failed"
          /\ (aiWorker'.at = "idle" => Ai \notin touched')
      <4>1. /\ [at |-> "start", awake |-> TRUE, generation |-> ai_generation_]
                  \in AiWorkers(ai_generation_)
            /\ [at |-> "idle", awake |-> FALSE, generation |-> ai_generation_]
                  \in AiWorkers(ai_generation_)
        BY <1>a DEF AiWorkers
      <4>2. \/ aiWorker' \in {Asleep("exited"), Asleep("wait")}
            \/ aiWorker' = [at |-> "start", awake |-> TRUE, generation |-> ai_generation_]
            \/ /\ aiWorker' = [at |-> "idle", awake |-> FALSE, generation |-> ai_generation_]
               /\ touched' = touched \ {Ai}
        BY <2>1 DEF AiAwaitWork
      <4>3. \A p \in {"exited", "wait"} :
               Asleep(p) \in AiWorkers(ai_generation_) /\ Asleep(p).at = p
        BY <1>a, PlacedWorker
      <4>4. CASE aiWorker' \in {Asleep("exited"), Asleep("wait")}
        BY <4>3, <4>4
      <4>5. CASE aiWorker' = [at |-> "start", awake |-> TRUE, generation |-> ai_generation_]
        BY <4>1, <4>5
      <4>6. CASE /\ aiWorker' = [at |-> "idle", awake |-> FALSE, generation |-> ai_generation_]
                 /\ touched' = touched \ {Ai}
        BY <4>1, <4>6
      <4> QED BY <4>2, <4>4, <4>5, <4>6
    <3> QED BY <1>a, <3>1, <3>2 DEF LifecycleTypeOK
  <2>2. CASE AiStartBegin
    <3>1. UNCHANGED <<ai_generation_, ai_stream_required_, yolov8_>>
      BY <2>2 DEF AiStartBegin
    <3>2. /\ aiWorker' \in AiWorkers(ai_generation_)
          /\ aiWorker'.at = (IF AiStartStale THEN "failed" ELSE "loading")
          /\ aiWorker'.generation = aiWorker.generation
      BY <1>a, <2>2, SetPlace DEF AiStartBegin, AiWorkers
    <3>3. aiWorker'.at = "failed" /\ running_ =>
             ~ai_stream_required_' \/ ai_generation_' # aiWorker'.generation \/ yolov8_'
      BY <3>1, <3>2 DEF AiStartStale, worker_stop_, running_
    <3> QED BY <1>a, <3>1, <3>2, <3>3 DEF LifecycleTypeOK
  <2>3. CASE AiLoad
    <3>1. UNCHANGED <<ai_generation_, ai_stream_required_>>
      BY <2>3 DEF AiLoad
    <3>2. /\ aiWorker' \in AiWorkers(ai_generation_)
          /\ \/ aiWorker'.at = "loaded"
             \/ aiWorker'.at = "failed" /\ faults' = faults + 1
      BY <1>a, <2>3, SetPlace DEF AiLoad, AiWorkers
    <3>3. faults' = faults + 1 => faults' # 0
      BY <1>d DEF LifecycleTypeOK
    <3> QED BY <1>a, <3>1, <3>2, <3>3 DEF LifecycleTypeOK
  <2>4. CASE AiInstall
    <3>1. UNCHANGED <<ai_generation_, ai_stream_required_>>
      BY <2>4 DEF AiInstall
    <3>2. CASE AiStartStale
      <4>1. /\ aiWorker' \in AiWorkers(ai_generation_) /\ aiWorker'.at = "failed"
            /\ aiWorker'.generation = aiWorker.generation
        BY <1>a, <2>4, <3>2, SetPlace DEF AiInstall, AiWorkers
      <4>2. yolov8_' = yolov8_
        BY <2>4, <3>2 DEF AiInstall, LifecycleTypeOK
      <4> QED BY <1>a, <3>1, <3>2, <4>1, <4>2 DEF LifecycleTypeOK, AiStartStale, worker_stop_,
                 running_
    <3>3. CASE ~AiStartStale
      <4>1. aiWorker' \in AiWorkers(ai_generation_) /\ aiWorker'.at = "wait"
        BY <1>a, <2>4, <3>3, PlacedWorker DEF AiInstall
      <4> QED BY <1>a, <3>1, <4>1 DEF LifecycleTypeOK
    <3> QED BY <3>2, <3>3
  <2>5. CASE AiStartFailed
    <3>1. ai_generation_' \in Nat /\ ai_stream_required_' \in BOOLEAN
      BY <1>a, <2>5 DEF AiStartFailed, LifecycleTypeOK
    <3>2. aiWorker' \in AiWorkers(ai_generation_') /\ aiWorker'.at = "wait"
      BY <2>5, <3>1, PlacedWorker DEF AiStartFailed
    <3>3. running_ /\ faults' = 0 => ai_stream_required_' = ai_stream_required_
      BY <1>d, <2>5 DEF AiStartFailed, FailedStartIsStale, LifecycleTypeOK
    <3> QED BY <3>1, <3>2, <3>3
  <2>6. CASE AiIdleWoken
    <3>1. UNCHANGED <<ai_generation_, ai_stream_required_, touched>>
      BY <2>6 DEF AiIdleWoken
    <3>2. CASE AiDisturbed
      <4>1. aiWorker' \in AiWorkers(ai_generation_) /\ aiWorker'.at = "wait"
        BY <1>a, <2>6, <3>2, PlacedWorker DEF AiIdleWoken
      <4> QED BY <1>a, <3>1, <4>1 DEF LifecycleTypeOK
    <3>3. CASE ~AiDisturbed
      <4>1. FALSE \in BOOLEAN
        OBVIOUS
      <4>2. /\ aiWorker' \in AiWorkers(ai_generation_) /\ aiWorker'.at = "idle"
            /\ aiWorker'.generation = aiWorker.generation
        BY <1>a, <2>6, <3>3, <4>1, SetAwake DEF AiIdleWoken, AiWorkers
      <4> QED BY <1>a, <2>6, <3>1, <4>2 DEF LifecycleTypeOK, AiIdleWoken, TouchedIsSeen
    <3> QED BY <3>2, <3>3
  <2>7. CASE AiIdleTimeout
    <3>1. UNCHANGED <<ai_generation_, ai_stream_required_>>
      BY <2>7 DEF AiIdleTimeout
    <3>2. aiWorker' \in AiWorkers(ai_generation_) /\ aiWorker'.at = "wait"
      BY <1>a, <2>7, PlacedWorker DEF AiIdleTimeout
    <3> QED BY <1>a, <3>1, <3>2 DEF LifecycleTypeOK
  <2> QED BY <2>1, <2>2, <2>3, <2>4, <2>5, <2>6, <2>7 DEF AiWorkerStep
<1>2. LifecycleTypeOK'
  BY <1>b, <1>d, <1>e, <1>f, <1>1 DEF LifecycleTypeOK, AiWorkers
<1>3. StoppedIsQuiet'
  BY <1>b, <1>c DEF StoppedIsQuiet
<1>4. RequiredSubRuns'
  BY <1>b, <1>d DEF RequiredSubRuns, running_
<1>5. FailedStartIsStale'
  BY <1>b, <1>1 DEF FailedStartIsStale, running_
<1>6. TouchedIsSeen'
  BY <1>b, <1>e, <1>1 DEF TouchedIsSeen
<1> QED BY <1>b, <1>1, <1>2, <1>3, <1>4, <1>5, <1>6

LEMMA StartInv ==
  ASSUME LifecycleInv, start
  PROVE  LifecycleInv'
<1> USE DEF LifecycleInv, start
<1>1. stream_generation_' \in Nat /\ ai_generation_' \in Nat
  BY DEF LifecycleTypeOK
<1>2. streamWorker' \in StreamWorkers(stream_generation_') /\ streamWorker'.at = "release"
  BY <1>1, PlacedWorker
<1>3. aiWorker' \in AiWorkers(ai_generation_') /\ aiWorker'.at \in {"wait", "exited"}
  <2>1. /\ \A p \in {"wait", "exited"} : Asleep(p) \in AiWorkers(ai_generation_') /\ Asleep(p).at = p
        /\ \A p \in {"wait", "exited"} : Running(p) \in AiWorkers(ai_generation_') /\ Running(p).at = p
    BY <1>1, PlacedWorker
  <2> QED BY <2>1
<1>4. /\ sub' \in [running : BOOLEAN, encoding : BOOLEAN]
      /\ sub'.running = SubAtBoot /\ sub'.encoding = SubAtBoot
  BY PipelineAssumption
<1>5. sub_stream_required_' \in BOOLEAN /\ ai_stream_required_' \in BOOLEAN
  BY PipelineAssumption
<1>f. /\ capturing' \in BOOLEAN /\ faults' \in 0..FaultBound
      /\ faults' = 0 => capturing'
  <2>1. faults \in 0..FaultBound /\ capturing \in BOOLEAN /\ FaultBound \in Nat
    BY PipelineAssumption DEF LifecycleTypeOK
  <2>2. CASE capturing' = TRUE /\ UNCHANGED faults
    BY <2>1, <2>2
  <2>3. CASE faults < FaultBound /\ faults' = faults + 1 /\ UNCHANGED capturing
    <3>1. faults' \in 0..FaultBound /\ faults' # 0
      BY <2>1, <2>3
    <3> QED BY <2>1, <2>3, <3>1
  <2> QED BY <2>2, <2>3
<1>p. /\ phase' = "running" /\ yolov8_' = yolov8_ /\ touched' = touched
      /\ yolov8_ \in BOOLEAN /\ touched \in SUBSET {Sub, Ai}
      /\ sub_stream_required_' = SubAtBoot
  BY DEF LifecycleTypeOK
<1> HIDE DEF start, LifecycleInv
<1>6. LifecycleTypeOK'
  BY <1>1, <1>2, <1>3, <1>4, <1>5, <1>f, <1>p DEF LifecycleTypeOK, StreamWorkers, AiWorkers
<1>7. StoppedIsQuiet' /\ FailedStartIsStale' /\ TouchedIsSeen'
  BY <1>2, <1>3, <1>p DEF StoppedIsQuiet, FailedStartIsStale, TouchedIsSeen
<1>8. RequiredSubRuns'
  BY <1>4, <1>f, <1>p DEF RequiredSubRuns, running_
<1> QED BY <1>6, <1>7, <1>8 DEF LifecycleInv

LEMMA StopRequestInv ==
  ASSUME LifecycleInv, StopRequest
  PROVE  LifecycleInv'
<1> USE DEF LifecycleInv, StopRequest
<1>1. /\ stream_generation_' \in Nat /\ stream_generation_' > stream_generation_
      /\ ai_generation_' \in Nat /\ ai_generation_' > ai_generation_
  BY DEF LifecycleTypeOK
<1>2. /\ stream_generation_ \in Nat /\ streamWorker \in StreamWorkers(stream_generation_)
      /\ ai_generation_ \in Nat /\ aiWorker \in AiWorkers(ai_generation_)
  BY DEF LifecycleTypeOK, StreamWorkers, AiWorkers
<1>3. /\ streamWorker' \in StreamWorkers(stream_generation_')
      /\ streamWorker'.generation = streamWorker.generation
  BY <1>1, <1>2, NotifiedWorker, GenerationGrows
<1>4. /\ aiWorker' \in AiWorkers(ai_generation_')
      /\ aiWorker'.generation = aiWorker.generation
  BY <1>1, <1>2, NotifiedWorker, GenerationGrows
<1>5. LifecycleTypeOK'
  BY <1>1, <1>3, <1>4 DEF LifecycleTypeOK, StreamWorkers, AiWorkers
<1>6. StoppedIsQuiet' /\ RequiredSubRuns' /\ FailedStartIsStale'
  BY DEF StoppedIsQuiet, RequiredSubRuns, FailedStartIsStale, running_
<1>7. /\ stream_generation_' # streamWorker'.generation
      /\ ai_generation_' # aiWorker'.generation
  BY <1>1, <1>2, <1>3, <1>4 DEF StreamWorkers, AiWorkers
<1>8. TouchedIsSeen'
  BY <1>7 DEF TouchedIsSeen
<1> QED BY <1>5, <1>6, <1>8

LEMMA StopTeardownInv ==
  ASSUME LifecycleInv, StopTeardown
  PROVE  LifecycleInv'
<1> USE DEF LifecycleInv, StopTeardown
<1>1. sub' \in [running : BOOLEAN, encoding : BOOLEAN] /\ ~sub'.encoding
  OBVIOUS
<1>2. LifecycleTypeOK'
  BY <1>1 DEF LifecycleTypeOK
<1>3. StoppedIsQuiet'
  BY <1>1 DEF StoppedIsQuiet
<1>4. RequiredSubRuns' /\ FailedStartIsStale' /\ TouchedIsSeen'
  BY DEF RequiredSubRuns, FailedStartIsStale, TouchedIsSeen, running_
<1> QED BY <1>2, <1>3, <1>4

LEMMA SetStreamActiveInv ==
  ASSUME LifecycleInv, NEW s, NEW active \in BOOLEAN, NEW ok \in BOOLEAN,
         set_stream_active(s, active, ok)
  PROVE  LifecycleInv'
<1>1. CASE SetSubActive(active, ok)
  BY <1>1, SetSubActiveInv
<1>2. CASE SetAiActive(active, ok)
  BY <1>2, SetAiActiveInv
<1>3. CASE UNCHANGED lifecycleVars
  BY <1>3 DEF lifecycleVars, LifecycleInv, LifecycleTypeOK, StoppedIsQuiet, RequiredSubRuns,
     FailedStartIsStale, TouchedIsSeen, running_
<1> QED BY <1>1, <1>2, <1>3 DEF set_stream_active

-----------------------------------------------------------------------------
(* Source and device together. *)

(* What a running pipeline without failures has been asked for, by the     *)
(* source's own book, it wants; what it wants was asked for or is wanted   *)
(* at boot.                                                                *)
WishFollowsDemand ==
    running_ /\ faults = 0 =>
        /\ demanded[Sub] => sub_stream_required_
        /\ sub_stream_required_ => demanded[Sub] \/ SubAtBoot
        /\ demanded[Ai] => ai_stream_required_
        /\ ai_stream_required_ => demanded[Ai] \/ AiAtBoot

(* Clients come after the device has been started. *)
OffIsUnused ==
    phase = "off" => /\ \A c \in Clients : at[c] = "idle"
                     /\ \A s \in Streams : ~demanded[s]

(* A stream switched off in the configuration is never granted. *)
DisabledIsRefused == demanded[Ai] => AiEnabled

PathInv ==
    SourceInv /\ LifecycleInv /\ WishFollowsDemand /\ OffIsUnused /\ DisabledIsRefused

LEMMA PathInitInv == Init => PathInv
<1> SUFFICES ASSUME Init PROVE PathInv
  OBVIOUS
<1>1. SourceInv /\ LifecycleInv
  BY SourceInitInv, LifecycleInitInv DEF Init
<1>2. WishFollowsDemand /\ OffIsUnused /\ DisabledIsRefused
  BY PathAssumption DEF Init, SourceInit, LifecycleInit, WishFollowsDemand, OffIsUnused, running_,
     DisabledIsRefused
<1> QED BY <1>1, <1>2 DEF PathInv

(* The handler's call moves demand and wish together. *)
LEMMA DemandStep ==
  ASSUME PathInv, NEW c \in Clients, Demand(c)
  PROVE  PathInv'
<1>1. PICK ok \in BOOLEAN : SubscribeDemand(c, ok) /\ set_stream_active(stream[c], TRUE, ok)
  BY DEF Demand
<1>2. SourceInv' /\ LifecycleInv'
  BY <1>1, SubscribeDemandInv, SetStreamActiveInv DEF PathInv
<1>3. /\ stream[c] \in Streams /\ Sub \in Streams /\ Ai \in Streams /\ Sub # Ai
      /\ demanded \in [Streams -> BOOLEAN]
  BY PathAssumption, PipelineAssumption DEF PathInv, SourceInv, SourceTypeOK
<1>4. /\ demanded'[stream[c]] = ok
      /\ \A s \in Streams : s # stream[c] => demanded'[s] = demanded[s]
  BY <1>1, <1>3 DEF SubscribeDemand
<1>5. phase' = phase /\ phase # "off"
  BY <1>1 DEF set_stream_active, SetSubActive, SetAiActive, lifecycleVars, SubscribeDemand,
     PathInv, OffIsUnused
<1>6. OffIsUnused'
  BY <1>5 DEF OffIsUnused
<1>7. WishFollowsDemand'
  <2> SUFFICES ASSUME running_, faults' = 0
               PROVE  /\ demanded'[Sub] => sub_stream_required_'
                      /\ sub_stream_required_' => demanded'[Sub] \/ SubAtBoot
                      /\ demanded'[Ai] => ai_stream_required_'
                      /\ ai_stream_required_' => demanded'[Ai] \/ AiAtBoot
    BY <1>5 DEF WishFollowsDemand, running_
  <2>1. CASE stream[c] = Sub /\ SetSubActive(TRUE, ok)
    <3>1. set_sub_stream_enabled(TRUE, ok)
      BY <2>1 DEF SetSubActive
    <3>2. ok /\ faults = 0
      <4>1. LifecycleTypeOK /\ faults \in 0..FaultBound /\ FaultBound \in Nat
        BY PipelineAssumption DEF PathInv, LifecycleInv, LifecycleTypeOK
      <4>2. TRUE \in BOOLEAN
        OBVIOUS
      <4>3. faults <= faults' /\ (faults' = 0 => ok)
        BY <3>1, <4>1, <4>2, SetSubStreamEnabled
      <4> QED BY <4>1, <4>3
    <3>3. sub_stream_required_' /\ demanded'[Sub] /\ ai_stream_required_' = ai_stream_required_
      BY <1>4, <2>1, <3>2 DEF SetSubActive
    <3> QED BY <1>3, <1>4, <2>1, <3>2, <3>3 DEF PathInv, WishFollowsDemand
  <2>2. CASE stream[c] = Ai /\ SetAiActive(TRUE, ok)
    <3>1. ai_stream_required_' /\ ok /\ sub_stream_required_' = sub_stream_required_
          /\ faults' = faults
      BY <2>2 DEF SetAiActive
    <3> QED BY <1>3, <1>4, <2>2, <3>1 DEF PathInv, WishFollowsDemand
  <2>3. CASE stream[c] = Ai /\ ~AiEnabled /\ ~ok /\ UNCHANGED lifecycleVars
    <3>1. ~demanded[Ai]
      <4>1. \A d \in Clients : d # c => at[d] \notin {"add", "release"}
        BY <1>1, SourceAssumption DEF PathInv, SourceInv, OneCallAtATime, SubscribeDemand
      <4>2. at[c] = "demand" /\ subscribers[Ai] = {}
        BY <1>1, <2>3 DEF PathInv, SourceInv, DemandInv, SubscribeDemand
      <4> QED BY <1>3, <4>1, <4>2 DEF PathInv, SourceInv, DemandInv
    <3>2. demanded'[Ai] = demanded[Ai] /\ demanded'[Sub] = demanded[Sub]
      BY <1>3, <1>4, <2>3, <3>1
    <3> QED BY <2>3, <3>2 DEF lifecycleVars, PathInv, WishFollowsDemand
  <2>4. CASE stream[c] \notin {Sub, Ai} /\ UNCHANGED lifecycleVars
    BY <1>3, <1>4, <2>4 DEF lifecycleVars, PathInv, WishFollowsDemand
  <2> QED BY <1>1, <2>1, <2>2, <2>3, <2>4 DEF set_stream_active
<1>8. DisabledIsRefused'
  BY <1>1, <1>3, <1>4 DEF set_stream_active, SetAiActive, PathInv, DisabledIsRefused
<1> QED BY <1>2, <1>6, <1>7, <1>8 DEF PathInv

LEMMA ReleaseStep ==
  ASSUME PathInv, NEW c \in Clients, Release(c)
  PROVE  PathInv'
<1>1. PICK ok \in BOOLEAN : UnsubscribeDemand(c) /\ set_stream_active(stream[c], FALSE, ok)
  BY DEF Release
<1>2. SourceInv' /\ LifecycleInv'
  BY <1>1, UnsubscribeDemandInv, SetStreamActiveInv DEF PathInv
<1>3. /\ stream[c] \in Streams /\ Sub \in Streams /\ Ai \in Streams /\ Sub # Ai
      /\ demanded \in [Streams -> BOOLEAN]
  BY PathAssumption, PipelineAssumption DEF PathInv, SourceInv, SourceTypeOK
<1>4. /\ ~demanded'[stream[c]]
      /\ \A s \in Streams : s # stream[c] => demanded'[s] = demanded[s]
  BY <1>1, <1>3 DEF UnsubscribeDemand
<1>5. phase' = phase /\ phase # "off"
  BY <1>1 DEF set_stream_active, SetSubActive, SetAiActive, lifecycleVars, UnsubscribeDemand,
     PathInv, OffIsUnused
<1>6. OffIsUnused'
  BY <1>5 DEF OffIsUnused
<1>7. WishFollowsDemand'
  <2> SUFFICES ASSUME running_, faults' = 0
               PROVE  /\ demanded'[Sub] => sub_stream_required_'
                      /\ sub_stream_required_' => demanded'[Sub] \/ SubAtBoot
                      /\ demanded'[Ai] => ai_stream_required_'
                      /\ ai_stream_required_' => demanded'[Ai] \/ AiAtBoot
    BY <1>5 DEF WishFollowsDemand, running_
  <2>1. CASE stream[c] = Sub /\ SetSubActive(FALSE, ok)
    <3>1. ~sub_stream_required_' /\ ai_stream_required_' = ai_stream_required_ /\ faults' = faults
      BY <2>1 DEF SetSubActive
    <3> QED BY <1>3, <1>4, <2>1, <3>1 DEF PathInv, WishFollowsDemand
  <2>2. CASE stream[c] = Ai /\ SetAiActive(FALSE, ok)
    <3>1. ~ai_stream_required_' /\ sub_stream_required_' = sub_stream_required_
          /\ faults' = faults
      BY <2>2 DEF SetAiActive
    <3> QED BY <1>3, <1>4, <2>2, <3>1 DEF PathInv, WishFollowsDemand
  <2>3. CASE stream[c] = Ai /\ ~AiEnabled /\ UNCHANGED lifecycleVars
    <3>1. demanded[Ai]
      BY <1>1, <1>3, <2>3 DEF PathInv, SourceInv, DemandInv, UnsubscribeDemand
    <3> QED BY <2>3, <3>1 DEF PathInv, DisabledIsRefused
  <2>4. CASE stream[c] \notin {Sub, Ai} /\ UNCHANGED lifecycleVars
    BY <1>3, <1>4, <2>4 DEF lifecycleVars, PathInv, WishFollowsDemand
  <2> QED BY <1>1, <2>1, <2>2, <2>3, <2>4 DEF set_stream_active
<1>8. DisabledIsRefused'
  BY <1>3, <1>4 DEF PathInv, DisabledIsRefused
<1> QED BY <1>2, <1>6, <1>7, <1>8 DEF PathInv

(* Steps that leave demand and wish alone. *)
LEMMA QuietStep ==
  ASSUME PathInv, SourceInv', LifecycleInv', UNCHANGED <<demanded, phase>>,
         phase = "off" => \A c \in Clients : at'[c] = at[c],
         running_ /\ faults' = 0 =>
            faults = 0 /\ UNCHANGED <<sub_stream_required_, ai_stream_required_>>
  PROVE  PathInv'
<1>1. WishFollowsDemand'
  BY DEF PathInv, WishFollowsDemand, running_
<1>2. OffIsUnused'
  BY DEF PathInv, OffIsUnused
<1>3. DisabledIsRefused'
  BY DEF PathInv, DisabledIsRefused
<1> QED BY <1>1, <1>2, <1>3 DEF PathInv

(* The source's own steps that do not call the handler. *)
LEMMA SourceOnlyStep ==
  ASSUME PathInv, SourceInv', UNCHANGED lifecycleVars, UNCHANGED demanded,
         phase = "off" => \A c \in Clients : at'[c] = at[c]
  PROVE  PathInv'
<1>1. LifecycleInv'
  BY DEF PathInv, lifecycleVars, LifecycleInv, LifecycleTypeOK, StoppedIsQuiet, RequiredSubRuns,
     FailedStartIsStale, TouchedIsSeen, running_
<1>2. UNCHANGED <<phase, faults, sub_stream_required_, ai_stream_required_>>
  BY DEF lifecycleVars
<1> QED BY <1>1, <1>2, QuietStep

LEMMA PathStepInv == PathInv /\ [Next]_vars => PathInv'
<1> SUFFICES ASSUME PathInv, [Next]_vars PROVE PathInv'
  OBVIOUS
<1>s. SourceInv'
  BY PathStepIsSourceStep, SourceStepInv DEF PathInv
<1>l. LifecycleInv /\ faults \in Nat
  BY DEF PathInv, LifecycleInv, LifecycleTypeOK
<1>1. CASE UNCHANGED vars
  BY <1>1, <1>s, SourceOnlyStep DEF vars, sourceVars
<1>2. ASSUME NEW s \in Streams, RegisterTrack(s) PROVE PathInv'
  BY <1>2, <1>s, SourceOnlyStep DEF RegisterTrack, set_track
<1>3. CASE StartDevice
  <2>1. LifecycleInv' /\ phase = "off" /\ phase' = "running"
    BY <1>3, <1>l, StartInv DEF StartDevice, start
  <2>2. demanded' = demanded /\ ~demanded[Sub] /\ ~demanded[Ai]
    BY <1>3, <2>1, PathAssumption DEF StartDevice, sourceVars, PathInv, OffIsUnused
  <2>3. sub_stream_required_' = SubAtBoot /\ ai_stream_required_' = (AiEnabled /\ AiAtBoot)
    BY <1>3 DEF StartDevice, start
  <2>4. WishFollowsDemand'
    BY <2>2, <2>3, PipelineAssumption DEF WishFollowsDemand
  <2>5. OffIsUnused' /\ DisabledIsRefused'
    BY <2>1, <2>2 DEF OffIsUnused, DisabledIsRefused
  <2> QED BY <1>s, <2>1, <2>4, <2>5 DEF PathInv
<1>4. ASSUME NEW c \in Clients, NEW s \in Streams, Subscribe(c, s) PROVE PathInv'
  BY <1>4, <1>s, SourceOnlyStep DEF Subscribe, SubscribeEnter
<1>5. ASSUME NEW c \in Clients, Demand(c) PROVE PathInv'
  BY <1>5, DemandStep
<1>6. ASSUME NEW c \in Clients, SubscribeReturn(c) PROVE PathInv'
  <2>1. phase # "off"
    BY <1>6 DEF SubscribeReturn, SubscribeAdd, PathInv, OffIsUnused
  <2> QED BY <1>6, <1>s, <2>1, SourceOnlyStep DEF SubscribeReturn, SubscribeAdd
<1>7. ASSUME NEW c \in Clients, UnsubscribeErase(c), UNCHANGED lifecycleVars PROVE PathInv'
  <2>1. phase # "off"
    BY <1>7 DEF UnsubscribeErase, PathInv, OffIsUnused
  <2> QED BY <1>7, <1>s, <2>1, SourceOnlyStep DEF UnsubscribeErase
<1>8. ASSUME NEW c \in Clients, Release(c) PROVE PathInv'
  BY <1>8, ReleaseStep
<1>9. CASE /\ \E p \in Publishers : PublishCall(p) \/ \E s \in Streams : PublishBegin(p, s)
           /\ UNCHANGED lifecycleVars
  BY <1>9, <1>s, SourceOnlyStep DEF PublishCall, PublishBegin
<1>10. CASE StreamWorkerStep /\ UNCHANGED sourceVars
  <2>1. LifecycleInv' /\ UNCHANGED <<phase, sub_stream_required_, ai_stream_required_>>
    BY <1>10, <1>l, StreamWorkerInv
  <2>2. faults' = 0 => faults = 0
    BY <1>10, <1>l DEF StreamWorkerStep, StreamAwaitRelease, StreamIdleWoken, StreamIdleTimeout,
       StreamAwaitDemand, set_sub_stream_enabled
  <2>3. UNCHANGED <<demanded, at>>
    BY <1>10 DEF sourceVars
  <2> QED BY <1>s, <2>1, <2>2, <2>3, QuietStep
<1>11. CASE AiWorkerStep /\ UNCHANGED sourceVars
  <2>1. /\ LifecycleInv' /\ UNCHANGED <<phase, sub_stream_required_>>
        /\ running_ /\ faults' = 0 => ai_stream_required_' = ai_stream_required_
    BY <1>11, <1>l, AiWorkerInv
  <2>2. faults' = 0 => faults = 0
    BY <1>11, <1>l DEF AiWorkerStep, AiAwaitWork, AiStartBegin, AiLoad, AiInstall, AiStartFailed,
       AiIdleWoken, AiIdleTimeout
  <2>3. UNCHANGED <<demanded, at>>
    BY <1>11 DEF sourceVars
  <2> QED BY <1>s, <2>1, <2>2, <2>3, QuietStep
<1>12. CASE StopRequest /\ UNCHANGED sourceVars
  <2>1. LifecycleInv' /\ phase' = "joining" /\ demanded' = demanded
    BY <1>12, <1>l, StopRequestInv DEF StopRequest, sourceVars
  <2> QED BY <1>s, <2>1 DEF PathInv, WishFollowsDemand, OffIsUnused, DisabledIsRefused, running_
<1>13. CASE StopTeardown /\ UNCHANGED sourceVars
  <2>1. LifecycleInv' /\ phase' = "stopped" /\ demanded' = demanded
    BY <1>13, <1>l, StopTeardownInv DEF StopTeardown, sourceVars
  <2> QED BY <1>s, <2>1 DEF PathInv, WishFollowsDemand, OffIsUnused, DisabledIsRefused, running_
<1> QED
  BY <1>1, <1>2, <1>3, <1>4, <1>5, <1>6, <1>7, <1>8, <1>9, <1>10, <1>11, <1>12, <1>13 DEF Next

LEMMA PathInvariant == Spec => []PathInv
  BY PathInitInv, PathStepInv, PTL DEF Spec

(* Every variable of source and pipeline keeps its type: no generation,    *)
(* fault count or worker record leaves its range, for any number of        *)
(* clients, publishers, streams and failing device calls.                  *)
THEOREM PathIsTyped == Spec => []PathTypeOK
<1>1. PathInv => PathTypeOK
  BY DEF PathInv, SourceInv, LifecycleInv, PathTypeOK
<1> QED BY <1>1, PathInvariant, PTL

(* set_stream_active resumes the encoder before it returns and the idle    *)
(* worker never stops it under a subscriber: while no device call has      *)
(* failed, a client whose subscribe has returned sees the sub stream       *)
(* encoded and captured.                                                   *)
THEOREM SubscribersAreServed == Spec => []SubscribedSubEncodes
<1>1. PathInv => SubscribedSubEncodes
  <2> SUFFICES ASSUME PathInv, subscribers[Sub] # {}, running_, faults = 0
               PROVE  sub.encoding /\ capturing
    BY DEF SubscribedSubEncodes
  <2>1. demanded[Sub]
    BY SourceInvImplies, PathAssumption DEF PathInv, SubscribedIsDemanded
  <2>2. sub_stream_required_
    BY <2>1 DEF PathInv, WishFollowsDemand
  <2> QED BY <2>2 DEF PathInv, LifecycleInv, RequiredSubRuns
<1> QED BY <1>1, PathInvariant, PTL

(* Source and device agree between calls: what clients subscribe to, the   *)
(* pipeline wants, and it wants nothing else but what it was told to start *)
(* at boot, although each side keeps its own book under its own mutex.     *)
THEOREM BothSidesAgree == Spec => []SidesAgree
<1>1. PathInv => SidesAgree
  <2> SUFFICES ASSUME PathInv, demand_mutex_ = NoOne, running_, faults = 0
               PROVE  /\ subscribers[Sub] # {} => sub_stream_required_
                      /\ sub_stream_required_ => subscribers[Sub] # {} \/ SubAtBoot
                      /\ subscribers[Ai] # {} => ai_stream_required_
                      /\ ai_stream_required_ => subscribers[Ai] # {} \/ AiAtBoot
    BY DEF SidesAgree
  <2>1. /\ demanded[Sub] <=> subscribers[Sub] # {}
        /\ demanded[Ai] <=> subscribers[Ai] # {}
    BY SourceInvImplies, PathAssumption DEF PathInv, DemandMatchesSubscribers
  <2> QED BY <2>1 DEF PathInv, WishFollowsDemand
<1> QED BY <1>1, PathInvariant, PTL

(* stop leaves no detector, encoder, capture or worker behind, whatever    *)
(* the workers were doing when it was called.                              *)
THEOREM StopIsQuiet == Spec => []StoppedIsQuiet
<1>1. PathInv => StoppedIsQuiet
  BY DEF PathInv, LifecycleInv
<1> QED BY <1>1, PathInvariant, PTL

(* What an undisturbed idle time ended: only then do the workers switch    *)
(* off a stream of a running pipeline, and set_sub_stream_enabled(TRUE)    *)
(* never does.                                                             *)
LEMMA IdleStep ==
  ASSUME LifecycleInv, phase = "running",
         \/ StreamWorkerStep \/ AiWorkerStep \/ StopRequest \/ UNCHANGED lifecycleVars
         \/ \E s \in Streams, active \in BOOLEAN, ok \in BOOLEAN : set_stream_active(s, active, ok)
  PROVE  /\ sub.running /\ ~sub'.running => Sub \notin touched
         /\ yolov8_ /\ ~yolov8_' => Ai \notin touched
<1> USE DEF LifecycleInv
<1>1. CASE UNCHANGED <<sub, yolov8_>>
  BY <1>1
<1>2. CASE StreamIdleTimeout
  <2>1. yolov8_' = yolov8_
    BY <1>2 DEF StreamIdleTimeout
  <2>2. CASE StreamDisturbed
    BY <1>2, <2>1, <2>2 DEF StreamIdleTimeout
  <2>3. CASE ~StreamDisturbed
    <3>1. streamWorker.at = "idle" /\ stream_generation_ = streamWorker.generation
      BY <1>2, <2>3 DEF StreamIdleTimeout, StreamDisturbed
    <3>2. Sub \notin touched
      BY <3>1 DEF TouchedIsSeen
    <3> QED BY <2>1, <3>2
  <2> QED BY <2>2, <2>3
<1>3. CASE AiIdleTimeout
  <2>1. sub' = sub
    BY <1>3 DEF AiIdleTimeout
  <2>2. CASE AiDisturbed
    BY <1>3, <2>1, <2>2 DEF AiIdleTimeout
  <2>3. CASE ~AiDisturbed
    <3>1. aiWorker.at = "idle" /\ ai_generation_ = aiWorker.generation
      BY <1>3, <2>3 DEF AiIdleTimeout, AiDisturbed
    <3>2. Ai \notin touched
      BY <3>1 DEF TouchedIsSeen
    <3> QED BY <2>1, <3>2
  <2> QED BY <2>2, <2>3
<1>4. CASE AiInstall
  BY <1>4 DEF AiInstall
<1>5. ASSUME NEW active \in BOOLEAN, NEW ok \in BOOLEAN, SetSubActive(active, ok)
      PROVE  yolov8_' = yolov8_ /\ (sub.running => sub'.running)
  <2>1. yolov8_' = yolov8_
    BY <1>5 DEF SetSubActive
  <2>2. CASE active
    <3>1. set_sub_stream_enabled(TRUE, ok) /\ TRUE \in BOOLEAN
      BY <1>5, <2>2 DEF SetSubActive
    <3>2. sub.running => sub'.running
      BY <3>1, SetSubStreamEnabled
    <3> QED BY <2>1, <3>2
  <2>3. CASE ~active
    BY <1>5, <2>1, <2>3 DEF SetSubActive
  <2> QED BY <2>2, <2>3
<1>6. CASE StreamWorkerStep
  BY <1>6, <1>1, <1>2 DEF StreamWorkerStep, StreamAwaitRelease, StreamIdleWoken, StreamAwaitDemand
<1>7. CASE AiWorkerStep
  BY <1>7, <1>1, <1>3, <1>4 DEF AiWorkerStep, AiAwaitWork, AiStartBegin, AiLoad, AiStartFailed,
     AiIdleWoken
<1>8. CASE StopRequest \/ UNCHANGED lifecycleVars
  BY <1>8, <1>1 DEF StopRequest, lifecycleVars
<1>9. ASSUME NEW s \in Streams, NEW active \in BOOLEAN, NEW ok \in BOOLEAN,
             set_stream_active(s, active, ok)
      PROVE  yolov8_' = yolov8_ /\ (sub.running => sub'.running)
  BY <1>9, <1>5 DEF set_stream_active, SetAiActive, lifecycleVars
<1> QED BY <1>6, <1>7, <1>8, <1>9

(* The workers stop a stream only after an idle time in which nobody asked *)
(* for or released it: the generation they compare sees every touch, also  *)
(* one that was taken back (hisilicon_pipeline.cpp:328-337, :382-391).     *)
THEOREM IdleTimeIsFull == Spec => FullIdleTime
<1> DEFINE Full ==
      /\ sub.running /\ ~sub'.running /\ phase = "running" => Sub \notin touched
      /\ yolov8_ /\ ~yolov8_' /\ phase = "running" => Ai \notin touched
<1>1. PathInv /\ [Next]_vars => [Full]_lifecycleVars
  <2> SUFFICES ASSUME PathInv, [Next]_vars, phase = "running" PROVE Full
    OBVIOUS
  <2>1. CASE UNCHANGED lifecycleVars
    BY <2>1, IdleStep DEF PathInv
  <2>2. ASSUME NEW c \in Clients, Demand(c) PROVE Full
    <3>1. stream[c] \in Streams
      BY DEF PathInv, SourceInv, SourceTypeOK
    <3>2. \E ok \in BOOLEAN : set_stream_active(stream[c], TRUE, ok)
      BY <2>2 DEF Demand
    <3>3. \E s \in Streams, active \in BOOLEAN, ok \in BOOLEAN : set_stream_active(s, active, ok)
      BY <3>1, <3>2
    <3> QED BY <3>3, IdleStep DEF PathInv
  <2>3. ASSUME NEW c \in Clients, Release(c) PROVE Full
    <3>1. stream[c] \in Streams
      BY DEF PathInv, SourceInv, SourceTypeOK
    <3>2. \E ok \in BOOLEAN : set_stream_active(stream[c], FALSE, ok)
      BY <2>3 DEF Release
    <3>3. \E s \in Streams, active \in BOOLEAN, ok \in BOOLEAN : set_stream_active(s, active, ok)
      BY <3>1, <3>2
    <3> QED BY <3>3, IdleStep DEF PathInv
  <2>4. CASE StreamWorkerStep \/ AiWorkerStep \/ StopRequest
    BY <2>4, IdleStep DEF PathInv
  <2>5. CASE StartDevice \/ StopTeardown
    BY <2>5 DEF StartDevice, start, StopTeardown
  <2> QED
    BY <2>1, <2>2, <2>3, <2>4, <2>5 DEF Next, vars, RegisterTrack, Subscribe, SubscribeReturn
<1> QED BY <1>1, PathInvariant, PTL DEF Spec, FullIdleTime
=============================================================================
