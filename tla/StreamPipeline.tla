---------------------------- MODULE StreamPipeline ----------------------------
(***************************************************************************)
(* The device side of stream demand: HisiliconPipeline's                   *)
(* set_stream_active, its two lifecycle workers and its start and stop     *)
(* (device_adapter/src/hisilicon_pipeline.cpp), with the sub stream's      *)
(* encoder below it (devices/hisi_3516cv610/dev_chn.cpp).                  *)
(*                                                                         *)
(* Everything under stream_mutex_ is one step.  A worker blocked in a      *)
(* condition variable is asleep (awake = FALSE) until notify_all or, in    *)
(* wait_for, until the timeout.  The AI worker gives up the mutex while it *)
(* loads a detector.                                                       *)
(***************************************************************************)
EXTENDS Integers

CONSTANTS
    Sub,          \* SUB_STREAM_ID
    Ai,           \* AI_STREAM_ID
    AiEnabled,    \* options_.streams.ai.enable
    SubAtBoot,    \* options_.streams.sub.start == Boot (sub.enable is TRUE)
    AiAtBoot,     \* options_.streams.ai.start == Boot
    FaultBound    \* bound: device calls that fail in a behaviour

ASSUME PipelineAssumption ==
    /\ Sub # Ai
    /\ AiEnabled \in BOOLEAN
    /\ SubAtBoot \in BOOLEAN
    /\ AiAtBoot \in BOOLEAN
    /\ FaultBound \in Nat

VARIABLES
    phase,                \* of start and stop: "off", "running", "joining", "stopped"
    sub_stream_required_,
    stream_generation_,
    ai_stream_required_,
    ai_generation_,
    yolov8_,              \* a detector is installed
    streamWorker,         \* [at, awake, generation] of stream_lifecycle_worker
    aiWorker,             \* the same of ai_lifecycle_worker
    sub,                  \* [running, encoding]: m_sub_stream_running, the encoder itself
    capturing,            \* venc::capture_running()
    faults,               \* device calls that have failed so far
    touched               \* history: streams asked for or released since the
                          \* stream's worker last began to wait out the idle time

lifecycleVars == <<phase, sub_stream_required_, stream_generation_,
                   ai_stream_required_, ai_generation_, yolov8_, streamWorker,
                   aiWorker, sub, capturing, faults, touched>>

running_ == phase = "running"
worker_stop_ == phase \in {"joining", "stopped"}

Asleep(place) == [at |-> place, awake |-> FALSE, generation |-> 0]
Running(place) == [at |-> place, awake |-> TRUE, generation |-> 0]
Notified(w) == [w EXCEPT !.awake = TRUE]

-----------------------------------------------------------------------------
(* chn::set_sub_stream_enabled(enable): stops capture if it runs, resumes  *)
(* or pauses the encoder, restarts capture.  resume or the restart may     *)
(* fail; m_sub_stream_running changes only when both succeed.              *)
set_sub_stream_enabled(enable, ok) ==
    IF sub.running = enable
    THEN /\ ok
         /\ UNCHANGED <<sub, capturing, faults>>
    ELSE \/ /\ ok
            /\ sub' = [running |-> enable, encoding |-> enable]
            /\ UNCHANGED <<capturing, faults>>
         \/ /\ ~ok
            /\ faults < FaultBound
            /\ faults' = faults + 1
            /\ \/ /\ enable
                  /\ UNCHANGED sub
                  /\ capturing' \in {capturing, FALSE}
               \/ /\ capturing
                  /\ sub' = [sub EXCEPT !.encoding = enable]
                  /\ capturing' = FALSE

(* set_stream_active(channel, SUB_STREAM_ID, active) of a running          *)
(* pipeline: the encoder is resumed before the call returns; a failure     *)
(* takes the request back.                                                 *)
SetSubActive(active, ok) ==
    /\ running_
    /\ sub_stream_required_' = (active /\ ok)
    /\ stream_generation_' = stream_generation_ + (IF ok THEN 1 ELSE 2)
    /\ streamWorker' = Notified(streamWorker)
    /\ IF active THEN set_sub_stream_enabled(TRUE, ok)
                 ELSE ok /\ UNCHANGED <<sub, capturing, faults>>
    /\ touched' = touched \cup {Sub}
    /\ UNCHANGED <<phase, ai_stream_required_, ai_generation_, yolov8_, aiWorker>>

(* Mutant: the AI worker is not woken. *)
SetAiActiveSilently(active, ok) ==
    /\ running_
    /\ AiEnabled
    /\ ok
    /\ ai_stream_required_' = active
    /\ ai_generation_' = ai_generation_ + 1
    /\ touched' = touched \cup {Ai}
    /\ UNCHANGED <<phase, sub_stream_required_, stream_generation_, yolov8_,
                   streamWorker, aiWorker, sub, capturing, faults>>

(* set_stream_active(channel, AI_STREAM_ID, active): only records the      *)
(* wish and wakes the AI worker.                                           *)
SetAiActive(active, ok) ==
    /\ running_
    /\ AiEnabled
    /\ ok
    /\ ai_stream_required_' = active
    /\ ai_generation_' = ai_generation_ + 1
    /\ aiWorker' = Notified(aiWorker)
    /\ touched' = touched \cup {Ai}
    /\ UNCHANGED <<phase, sub_stream_required_, stream_generation_, yolov8_,
                   streamWorker, sub, capturing, faults>>

(* set_stream_active, whole: the main stream is always on; other streams   *)
(* are refused while the pipeline does not run.                            *)
set_stream_active(s, active, ok) ==
    \/ s = Sub /\ SetSubActive(active, ok)
    \/ s = Ai /\ SetAiActive(active, ok)
    \/ /\ s \in {Sub, Ai}
       /\ ~running_ \/ (s = Ai /\ ~AiEnabled)
       /\ ~ok
       /\ UNCHANGED lifecycleVars
    \/ /\ s \notin {Sub, Ai}
       /\ ok
       /\ UNCHANGED lifecycleVars

-----------------------------------------------------------------------------
(* stream_lifecycle_worker.  It waits for the sub stream to be released... *)
StreamAwaitRelease ==
    /\ streamWorker.at = "release" /\ streamWorker.awake
    /\ \/ /\ worker_stop_
          /\ streamWorker' = Asleep("exited")
          /\ UNCHANGED touched
       \/ /\ ~worker_stop_ /\ ~sub_stream_required_
          /\ streamWorker' = [at |-> "idle", awake |-> FALSE, generation |-> stream_generation_]
          /\ touched' = touched \ {Sub}
       \/ /\ ~worker_stop_ /\ sub_stream_required_
          /\ streamWorker' = Asleep("release")
          /\ UNCHANGED touched
    /\ UNCHANGED <<phase, sub_stream_required_, stream_generation_, ai_stream_required_,
                   ai_generation_, yolov8_, aiWorker, sub, capturing, faults>>

(* Mutant: a request that came and went during the idle time goes unseen. *)
StreamDisturbedNoGeneration == worker_stop_ \/ sub_stream_required_

(* ... then for the idle time, unless something changes meanwhile ...      *)
StreamDisturbed ==
    worker_stop_ \/ sub_stream_required_ \/ stream_generation_ # streamWorker.generation

StreamIdleWoken ==
    /\ streamWorker.at = "idle" /\ streamWorker.awake
    /\ streamWorker' = IF StreamDisturbed THEN Running("release")
                                          ELSE [streamWorker EXCEPT !.awake = FALSE]
    /\ UNCHANGED <<phase, sub_stream_required_, stream_generation_, ai_stream_required_,
                   ai_generation_, yolov8_, aiWorker, sub, capturing, faults, touched>>

(* Mutant: the encoder is stopped whatever has changed meanwhile. *)
StreamIdleTimeoutBlind ==
    /\ streamWorker.at = "idle"
    /\ \E ok \in BOOLEAN : set_sub_stream_enabled(FALSE, ok)
    /\ streamWorker' = Asleep("parked")
    /\ UNCHANGED <<phase, sub_stream_required_, stream_generation_, ai_stream_required_,
                   ai_generation_, yolov8_, aiWorker, touched>>

(* Mutant: the worker parks and leaves the encoder running. *)
StreamIdleTimeoutKeepsEncoder ==
    /\ streamWorker.at = "idle"
    /\ streamWorker' = IF StreamDisturbed THEN Running("release") ELSE Asleep("parked")
    /\ UNCHANGED <<phase, sub_stream_required_, stream_generation_, ai_stream_required_,
                   ai_generation_, yolov8_, aiWorker, sub, capturing, faults, touched>>

(* ... and when the time is up stops the encoder, whatever that returns    *)
StreamIdleTimeout ==
    /\ streamWorker.at = "idle"
    /\ IF StreamDisturbed
       THEN /\ streamWorker' = Running("release")
            /\ UNCHANGED <<sub, capturing, faults>>
       ELSE /\ \E ok \in BOOLEAN : set_sub_stream_enabled(FALSE, ok)
            /\ streamWorker' = Asleep("parked")
    /\ UNCHANGED <<phase, sub_stream_required_, stream_generation_, ai_stream_required_,
                   ai_generation_, yolov8_, aiWorker, touched>>

(* ... to wait for the next request.                                       *)
StreamAwaitDemand ==
    /\ streamWorker.at = "parked" /\ streamWorker.awake
    /\ streamWorker' = IF worker_stop_ \/ sub_stream_required_ THEN Running("release")
                                                               ELSE Asleep("parked")
    /\ UNCHANGED <<phase, sub_stream_required_, stream_generation_, ai_stream_required_,
                   ai_generation_, yolov8_, aiWorker, sub, capturing, faults, touched>>

-----------------------------------------------------------------------------
(* ai_lifecycle_worker waits until wish and detector disagree. *)
AiAwaitWork ==
    /\ aiWorker.at = "wait" /\ aiWorker.awake
    /\ \/ /\ worker_stop_
          /\ aiWorker' = Asleep("exited")
          /\ UNCHANGED touched
       \/ /\ ~worker_stop_ /\ ai_stream_required_ /\ ~yolov8_
          /\ aiWorker' = [at |-> "start", awake |-> TRUE, generation |-> ai_generation_]
          /\ UNCHANGED touched
       \/ /\ ~worker_stop_ /\ ~ai_stream_required_ /\ yolov8_
          /\ aiWorker' = [at |-> "idle", awake |-> FALSE, generation |-> ai_generation_]
          /\ touched' = touched \ {Ai}
       \/ /\ ~worker_stop_ /\ ai_stream_required_ = yolov8_
          /\ aiWorker' = Asleep("wait")
          /\ UNCHANGED touched
    /\ UNCHANGED <<phase, sub_stream_required_, stream_generation_, ai_stream_required_,
                   ai_generation_, yolov8_, streamWorker, sub, capturing, faults>>

(* What start_yolov8_async checks before and after the load. *)
AiStartStale ==
    worker_stop_ \/ ~ai_stream_required_ \/ ai_generation_ # aiWorker.generation \/ yolov8_

(* start_yolov8_async, first critical section. *)
AiStartBegin ==
    /\ aiWorker.at = "start"
    /\ aiWorker' = [aiWorker EXCEPT !.at = IF AiStartStale THEN "failed" ELSE "loading"]
    /\ UNCHANGED <<phase, sub_stream_required_, stream_generation_, ai_stream_required_,
                   ai_generation_, yolov8_, streamWorker, sub, capturing, faults, touched>>

(* detector->start: seconds of model loading without the mutex. *)
AiLoad ==
    /\ aiWorker.at = "loading"
    /\ \/ /\ aiWorker' = [aiWorker EXCEPT !.at = "loaded"]
          /\ UNCHANGED faults
       \/ /\ faults < FaultBound
          /\ faults' = faults + 1
          /\ aiWorker' = [aiWorker EXCEPT !.at = "failed"]
    /\ UNCHANGED <<phase, sub_stream_required_, stream_generation_, ai_stream_required_,
                   ai_generation_, yolov8_, streamWorker, sub, capturing, touched>>

(* start_yolov8_async, second critical section: a detector nobody wants    *)
(* any more is stopped, otherwise it is installed.                         *)
AiInstall ==
    /\ aiWorker.at = "loaded"
    /\ yolov8_' = (yolov8_ \/ ~AiStartStale)
    /\ aiWorker' = IF AiStartStale THEN [aiWorker EXCEPT !.at = "failed"] ELSE Running("wait")
    /\ UNCHANGED <<phase, sub_stream_required_, stream_generation_, ai_stream_required_,
                   ai_generation_, streamWorker, sub, capturing, faults, touched>>

(* Back in the worker: a start that failed although nothing changed gives  *)
(* the wish up.                                                            *)
AiStartFailed ==
    /\ aiWorker.at = "failed"
    /\ LET giveUp == ai_stream_required_ /\ ai_generation_ = aiWorker.generation /\ ~yolov8_
       IN  /\ ai_stream_required_' = (ai_stream_required_ /\ ~giveUp)
           /\ ai_generation_' = ai_generation_ + (IF giveUp THEN 1 ELSE 0)
    /\ aiWorker' = Running("wait")
    /\ UNCHANGED <<phase, sub_stream_required_, stream_generation_, yolov8_,
                   streamWorker, sub, capturing, faults, touched>>

AiDisturbed ==
    worker_stop_ \/ ai_stream_required_ \/ ai_generation_ # aiWorker.generation

AiIdleWoken ==
    /\ aiWorker.at = "idle" /\ aiWorker.awake
    /\ aiWorker' = IF AiDisturbed THEN Running("wait") ELSE [aiWorker EXCEPT !.awake = FALSE]
    /\ UNCHANGED <<phase, sub_stream_required_, stream_generation_, ai_stream_required_,
                   ai_generation_, yolov8_, streamWorker, sub, capturing, faults, touched>>

(* The idle time is up: stop_yolov8_locked. *)
AiIdleTimeout ==
    /\ aiWorker.at = "idle"
    /\ yolov8_' = (yolov8_ /\ AiDisturbed)
    /\ aiWorker' = Running("wait")
    /\ UNCHANGED <<phase, sub_stream_required_, stream_generation_, ai_stream_required_,
                   ai_generation_, streamWorker, sub, capturing, faults, touched>>

-----------------------------------------------------------------------------
(* start: registers the tracks, starts the encoders and the capture, then  *)
(* sets the flags under the mutex and spawns the workers.  A failure of    *)
(* the capture is ignored; one before it is undone by fail_cleanup and     *)
(* leaves the pipeline off.                                                *)
start ==
    /\ phase = "off"
    /\ phase' = "running"
    /\ sub_stream_required_' = SubAtBoot
    /\ ai_stream_required_' = (AiEnabled /\ AiAtBoot)
    /\ stream_generation_' = stream_generation_ + 1
    /\ ai_generation_' = ai_generation_ + 1
    /\ sub' = [running |-> SubAtBoot, encoding |-> SubAtBoot]
    /\ \/ /\ capturing' = TRUE
          /\ UNCHANGED faults
       \/ /\ faults < FaultBound
          /\ faults' = faults + 1
          /\ UNCHANGED capturing
    /\ streamWorker' = Running("release")
    /\ aiWorker' = IF AiEnabled THEN Running("wait") ELSE Asleep("exited")
    /\ UNCHANGED <<yolov8_, touched>>

(* Mutant: the workers are not notified. *)
StopRequestSilently ==
    /\ phase = "running"
    /\ phase' = "joining"
    /\ sub_stream_required_' = FALSE
    /\ ai_stream_required_' = FALSE
    /\ stream_generation_' = stream_generation_ + 1
    /\ ai_generation_' = ai_generation_ + 1
    /\ UNCHANGED <<yolov8_, streamWorker, aiWorker, sub, capturing, faults, touched>>

(* stop, first part: flags and notify_all, then join. *)
StopRequest ==
    /\ phase = "running"
    /\ phase' = "joining"
    /\ sub_stream_required_' = FALSE
    /\ ai_stream_required_' = FALSE
    /\ stream_generation_' = stream_generation_ + 1
    /\ ai_generation_' = ai_generation_ + 1
    /\ streamWorker' = Notified(streamWorker)
    /\ aiWorker' = Notified(aiWorker)
    /\ UNCHANGED <<yolov8_, sub, capturing, faults, touched>>

(* Mutant: the AI worker is not joined. *)
StopTeardownUnjoined ==
    /\ phase = "joining"
    /\ streamWorker.at = "exited"
    /\ phase' = "stopped"
    /\ yolov8_' = FALSE
    /\ capturing' = FALSE
    /\ sub' = [running |-> FALSE, encoding |-> FALSE]
    /\ UNCHANGED <<sub_stream_required_, stream_generation_, ai_stream_required_,
                   ai_generation_, streamWorker, aiWorker, faults, touched>>

(* stop, second part: both workers have been joined. *)
StopTeardown ==
    /\ phase = "joining"
    /\ streamWorker.at = "exited"
    /\ aiWorker.at = "exited"
    /\ phase' = "stopped"
    /\ yolov8_' = FALSE
    /\ capturing' = FALSE
    /\ sub' = [running |-> FALSE, encoding |-> FALSE]
    /\ UNCHANGED <<sub_stream_required_, stream_generation_, ai_stream_required_,
                   ai_generation_, streamWorker, aiWorker, faults, touched>>

-----------------------------------------------------------------------------
LifecycleInit ==
    /\ phase = "off"
    /\ sub_stream_required_ = FALSE
    /\ ai_stream_required_ = FALSE
    /\ stream_generation_ = 0
    /\ ai_generation_ = 0
    /\ yolov8_ = FALSE
    /\ streamWorker = Asleep("exited")
    /\ aiWorker = Asleep("exited")
    /\ sub = [running |-> FALSE, encoding |-> FALSE]
    /\ capturing = FALSE
    /\ faults = 0
    /\ touched = {}

StreamWorkerStep ==
    StreamAwaitRelease \/ StreamIdleWoken \/ StreamIdleTimeout \/ StreamAwaitDemand

AiWorkerStep ==
    \/ AiAwaitWork \/ AiStartBegin \/ AiLoad \/ AiInstall \/ AiStartFailed
    \/ AiIdleWoken \/ AiIdleTimeout

LifecycleStep ==
    start \/ StopRequest \/ StopTeardown \/ StreamWorkerStep \/ AiWorkerStep

-----------------------------------------------------------------------------
LifecycleTypeOK ==
    /\ phase \in {"off", "running", "joining", "stopped"}
    /\ sub_stream_required_ \in BOOLEAN
    /\ ai_stream_required_ \in BOOLEAN
    /\ stream_generation_ \in Nat
    /\ ai_generation_ \in Nat
    /\ yolov8_ \in BOOLEAN
    /\ streamWorker \in [at : {"release", "idle", "parked", "exited"},
                         awake : BOOLEAN, generation : 0..stream_generation_]
    /\ aiWorker \in [at : {"wait", "start", "loading", "loaded", "failed", "idle", "exited"},
                     awake : BOOLEAN, generation : 0..ai_generation_]
    /\ sub \in [running : BOOLEAN, encoding : BOOLEAN]
    /\ capturing \in BOOLEAN
    /\ faults \in 0..FaultBound
    /\ touched \in SUBSET {Sub, Ai}

(* The idle worker stops a stream only after an idle time in which nobody  *)
(* asked for or released it (:328-337, :382-391).                          *)
FullIdleTime ==
    [][ /\ sub.running /\ ~sub'.running /\ phase = "running" => Sub \notin touched
        /\ yolov8_ /\ ~yolov8_' /\ phase = "running" => Ai \notin touched ]_lifecycleVars

(* stop leaves nothing behind: no detector, installed or loading, and no   *)
(* worker that could start one (:199-249).                                 *)
StoppedIsQuiet ==
    phase = "stopped" =>
        /\ ~yolov8_ /\ ~capturing /\ ~sub.encoding
        /\ aiWorker.at = "exited" /\ streamWorker.at = "exited"

(* stop returns, whatever the workers were doing.                          *)
StopReturns == phase = "joining" ~> phase = "stopped"
=============================================================================
