---------------------------- MODULE Application ----------------------------
(***************************************************************************)
(* The process: main (app/main.cpp) starts the device and the plugins      *)
(* through core::Application (src/core/application.cpp), sleeps until a    *)
(* signal asks for shutdown, and stops everything in two phases.  The      *)
(* recorder and its threads are those of RecordPipeline; the device is     *)
(* reduced to its capture thread, the WebRTC plugin to a stop that may     *)
(* block.                                                                  *)
(***************************************************************************)
EXTENDS RecordPipeline

CONSTANT MaxSignals   \* bound: signals delivered

ASSUME SignalAssumption == MaxSignals \in Nat

VARIABLES
    phase,       \* where main stands
    shutdown,    \* g_shutdown_requested
    handlers,    \* signal handlers between the store and the notification
    signals,     \* signals delivered so far
    device,      \* device_started_
    webrtc,      \* the WebRTC plugin has been started
    recorder,    \* RecordPlugin::recorder_: "none", "on", "freed"
    exitCode     \* of the process, Running while it lives

processVars == <<phase, shutdown, handlers, signals, device, webrtc, recorder, exitCode>>
appVars == <<recordVars, processVars>>

Running == -1
Killed == 139   \* on_fatal_signal
Phases == {"start device", "start webrtc", "start record", "ready", "deciding", "asleep",
           "stop record", "stop device", "stop network", "exited"}

Alive == phase # "exited"

Exit(code) ==
    /\ phase' = "exited"
    /\ exitCode' = code

-----------------------------------------------------------------------------
(* Application::start.  A plugin that does not start makes it stop what    *)
(* has been started, and main returns 2.                                   *)
StartDevice ==
    /\ phase = "start device"
    /\ \/ device' = TRUE /\ phase' = "start webrtc" /\ UNCHANGED exitCode
       \/ Exit(2) /\ UNCHANGED device
    /\ UNCHANGED <<recordVars, shutdown, handlers, signals, webrtc, recorder>>

StartWebRtc ==
    /\ phase = "start webrtc"
    /\ \/ webrtc' \in BOOLEAN /\ phase' = "start record" /\ UNCHANGED <<device, exitCode>>
       \/ device' = FALSE /\ Exit(2) /\ UNCHANGED webrtc
    /\ UNCHANGED <<recordVars, shutdown, handlers, signals, recorder>>

(* RecordPlugin::start, unless the recorder is not enabled: a recorder is  *)
(* constructed and started.  When its start fails it is stopped and        *)
(* destroyed again, and the program goes on without.  It answers false     *)
(* only without a source or for a stream that validate_config has refused  *)
(* by then, so that this plugin never makes Application::start give up.    *)
StartRecord ==
    /\ phase = "start record"
    /\ \/ /\ recorder = "none"
          /\ \/ recorder' = "on" /\ UNCHANGED phase
             \/ phase' = "ready" /\ UNCHANGED recorder
          /\ UNCHANGED recordVars
       \/ /\ recorder = "on"
          /\ StartStep \/ StopStep
          /\ UNCHANGED <<phase, recorder>>
       \/ /\ recorder = "on" /\ main \in {"running", "stopped"}
          /\ recorder' = IF main = "stopped" THEN "freed" ELSE "on"
          /\ phase' = "ready"
          /\ UNCHANGED recordVars
    /\ UNCHANGED <<shutdown, handlers, signals, device, webrtc, exitCode>>

-----------------------------------------------------------------------------
(* request_shutdown, on any thread and at any time: the flag ... *)
SignalArrives ==
    /\ Alive
    /\ signals < MaxSignals
    /\ signals' = signals + 1
    /\ handlers' = handlers + 1
    /\ shutdown' = TRUE
    /\ UNCHANGED <<recordVars, phase, device, webrtc, recorder, exitCode>>

(* Mutant: nobody is notified. *)
HandlerNotifiesNobody ==
    /\ Alive
    /\ handlers > 0
    /\ handlers' = handlers - 1
    /\ UNCHANGED <<recordVars, phase, shutdown, signals, device, webrtc, recorder, exitCode>>

(* ... and the notification, without the mutex. *)
HandlerNotifies ==
    /\ Alive
    /\ handlers > 0
    /\ handlers' = handlers - 1
    /\ phase' = IF phase = "asleep" THEN "ready" ELSE phase
    /\ UNCHANGED <<recordVars, shutdown, signals, device, webrtc, recorder, exitCode>>

(* main's wait: the condition, and the sleep when it does not hold. *)
MainWaits ==
    /\ \/ phase = "ready" /\ phase' = IF shutdown THEN "stop record" ELSE "deciding"
       \/ phase = "deciding" /\ phase' = "asleep"
    /\ UNCHANGED <<recordVars, shutdown, handlers, signals, device, webrtc, recorder, exitCode>>

-----------------------------------------------------------------------------
(* stop_media: RecordPlugin::stop runs SegmentRecorder::stop and destroys  *)
(* the recorder ...                                                        *)
StopRecord ==
    /\ phase = "stop record"
    /\ \/ /\ recorder = "on" /\ main # "stopped"
          /\ StopUnsubscribes \/ StopStep
          /\ UNCHANGED <<phase, recorder>>
       \/ /\ recorder = "on" /\ main = "stopped"
          /\ recorder' = "freed"
          /\ UNCHANGED <<recordVars, phase>>
       \/ /\ recorder # "on"
          /\ phase' = "stop device"
          /\ UNCHANGED <<recordVars, recorder>>
    /\ UNCHANGED <<shutdown, handlers, signals, device, webrtc, exitCode>>

(* ... and the device's stop joins the capture thread. *)
StopDevice ==
    /\ phase = "stop device"
    /\ capture = "idle"
    /\ device' = FALSE
    /\ phase' = "stop network"
    /\ UNCHANGED <<recordVars, shutdown, handlers, signals, webrtc, recorder, exitCode>>

(* Mutant: the watchdog also guards stop_media. *)
WatchdogArmedEarly == phase \in {"stop record", "stop device", "stop network"}

(* main starts the watchdog when stop_media has returned. *)
WatchdogArmed == phase = "stop network"

WatchdogFires ==
    /\ WatchdogArmed
    /\ Exit(1)
    /\ UNCHANGED <<recordVars, shutdown, handlers, signals, device, webrtc, recorder>>

(* stop_network returns, unless KVS blocks. *)
StopNetwork ==
    /\ phase = "stop network"
    /\ webrtc' = FALSE
    /\ Exit(0)
    /\ UNCHANGED <<recordVars, shutdown, handlers, signals, device, recorder>>

-----------------------------------------------------------------------------
(* The recorder's own threads, and the capture thread, while it exists. *)
RecorderRuns ==
    /\ Alive /\ recorder = "on"
    /\ CaptureStep \/ WriterStep \/ UploaderStep
    /\ UNCHANGED processVars

(* A capture thread that found the recorder in its snapshot before stop    *)
(* unsubscribed calls into it after it was destroyed: undefined.           *)
LateFrame ==
    /\ Alive /\ recorder = "freed"
    /\ capture # "idle"
    /\ capture' = "idle"
    /\ \/ UNCHANGED <<phase, exitCode>>
       \/ Exit(Killed)
    /\ UNCHANGED <<frameVars, uploadVars, workVars, histVars, subscribed, main,
                   shutdown, handlers, signals, device, webrtc, recorder>>

AppInit ==
    /\ Init
    /\ phase = "start device"
    /\ shutdown = FALSE /\ handlers = 0 /\ signals = 0
    /\ device = FALSE /\ webrtc = FALSE /\ recorder = "none"
    /\ exitCode = Running

MainStep ==
    \/ StartDevice \/ StartWebRtc \/ StartRecord \/ MainWaits
    \/ StopRecord \/ StopDevice

AppNext ==
    \/ MainStep \/ StopNetwork \/ WatchdogFires
    \/ SignalArrives \/ HandlerNotifies
    \/ RecorderRuns \/ LateFrame

(* Every thread that can run does, but nothing makes stop_network return:  *)
(* the watchdog's timer expires.                                           *)
AppFairness ==
    /\ WF_appVars(MainStep)
    /\ WF_appVars(HandlerNotifies)
    /\ WF_appVars(WatchdogFires)
    /\ WF_appVars(LateFrame)
    /\ WF_appVars(RecorderRuns /\ (OnFrameEnters \/ OnFramePushes))
    /\ WF_appVars(RecorderRuns /\ WriterStep)
    /\ WF_appVars(RecorderRuns /\ UploaderStep)

AppSpec == AppInit /\ [][AppNext]_appVars /\ AppFairness

-----------------------------------------------------------------------------
AppTypeOK ==
    /\ RecordTypeOK
    /\ phase \in Phases
    /\ shutdown \in BOOLEAN
    /\ handlers \in 0..MaxSignals /\ signals \in 0..MaxSignals
    /\ device \in BOOLEAN /\ webrtc \in BOOLEAN
    /\ recorder \in {"none", "on", "freed"}
    /\ exitCode \in {Running, 0, 1, 2, Killed}

(* main.cpp: "Only this phase is under the short hammer - upload and MPP   *)
(* have already finished", and application.h: "stop encode/record, wait    *)
(* leftover PUTs, release MPP".  However the process ends after it was     *)
(* asked to, by itself or by the watchdog: the device and the recorder are *)
(* stopped, no capture thread is inside the recorder, every accepted frame *)
(* is in the recording, and every upload the recorder ever asked for has   *)
(* been tried or had been dropped by a full queue (main.cpp:309-328,       *)
(* application.cpp:90-113, segment_recorder.cpp:91-110).                   *)
NothingLeftAtExit ==
    exitCode \in {0, 1} =>
        /\ ~device
        /\ recorder # "on"
        /\ capture = "idle"
        /\ accepted \subseteq written
        /\ 1..requested = tried \cup dropped

(* The handler's notification fell between main's look at the flag and its *)
(* sleep.                                                                  *)
MainMissesSignal == phase = "deciding" /\ shutdown /\ handlers = 0

(* A signal ends the process, whatever the SDK does in stop_network, unless *)
(* one of three notifications given without a mutex falls between a        *)
(* thread's look at its flag and its sleep: main's, the writer's or the    *)
(* uploader's, the last two in stop or in a start that fails               *)
(* (main.cpp:32-36,302-328, segment_recorder.cpp:73-77,97-101,             *)
(* http_segment_uploader.cpp:276-288, record_plugin.cpp:52-58).            *)
ShutdownCompletesUnlessWakeupLost ==
    \/ <>(\/ MainMissesSignal
          \/ main = "joining writer" /\ F!AboutToMissStop
          \/ main = "joining uploader" /\ U!AboutToMissStop)
    \/ shutdown ~> ~Alive
=============================================================================
