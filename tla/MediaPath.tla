------------------------------ MODULE MediaPath ------------------------------
(***************************************************************************)
(* MediaSource with the device pipeline behind its demand handler, as      *)
(* Application::start wires them (src/core/application.cpp:42-53): a       *)
(* client's subscribe or unsubscribe reaches set_stream_active while the   *)
(* client holds demand_mutex_, and races with the pipeline's two workers   *)
(* and with its stop.                                                      *)
(***************************************************************************)
EXTENDS MediaSource, StreamPipeline

ASSUME PathAssumption == {Sub, Ai} \subseteq Streams

vars == <<sourceVars, lifecycleVars>>

Init == SourceInit /\ LifecycleInit

(* device_->start registers the tracks of every stream and then runs; the  *)
(* plugins, and with them the clients, come after it.                      *)
RegisterTrack(s) ==
    /\ phase = "off"
    /\ set_track(s)
    /\ UNCHANGED lifecycleVars

StartDevice ==
    /\ streams_ = Streams
    /\ start
    /\ UNCHANGED sourceVars

Subscribe(c, s) ==
    /\ phase # "off"
    /\ SubscribeEnter(c, s)
    /\ UNCHANGED lifecycleVars

(* Mutant: the release is not passed on to the device. *)
ReleaseLost(c) ==
    /\ UnsubscribeDemand(c)
    /\ UNCHANGED lifecycleVars

Demand(c) == \E ok \in BOOLEAN : SubscribeDemand(c, ok) /\ set_stream_active(stream[c], TRUE, ok)

Release(c) ==
    /\ UnsubscribeDemand(c)
    /\ \E ok \in BOOLEAN : set_stream_active(stream[c], FALSE, ok)

SubscribeReturn(c) == SubscribeAdd(c) /\ UNCHANGED lifecycleVars

Next ==
    \/ \E s \in Streams : RegisterTrack(s)
    \/ StartDevice
    \/ \E c \in Clients, s \in Streams : Subscribe(c, s)
    \/ \E c \in Clients : Demand(c)
    \/ \E c \in Clients : SubscribeReturn(c)
    \/ \E c \in Clients : UnsubscribeErase(c) /\ UNCHANGED lifecycleVars
    \/ \E c \in Clients : Release(c)
    \/ /\ \E p \in Publishers : PublishCall(p) \/ \E s \in Streams : PublishBegin(p, s)
       /\ UNCHANGED lifecycleVars
    \/ StreamWorkerStep /\ UNCHANGED sourceVars
    \/ AiWorkerStep /\ UNCHANGED sourceVars
    \/ StopRequest /\ UNCHANGED sourceVars
    \/ StopTeardown /\ UNCHANGED sourceVars

(* Threads that can run do, and a call that was entered goes on; nobody is *)
(* obliged to subscribe, to unsubscribe or to stop.                        *)
Fairness ==
    /\ WF_vars(StreamWorkerStep /\ UNCHANGED sourceVars)
    /\ WF_vars(AiWorkerStep /\ UNCHANGED sourceVars)
    /\ WF_vars(StopTeardown /\ UNCHANGED sourceVars)
    /\ \A c \in Clients : WF_vars(Demand(c) \/ SubscribeReturn(c) \/ Release(c))

Spec == Init /\ [][Next]_vars /\ Fairness

-----------------------------------------------------------------------------
PathTypeOK == SourceTypeOK /\ LifecycleTypeOK

(* docs: "sub stream: started when there is a subscriber".  Across source, *)
(* handler, worker and encoder: a client whose subscribe has returned sees *)
(* the sub stream encoded for as long as it stays subscribed, unless a     *)
(* device call failed or the pipeline was stopped.                         *)
SubscribedSubEncodes ==
    subscribers[Sub] # {} /\ running_ /\ faults = 0 => sub.encoding /\ capturing

(* The two sides agree: between calls the device wants exactly the streams *)
(* that clients subscribe to (and those it was told to start at boot),     *)
(* unless a failed start has given the wish up.                            *)
SidesAgree ==
    demand_mutex_ = NoOne /\ running_ /\ faults = 0 =>
        /\ subscribers[Sub] # {} => sub_stream_required_
        /\ sub_stream_required_ => subscribers[Sub] # {} \/ SubAtBoot
        /\ subscribers[Ai] # {} => ai_stream_required_
        /\ ai_stream_required_ => subscribers[Ai] # {} \/ AiAtBoot

(* docs: "AI stream: started asynchronously on demand, stopped once idle". *)
(* A lasting wish gets its detector, also after an earlier start failed    *)
(* and gave the wish up (hisilicon_pipeline.cpp:370-376): the next first   *)
(* subscriber renews it.  When the last subscriber has left, the detector  *)
(* stops; one wanted at boot runs until then.                              *)
AiFollowsDemand ==
    /\ <>[](running_ /\ ai_stream_required_) => <>[]yolov8_
    /\ <>(subscribers[Ai] # {}) /\ <>[](running_ /\ subscribers[Ai] = {}) => <>[](~yolov8_)

(* docs: "sub stream: started when there is a subscriber, stopped once     *)
(* idle".  A subscriber that comes and goes while the worker is parked in  *)
(* its third wait (hisilicon_pipeline.cpp:341-343) and before the worker   *)
(* gets the mutex leaves no trace in that wait's condition: the worker     *)
(* goes back to sleep and the encoder keeps running.                       *)
AbandonedSubStops ==
    <>[](running_ /\ subscribers[Sub] = {} /\ faults = 0) => <>[](~sub.encoding)

(* The race above: the parked worker has been notified, and by now the     *)
(* subscriber it was notified of is gone.                                  *)
VisitMissed ==
    streamWorker.at = "parked" /\ streamWorker.awake /\ ~sub_stream_required_

(* That is the only way: the encoder of an abandoned sub stream is paused  *)
(* for good, unless such a visit was the last thing the parked worker saw. *)
AbandonedSubStopsUnlessVisitMissed ==
    <>[](running_ /\ subscribers[Sub] = {} /\ faults = 0) =>
        \/ <>[](~sub.encoding)
        \/ <>(VisitMissed /\ [](streamWorker.at = "parked"))
=============================================================================
