----------------------------- MODULE MediaSource -----------------------------
(***************************************************************************)
(* The hub between capture and the protocol plugins                        *)
(* (src/media/media_source.cpp).  Clients (the recorder, the WebRTC        *)
(* plugin's video, AI and record subscriptions) subscribe to a stream;     *)
(* capture threads publish frames to it.                                   *)
(*                                                                         *)
(* subscribe and unsubscribe hold demand_mutex_ from end to end, but give  *)
(* up mutex_ around the call of the device's demand handler: each is       *)
(* therefore two or three steps between which publishers run.  publish     *)
(* copies the subscriber snapshot under mutex_ and calls the subscribers   *)
(* one by one without any lock.                                            *)
(*                                                                         *)
(* The handler's answer is the parameter ok of the step that calls it; the *)
(* module MediaPath puts the device pipeline behind it.                    *)
(***************************************************************************)
EXTENDS Integers, FiniteSets

CONSTANTS
    Clients,     \* callers of subscribe and unsubscribe
    Publishers,  \* capture threads
    Streams,     \* stream ids
    NoOne,       \* demand_mutex_ is free
    IdBound      \* bound: subscription ids handed out in a behaviour

ASSUME SourceAssumption ==
    /\ NoOne \notin Clients
    /\ IdBound \in Nat

VARIABLES
    streams_,               \* streams that set_track has registered
    subscribers,            \* per stream, the ids in StreamState::subscribers
    subscriber_snapshot,    \* per stream, the callbacks in the published snapshot; each
                            \* subscription has a FrameSubscriber of its own, named
                            \* here by the subscription's id
    next_subscription_id_,
    demand_mutex_,          \* the client inside subscribe or unsubscribe
    demanded,               \* per stream, the handler's last accepted request
    at,                     \* where each client stands in its call
    stream,                 \* the stream of that call or of the held subscription
    id,                     \* the subscription id a client holds, 0 for none
    toCall,                 \* per publisher, the callbacks publish has yet to call
    departed                \* history: per publisher, the subscriptions that unsubscribe
                            \* has erased since its publish took the snapshot

sourceVars == <<streams_, subscribers, subscriber_snapshot, next_subscription_id_,
                demand_mutex_, demanded, at, stream, id, toCall, departed>>

Ids == 1..IdBound

-----------------------------------------------------------------------------
(* set_track: the first track of a stream creates its state. *)
set_track(s) ==
    /\ s \notin streams_
    /\ streams_' = streams_ \cup {s}
    /\ UNCHANGED <<subscribers, subscriber_snapshot, next_subscription_id_,
                   demand_mutex_, demanded, at, stream, id, toCall, departed>>

(* subscribe, first critical section: an unknown stream is refused without *)
(* a trace (no step); the first subscriber goes on to call the handler.    *)
SubscribeEnter(c, s) ==
    /\ at[c] = "idle"
    /\ demand_mutex_ = NoOne
    /\ s \in streams_
    /\ next_subscription_id_ <= IdBound
    /\ demand_mutex_' = c
    /\ at' = [at EXCEPT ![c] = IF subscribers[s] = {} THEN "demand" ELSE "add"]
    /\ stream' = [stream EXCEPT ![c] = s]
    /\ UNCHANGED <<streams_, subscribers, subscriber_snapshot,
                   next_subscription_id_, demanded, id, toCall, departed>>

(* subscribe calls demand_handler(channel, stream, true); on refusal it    *)
(* returns 0.                                                              *)
SubscribeDemand(c, ok) ==
    /\ at[c] = "demand"
    /\ at' = [at EXCEPT ![c] = IF ok THEN "add" ELSE "idle"]
    /\ demand_mutex_' = IF ok THEN demand_mutex_ ELSE NoOne
    /\ demanded' = [demanded EXCEPT ![stream[c]] = ok]
    /\ UNCHANGED <<streams_, subscribers, subscriber_snapshot,
                   next_subscription_id_, stream, id, toCall, departed>>

(* Mutant: ids start at 0, which callers take for a failure. *)
SubscribeAddFromZero(c) ==
    /\ at[c] = "add"
    /\ subscribers' = [subscribers EXCEPT ![stream[c]] = @ \cup {next_subscription_id_ - 1}]
    /\ subscriber_snapshot' =
         [subscriber_snapshot EXCEPT ![stream[c]] = subscribers'[stream[c]]]
    /\ id' = [id EXCEPT ![c] = next_subscription_id_ - 1]
    /\ next_subscription_id_' = next_subscription_id_ + 1
    /\ at' = [at EXCEPT ![c] = "held"]
    /\ demand_mutex_' = NoOne
    /\ UNCHANGED <<streams_, demanded, stream, toCall, departed>>

(* subscribe, second critical section: a fresh id, a rebuilt snapshot. *)
SubscribeAdd(c) ==
    /\ at[c] = "add"
    /\ subscribers' = [subscribers EXCEPT ![stream[c]] = @ \cup {next_subscription_id_}]
    /\ subscriber_snapshot' =
         [subscriber_snapshot EXCEPT ![stream[c]] = subscribers'[stream[c]]]
    /\ id' = [id EXCEPT ![c] = next_subscription_id_]
    /\ next_subscription_id_' = next_subscription_id_ + 1
    /\ at' = [at EXCEPT ![c] = "held"]
    /\ demand_mutex_' = NoOne
    /\ UNCHANGED <<streams_, demanded, stream, toCall, departed>>

(* Mutant: demand_mutex_ is released before the handler is called. *)
UnsubscribeEraseUnlocked(c) ==
    /\ at[c] = "held"
    /\ demand_mutex_ = NoOne
    /\ subscribers' = [subscribers EXCEPT ![stream[c]] = @ \ {id[c]}]
    /\ subscriber_snapshot' =
         [subscriber_snapshot EXCEPT ![stream[c]] = subscribers'[stream[c]]]
    /\ id' = [id EXCEPT ![c] = 0]
    /\ at' = [at EXCEPT ![c] = IF subscribers'[stream[c]] = {} THEN "release" ELSE "idle"]
    /\ departed' = [p \in Publishers |-> departed[p] \cup {id[c]}]
    /\ UNCHANGED <<streams_, next_subscription_id_, demand_mutex_, demanded, stream, toCall>>

(* Mutant: the snapshot is not rebuilt. *)
UnsubscribeEraseStale(c) ==
    /\ at[c] = "held"
    /\ demand_mutex_ = NoOne
    /\ subscribers' = [subscribers EXCEPT ![stream[c]] = @ \ {id[c]}]
    /\ id' = [id EXCEPT ![c] = 0]
    /\ \/ /\ subscribers'[stream[c]] = {}
          /\ at' = [at EXCEPT ![c] = "release"]
          /\ demand_mutex_' = c
       \/ /\ subscribers'[stream[c]] # {}
          /\ at' = [at EXCEPT ![c] = "idle"]
          /\ UNCHANGED demand_mutex_
    /\ departed' = [p \in Publishers |-> departed[p] \cup {id[c]}]
    /\ UNCHANGED <<streams_, subscriber_snapshot, next_subscription_id_, demanded, stream, toCall>>

(* unsubscribe, critical section: the last subscriber goes on to release   *)
(* the stream.                                                             *)
UnsubscribeErase(c) ==
    /\ at[c] = "held"
    /\ demand_mutex_ = NoOne
    /\ subscribers' = [subscribers EXCEPT ![stream[c]] = @ \ {id[c]}]
    /\ subscriber_snapshot' =
         [subscriber_snapshot EXCEPT ![stream[c]] = subscribers'[stream[c]]]
    /\ id' = [id EXCEPT ![c] = 0]
    /\ \/ /\ subscribers'[stream[c]] = {}
          /\ at' = [at EXCEPT ![c] = "release"]
          /\ demand_mutex_' = c
       \/ /\ subscribers'[stream[c]] # {}
          /\ at' = [at EXCEPT ![c] = "idle"]
          /\ UNCHANGED demand_mutex_
    /\ departed' = [p \in Publishers |-> departed[p] \cup {id[c]}]
    /\ UNCHANGED <<streams_, next_subscription_id_, demanded, stream, toCall>>

(* unsubscribe calls demand_handler(channel, stream, false) and ignores    *)
(* its answer.                                                             *)
UnsubscribeDemand(c) ==
    /\ at[c] = "release"
    /\ demanded' = [demanded EXCEPT ![stream[c]] = FALSE]
    /\ at' = [at EXCEPT ![c] = "idle"]
    /\ demand_mutex_' = NoOne
    /\ UNCHANGED <<streams_, subscribers, subscriber_snapshot,
                   next_subscription_id_, stream, id, toCall, departed>>

(* publish copies the snapshot under mutex_ (the GOP cache it also feeds   *)
(* is the module GopCache); a frame of an unknown stream is dropped.       *)
PublishBegin(p, s) ==
    /\ toCall[p] = {}
    /\ s \in streams_
    /\ subscriber_snapshot[s] # {}
    /\ toCall' = [toCall EXCEPT ![p] = subscriber_snapshot[s]]
    /\ departed' = [departed EXCEPT ![p] = {}]
    /\ UNCHANGED <<streams_, subscribers, subscriber_snapshot, next_subscription_id_,
                   demand_mutex_, demanded, at, stream, id>>

(* publish calls one callback of its snapshot, in the order of the         *)
(* unordered map, without a lock and whether or not the callback's         *)
(* subscription is still there: the snapshot's shared_ptr keeps it alive.  *)
PublishCall(p) ==
    \E i \in toCall[p] :
        /\ toCall' = [toCall EXCEPT ![p] = @ \ {i}]
        /\ UNCHANGED <<streams_, subscribers, subscriber_snapshot,
                       next_subscription_id_, demand_mutex_, demanded, at, stream, id,
                       departed>>

-----------------------------------------------------------------------------
SourceInit ==
    /\ streams_ = {}
    /\ subscribers = [s \in Streams |-> {}]
    /\ subscriber_snapshot = [s \in Streams |-> {}]
    /\ next_subscription_id_ = 1
    /\ demand_mutex_ = NoOne
    /\ demanded = [s \in Streams |-> FALSE]
    /\ at = [c \in Clients |-> "idle"]
    /\ stream \in [Clients -> Streams]
    /\ id = [c \in Clients |-> 0]
    /\ toCall = [p \in Publishers |-> {}]
    /\ departed = [p \in Publishers |-> {}]

SourceNext ==
    \/ \E s \in Streams : set_track(s)
    \/ \E c \in Clients, s \in Streams : SubscribeEnter(c, s)
    \/ \E c \in Clients, ok \in BOOLEAN : SubscribeDemand(c, ok)
    \/ \E c \in Clients : SubscribeAdd(c)
    \/ \E c \in Clients : UnsubscribeErase(c)
    \/ \E c \in Clients : UnsubscribeDemand(c)
    \/ \E p \in Publishers, s \in Streams : PublishBegin(p, s)
    \/ \E p \in Publishers : PublishCall(p)

SourceSpec == SourceInit /\ [][SourceNext]_sourceVars

-----------------------------------------------------------------------------
SourceTypeOK ==
    /\ streams_ \in SUBSET Streams
    /\ subscribers \in [Streams -> SUBSET Ids]
    /\ subscriber_snapshot \in [Streams -> SUBSET Ids]
    /\ next_subscription_id_ \in 1..(IdBound + 1)
    /\ demand_mutex_ \in Clients \cup {NoOne}
    /\ demanded \in [Streams -> BOOLEAN]
    /\ at \in [Clients -> {"idle", "demand", "add", "held", "release"}]
    /\ stream \in [Clients -> Streams]
    /\ id \in [Clients -> 0..IdBound]
    /\ toCall \in [Publishers -> SUBSET Ids]
    /\ departed \in [Publishers -> SUBSET Ids]

(* Clients inside a call hold demand_mutex_, one at a time. *)
OneCallAtATime ==
    \A c \in Clients : at[c] \in {"demand", "add", "release"} <=> demand_mutex_ = c

(* Whenever no subscribe or unsubscribe is under way, the device has been  *)
(* asked for exactly the streams that have a subscriber, although both     *)
(* calls drop mutex_ around the handler (media_source.cpp:109-125,145-166).*)
DemandMatchesSubscribers ==
    demand_mutex_ = NoOne =>
        \A s \in Streams : demanded[s] <=> subscribers[s] # {}

(* No subscriber is ever attached to a stream the device was not asked     *)
(* for, not even between the steps of a call.                              *)
SubscribedIsDemanded ==
    \A s \in Streams : subscribers[s] # {} => demanded[s]

(* The frames of a stream go to exactly the subscriptions clients hold: no *)
(* subscription outlives its unsubscribe in the snapshot, none is leaked   *)
(* and none is missed (media_source.cpp:131-139,151-160).                  *)
SnapshotIsHeld ==
    \A s \in Streams :
        subscriber_snapshot[s] = {id[c] : c \in {d \in Clients : at[d] = "held" /\ stream[d] = s}}

(* publish calls outside the lock, so a callback can run after its         *)
(* unsubscribe has returned (media_source.cpp:94-99).  But only on behalf  *)
(* of a publish that had taken its snapshot before the unsubscribe: no     *)
(* publish that begins later ever calls a subscription that is gone, so    *)
(* each capture thread makes at most one such late call.                   *)
LateCallsAreOld ==
    \A p \in Publishers : \A i \in toCall[p] :
        (\A s \in Streams : i \notin subscribers[s]) => i \in departed[p]
=============================================================================
