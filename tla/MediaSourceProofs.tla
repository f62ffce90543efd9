-------------------------- MODULE MediaSourceProofs --------------------------
(***************************************************************************)
(* Proofs about MediaSource, for any clients, capture threads and streams. *)
(*                                                                         *)
(* DemandMatchesSubscribers is not inductive: while a call is under way    *)
(* the device may have been asked for a stream that has no subscriber yet  *)
(* (or no longer has one).  DemandInv says precisely when, HeldInv ties    *)
(* the subscriber table to the ids that clients hold and the snapshot to   *)
(* the table, and FreshInv keeps those ids below the counter.              *)
(***************************************************************************)
EXTENDS MediaSource, TLAPS

(* What the place of a client in its call says about its stream. *)
DemandInv ==
    /\ \A s \in Streams :
          demanded[s] <=> \/ subscribers[s] # {}
                          \/ \E c \in Clients : stream[c] = s /\ at[c] \in {"add", "release"}
    /\ \A c \in Clients : at[c] \in {"demand", "release"} => subscribers[stream[c]] = {}

(* The table holds exactly the ids of clients that hold a subscription. *)
HeldInv ==
    /\ \A c \in Clients : at[c] = "held" => id[c] \in subscribers[stream[c]]
    /\ \A s \in Streams : \A i \in subscribers[s] :
          \E c \in Clients : at[c] = "held" /\ stream[c] = s /\ id[c] = i
    /\ \A c, d \in Clients : at[c] = "held" /\ at[d] = "held" /\ id[c] = id[d] => c = d
    /\ subscriber_snapshot = subscribers

(* Every id in use was handed out, and none is handed out twice. *)
FreshInv ==
    /\ \A s \in Streams : \A i \in subscribers[s] : i < next_subscription_id_
    /\ \A c \in Clients : at[c] \in {"demand", "add"} => next_subscription_id_ <= IdBound

SourceInv == SourceTypeOK /\ OneCallAtATime /\ DemandInv /\ HeldInv /\ FreshInv /\ LateCallsAreOld

-----------------------------------------------------------------------------
(* The initial state satisfies the invariant. *)
LEMMA SourceInitInv == SourceInit => SourceInv
  BY SourceAssumption DEF SourceInit, SourceInv, SourceTypeOK, OneCallAtATime, DemandInv, HeldInv,
     FreshInv, LateCallsAreOld, Ids

(* set_track only registers a stream. *)
LEMMA SetTrackInv ==
  ASSUME SourceInv, NEW s \in Streams, set_track(s)
  PROVE  SourceInv'
  BY DEF set_track, SourceInv, SourceTypeOK, OneCallAtATime, DemandInv, HeldInv,
     FreshInv, LateCallsAreOld, Ids

(* Entering subscribe takes demand_mutex_ and remembers whether the stream *)
(* has a subscriber.                                                       *)
LEMMA SubscribeEnterInv ==
  ASSUME SourceInv, NEW c \in Clients, NEW s \in Streams, SubscribeEnter(c, s)
  PROVE  SourceInv'
<1> USE DEF SubscribeEnter, SourceInv
<1>1. SourceTypeOK'
  BY DEF SourceTypeOK, Ids
<1>2. OneCallAtATime'
  BY SourceAssumption DEF SourceTypeOK, OneCallAtATime
<1>3. DemandInv'
  <2>1. \A d \in Clients : at[d] \notin {"demand", "add", "release"}
    BY SourceAssumption DEF OneCallAtATime
  <2>2. \A d \in Clients : d # c => at'[d] = at[d] /\ stream'[d] = stream[d]
    BY DEF SourceTypeOK
  <2>3. stream'[c] = s /\ at'[c] = IF subscribers[s] = {} THEN "demand" ELSE "add"
    BY DEF SourceTypeOK
  <2> QED
    BY <2>1, <2>2, <2>3 DEF DemandInv
<1>4. HeldInv'
  BY DEF SourceTypeOK, HeldInv
<1>5. FreshInv'
  BY DEF SourceTypeOK, FreshInv
<1>6. LateCallsAreOld'
  BY DEF LateCallsAreOld
<1> QED
  BY <1>1, <1>2, <1>3, <1>4, <1>5, <1>6

(* The handler's answer decides between the second critical section and a *)
(* return without a trace.                                                 *)
LEMMA SubscribeDemandInv ==
  ASSUME SourceInv, NEW c \in Clients, NEW ok \in BOOLEAN, SubscribeDemand(c, ok)
  PROVE  SourceInv'
<1> USE DEF SubscribeDemand, SourceInv
<1>0. demand_mutex_ = c /\ \A d \in Clients : d # c => at[d] \notin {"demand", "add", "release"}
  BY SourceAssumption DEF OneCallAtATime
<1>1. SourceTypeOK'
  BY DEF SourceTypeOK, Ids
<1>2. OneCallAtATime'
  BY <1>0, SourceAssumption DEF SourceTypeOK, OneCallAtATime
<1>3. DemandInv'
  <2>1. \A d \in Clients : d # c => at'[d] = at[d]
    BY DEF SourceTypeOK
  <2>2. at'[c] = IF ok THEN "add" ELSE "idle"
    BY DEF SourceTypeOK
  <2>3. demanded'[stream[c]] = ok /\ \A s \in Streams : s # stream[c] => demanded'[s] = demanded[s]
    BY DEF SourceTypeOK
  <2>4. subscribers[stream[c]] = {} /\ stream[c] \in Streams
    BY DEF DemandInv, SourceTypeOK
  <2>5. \A s \in Streams :
          demanded'[s] <=> \/ subscribers[s] # {}
                           \/ \E d \in Clients : stream[d] = s /\ at'[d] \in {"add", "release"}
    <3> TAKE s \in Streams
    <3>1. CASE s = stream[c]
      BY <1>0, <2>1, <2>2, <2>3, <2>4, <3>1
    <3>2. CASE s # stream[c]
      BY <1>0, <2>1, <2>2, <2>3, <3>2 DEF DemandInv
    <3> QED BY <3>1, <3>2
  <2> QED
    BY <1>0, <2>1, <2>2, <2>5 DEF DemandInv
<1>4. HeldInv'
  BY DEF SourceTypeOK, HeldInv
<1>5. FreshInv'
  BY DEF SourceTypeOK, FreshInv
<1>6. LateCallsAreOld'
  BY DEF LateCallsAreOld
<1> QED
  BY <1>1, <1>2, <1>3, <1>4, <1>5, <1>6

(* The second critical section attaches an id nobody has held before. *)
LEMMA SubscribeAddInv ==
  ASSUME SourceInv, NEW c \in Clients, SubscribeAdd(c)
  PROVE  SourceInv'
<1> USE DEF SubscribeAdd, SourceInv
<1> DEFINE n == next_subscription_id_
           t == stream[c]
<1>0. demand_mutex_ = c /\ \A d \in Clients : d # c => at[d] \notin {"demand", "add", "release"}
  BY SourceAssumption DEF OneCallAtATime
<1>a. n \in Ids /\ t \in Streams /\ n + 1 \in 1..(IdBound + 1)
  BY SourceAssumption DEF FreshInv, SourceTypeOK, Ids
<1>b. /\ subscribers'[t] = subscribers[t] \cup {n}
      /\ \A s \in Streams : s # t => subscribers'[s] = subscribers[s]
      /\ subscribers' \in [Streams -> SUBSET Ids]
  BY <1>a DEF SourceTypeOK
<1>c. subscriber_snapshot' = subscribers'
  BY <1>a, <1>b DEF HeldInv, SourceTypeOK
<1>d. /\ at'[c] = "held" /\ id'[c] = n
      /\ \A d \in Clients : d # c => at'[d] = at[d] /\ id'[d] = id[d]
  BY DEF SourceTypeOK
<1>1. SourceTypeOK'
  BY <1>a, <1>b, <1>c DEF SourceTypeOK, Ids
<1>2. OneCallAtATime'
  BY <1>0, SourceAssumption DEF SourceTypeOK, OneCallAtATime
<1>3. DemandInv'
  <2>1. \A s \in Streams :
          demanded[s] <=> \/ subscribers'[s] # {}
                          \/ \E d \in Clients : stream[d] = s /\ at'[d] \in {"add", "release"}
    <3> TAKE s \in Streams
    <3>1. CASE s = t
      BY <1>b, <3>1 DEF DemandInv
    <3>2. CASE s # t
      BY <1>0, <1>b, <1>d, <3>2 DEF DemandInv
    <3> QED BY <3>1, <3>2
  <2>2. \A d \in Clients : at'[d] \notin {"demand", "release"}
    BY <1>0, <1>d
  <2> QED
    BY <2>1, <2>2 DEF DemandInv
<1>4. HeldInv'
  <2>0. \A d \in Clients : at[d] = "held" => id[d] < n /\ stream[d] \in Streams
    BY DEF HeldInv, FreshInv, SourceTypeOK
  <2>1. \A d \in Clients : at'[d] = "held" => id'[d] \in subscribers'[stream[d]]
    BY <1>a, <1>b, <1>d, <2>0 DEF HeldInv
  <2>2. \A s \in Streams : \A i \in subscribers'[s] :
          \E d \in Clients : at'[d] = "held" /\ stream[d] = s /\ id'[d] = i
    <3> TAKE s \in Streams
    <3> TAKE i \in subscribers'[s]
    <3>1. CASE s = t /\ i = n
      BY <1>d, <3>1
    <3>2. CASE ~(s = t /\ i = n)
      <4>1. i \in subscribers[s]
        BY <1>b, <3>2
      <4>2. PICK d \in Clients : at[d] = "held" /\ stream[d] = s /\ id[d] = i
        BY <4>1 DEF HeldInv
      <4>3. d # c
        BY <4>2
      <4> QED BY <1>d, <4>2, <4>3
    <3> QED BY <3>1, <3>2
  <2>3. \A d, e \in Clients : at'[d] = "held" /\ at'[e] = "held" /\ id'[d] = id'[e] => d = e
    <3> SUFFICES ASSUME NEW d \in Clients, NEW e \in Clients,
                        at'[d] = "held", at'[e] = "held", id'[d] = id'[e], d # e
                 PROVE  FALSE
      OBVIOUS
    <3>n. n \in Nat /\ \A f \in Clients : id[f] \in Nat
      BY DEF SourceTypeOK
    <3>1. CASE d # c /\ e # c
      BY <1>d, <3>1 DEF HeldInv
    <3>2. CASE d = c
      BY <1>d, <2>0, <3>2, <3>n
    <3>3. CASE e = c
      BY <1>d, <2>0, <3>3, <3>n
    <3> QED BY <3>1, <3>2, <3>3
  <2>u. stream' = stream
    OBVIOUS
  <2> HIDE DEF SubscribeAdd
  <2> QED
    BY <1>c, <2>u, <2>1, <2>2, <2>3 DEF HeldInv
<1>5. FreshInv'
  <2>1. \A d \in Clients : at'[d] \notin {"demand", "add"}
    BY <1>0, <1>d
  <2>2. \A s \in Streams : \A i \in subscribers'[s] : i < n + 1
    BY <1>a, <1>b DEF FreshInv, SourceTypeOK, Ids
  <2> QED
    BY <2>1, <2>2 DEF FreshInv
<1>6. LateCallsAreOld'
  <2>1. \A s \in Streams : subscribers[s] \subseteq subscribers'[s]
    BY <1>b
  <2> QED
    BY <2>1 DEF LateCallsAreOld
<1> QED
  BY <1>1, <1>2, <1>3, <1>4, <1>5, <1>6

(* unsubscribe detaches the caller's id and no other. *)
LEMMA UnsubscribeEraseInv ==
  ASSUME SourceInv, NEW c \in Clients, UnsubscribeErase(c)
  PROVE  SourceInv'
<1> USE DEF UnsubscribeErase, SourceInv
<1> DEFINE t == stream[c]
<1>0. \A d \in Clients : at[d] \notin {"demand", "add", "release"}
  BY SourceAssumption DEF OneCallAtATime
<1>a. t \in Streams /\ id[c] \in subscribers[t]
  BY DEF SourceTypeOK, HeldInv
<1>b. /\ subscribers'[t] = subscribers[t] \ {id[c]}
      /\ \A s \in Streams : s # t => subscribers'[s] = subscribers[s]
      /\ subscribers' \in [Streams -> SUBSET Ids]
  BY <1>a DEF SourceTypeOK
<1>c. subscriber_snapshot' = subscribers'
  BY <1>a, <1>b DEF HeldInv, SourceTypeOK
<1>d. /\ at'[c] = IF subscribers'[t] = {} THEN "release" ELSE "idle"
      /\ \A d \in Clients : d # c => at'[d] = at[d] /\ id'[d] = id[d]
  BY DEF SourceTypeOK
<1>1. SourceTypeOK'
  BY <1>a, <1>b, <1>c, SourceAssumption DEF SourceTypeOK, Ids
<1>2. OneCallAtATime'
  BY <1>0, <1>d, SourceAssumption DEF SourceTypeOK, OneCallAtATime
<1>3. DemandInv'
  <2>1. \A s \in Streams :
          demanded[s] <=> \/ subscribers'[s] # {}
                          \/ \E d \in Clients : stream[d] = s /\ at'[d] \in {"add", "release"}
    <3> TAKE s \in Streams
    <3>1. CASE s = t
      BY <1>0, <1>a, <1>b, <1>d, <3>1 DEF DemandInv
    <3>2. CASE s # t
      BY <1>0, <1>b, <1>d, <3>2 DEF DemandInv
    <3> QED BY <3>1, <3>2
  <2>2. \A d \in Clients : at'[d] \in {"demand", "release"} => subscribers'[stream[d]] = {}
    BY <1>0, <1>d
  <2> QED
    BY <2>1, <2>2 DEF DemandInv
<1>4. HeldInv'
  <2>1. \A d \in Clients : at'[d] = "held" => d # c /\ at[d] = "held" /\ id'[d] = id[d] /\ id[d] # id[c]
    BY <1>d DEF HeldInv
  <2>2. \A d \in Clients : at'[d] = "held" => id'[d] \in subscribers'[stream[d]]
    BY <1>b, <2>1 DEF HeldInv, SourceTypeOK
  <2>3. \A s \in Streams : \A i \in subscribers'[s] :
          \E d \in Clients : at'[d] = "held" /\ stream[d] = s /\ id'[d] = i
    <3> TAKE s \in Streams
    <3> TAKE i \in subscribers'[s]
    <3>1. i \in subscribers[s] /\ (s = t => i # id[c])
      BY <1>b
    <3>2. PICK d \in Clients : at[d] = "held" /\ stream[d] = s /\ id[d] = i
      BY <3>1 DEF HeldInv
    <3>3. d # c
      BY <3>1, <3>2
    <3> QED BY <1>d, <3>2, <3>3
  <2>4. \A d, e \in Clients : at'[d] = "held" /\ at'[e] = "held" /\ id'[d] = id'[e] => d = e
    BY <2>1 DEF HeldInv
  <2>u. stream' = stream
    OBVIOUS
  <2> HIDE DEF UnsubscribeErase
  <2> QED
    BY <1>c, <2>u, <2>2, <2>3, <2>4 DEF HeldInv
<1>5. FreshInv'
  <2>1. \A d \in Clients : at'[d] \notin {"demand", "add"}
    BY <1>0, <1>d
  <2> QED
    BY <1>b, <2>1 DEF FreshInv
<1>6. LateCallsAreOld'
  <2> SUFFICES ASSUME NEW p \in Publishers, NEW i \in toCall[p],
                      \A s \in Streams : i \notin subscribers'[s]
               PROVE  i \in departed'[p]
    BY DEF LateCallsAreOld
  <2>1. departed'[p] = departed[p] \cup {id[c]}
    OBVIOUS
  <2>2. CASE i = id[c]
    BY <2>1, <2>2
  <2>3. CASE i # id[c]
    <3>1. \A s \in Streams : i \notin subscribers[s]
      BY <1>b, <2>3
    <3> QED BY <2>1, <3>1 DEF LateCallsAreOld
  <2> QED BY <2>2, <2>3
<1> QED
  BY <1>1, <1>2, <1>3, <1>4, <1>5, <1>6

(* The last subscriber's release. *)
LEMMA UnsubscribeDemandInv ==
  ASSUME SourceInv, NEW c \in Clients, UnsubscribeDemand(c)
  PROVE  SourceInv'
<1> USE DEF UnsubscribeDemand, SourceInv
<1>0. demand_mutex_ = c /\ \A d \in Clients : d # c => at[d] \notin {"demand", "add", "release"}
  BY SourceAssumption DEF OneCallAtATime
<1>1. SourceTypeOK'
  BY DEF SourceTypeOK, Ids
<1>2. OneCallAtATime'
  BY <1>0, SourceAssumption DEF SourceTypeOK, OneCallAtATime
<1>d. at'[c] = "idle" /\ \A d \in Clients : d # c => at'[d] = at[d]
  BY DEF SourceTypeOK
<1>e. /\ demanded'[stream[c]] = FALSE
      /\ \A s \in Streams : s # stream[c] => demanded'[s] = demanded[s]
      /\ subscribers[stream[c]] = {}
  BY DEF SourceTypeOK, DemandInv
<1>3. DemandInv'
  <2>1. \A s \in Streams :
          demanded'[s] <=> \/ subscribers[s] # {}
                           \/ \E d \in Clients : stream[d] = s /\ at'[d] \in {"add", "release"}
    <3> TAKE s \in Streams
    <3>1. CASE s = stream[c]
      BY <1>0, <1>d, <1>e, <3>1
    <3>2. CASE s # stream[c]
      BY <1>0, <1>d, <1>e, <3>2 DEF DemandInv
    <3> QED BY <3>1, <3>2
  <2> QED
    BY <1>0, <1>d, <2>1 DEF DemandInv
<1>4. HeldInv'
  BY <1>d DEF HeldInv
<1>5. FreshInv'
  BY <1>0, <1>d DEF FreshInv
<1>6. LateCallsAreOld'
  BY DEF LateCallsAreOld
<1> QED
  BY <1>1, <1>2, <1>3, <1>4, <1>5, <1>6

(* publish copies the snapshot and works it off. *)
LEMMA PublishInv ==
  ASSUME SourceInv, NEW p \in Publishers,
         (\E s \in Streams : PublishBegin(p, s)) \/ PublishCall(p)
  PROVE  SourceInv'
<1> USE DEF PublishBegin, PublishCall, SourceInv
<1>1. SourceTypeOK'
  BY DEF SourceTypeOK, Ids
<1>2. OneCallAtATime'
  BY DEF OneCallAtATime
<1>3. DemandInv'
  BY DEF DemandInv
<1>4. HeldInv'
  BY DEF HeldInv
<1>5. FreshInv'
  BY DEF FreshInv, HeldInv, SourceTypeOK
<1>6. LateCallsAreOld'
  <2> SUFFICES ASSUME NEW q \in Publishers, NEW i \in toCall'[q],
                      \A s \in Streams : i \notin subscribers[s]
               PROVE  i \in departed'[q]
    BY DEF LateCallsAreOld
  <2>1. CASE PublishCall(p)
    BY <2>1 DEF LateCallsAreOld, SourceTypeOK
  <2>2. CASE \E s \in Streams : PublishBegin(p, s)
    <3>1. PICK s \in Streams : PublishBegin(p, s)
      BY <2>2
    <3>2. q # p
      BY <3>1 DEF HeldInv, SourceTypeOK
    <3> QED BY <3>1, <3>2 DEF LateCallsAreOld, SourceTypeOK
  <2> QED BY <2>1, <2>2
<1> QED
  BY <1>1, <1>2, <1>3, <1>4, <1>5, <1>6

(* Every step preserves the invariant. *)
LEMMA SourceStepInv == SourceInv /\ [SourceNext]_sourceVars => SourceInv'
<1> SUFFICES ASSUME SourceInv, [SourceNext]_sourceVars
             PROVE  SourceInv'
  OBVIOUS
<1>1. ASSUME NEW s \in Streams, set_track(s) PROVE SourceInv'
  BY <1>1, SetTrackInv
<1>2. ASSUME NEW c \in Clients, NEW s \in Streams, SubscribeEnter(c, s) PROVE SourceInv'
  BY <1>2, SubscribeEnterInv
<1>3. ASSUME NEW c \in Clients, NEW ok \in BOOLEAN, SubscribeDemand(c, ok) PROVE SourceInv'
  BY <1>3, SubscribeDemandInv
<1>4. ASSUME NEW c \in Clients, SubscribeAdd(c) PROVE SourceInv'
  BY <1>4, SubscribeAddInv
<1>5. ASSUME NEW c \in Clients, UnsubscribeErase(c) PROVE SourceInv'
  BY <1>5, UnsubscribeEraseInv
<1>6. ASSUME NEW c \in Clients, UnsubscribeDemand(c) PROVE SourceInv'
  BY <1>6, UnsubscribeDemandInv
<1>7. ASSUME NEW p \in Publishers, NEW s \in Streams, PublishBegin(p, s) PROVE SourceInv'
  BY <1>7, PublishInv
<1>8. ASSUME NEW p \in Publishers, PublishCall(p) PROVE SourceInv'
  BY <1>8, PublishInv
<1>9. CASE UNCHANGED sourceVars
  BY <1>9 DEF sourceVars, SourceInv, SourceTypeOK, OneCallAtATime, DemandInv, HeldInv,
     FreshInv, LateCallsAreOld
<1> QED
  BY <1>1, <1>2, <1>3, <1>4, <1>5, <1>6, <1>7, <1>8, <1>9 DEF SourceNext

(* The three properties follow from the invariant. *)
LEMMA SourceInvImplies ==
  SourceInv => DemandMatchesSubscribers /\ SubscribedIsDemanded /\ SnapshotIsHeld
<1> SUFFICES ASSUME SourceInv
             PROVE  DemandMatchesSubscribers /\ SubscribedIsDemanded /\ SnapshotIsHeld
  OBVIOUS
<1>1. DemandMatchesSubscribers
  BY SourceAssumption DEF SourceInv, OneCallAtATime, DemandInv, DemandMatchesSubscribers
<1>2. SubscribedIsDemanded
  BY DEF SourceInv, DemandInv, SubscribedIsDemanded
<1>3. SnapshotIsHeld
  <2> SUFFICES ASSUME NEW s \in Streams
               PROVE  subscriber_snapshot[s] =
                        {id[c] : c \in {d \in Clients : at[d] = "held" /\ stream[d] = s}}
    BY DEF SnapshotIsHeld
  <2>1. \A i \in subscribers[s] : \E c \in Clients : at[c] = "held" /\ stream[c] = s /\ id[c] = i
    BY DEF SourceInv, HeldInv
  <2>2. \A c \in Clients : at[c] = "held" /\ stream[c] = s => id[c] \in subscribers[s]
    BY DEF SourceInv, HeldInv
  <2>3. subscriber_snapshot[s] = subscribers[s]
    BY DEF SourceInv, HeldInv
  <2> QED BY <2>1, <2>2, <2>3
<1> QED BY <1>1, <1>2, <1>3

(* For every set of clients, capture threads and streams: the device is    *)
(* asked for exactly the subscribed streams whenever no call is under way, *)
(* never misses a subscribed one, and frames go to exactly the             *)
(* subscriptions that are held (media_source.cpp:75-167).                  *)
THEOREM DemandIsRight ==
  SourceSpec => [](SourceTypeOK /\ DemandMatchesSubscribers /\ SubscribedIsDemanded
                   /\ SnapshotIsHeld)
<1>1. SourceInv => SourceTypeOK
  BY DEF SourceInv
<1> QED
  BY <1>1, SourceInitInv, SourceStepInv, SourceInvImplies, PTL DEF SourceSpec

(* For every set of clients, capture threads and streams: a callback that  *)
(* publish has yet to call and whose subscription is gone was unsubscribed *)
(* after that publish copied its snapshot; a publish that begins after an  *)
(* unsubscribe never calls the callback (media_source.cpp:94-99,151-160).  *)
THEOREM LateCallsStayOld == SourceSpec => []LateCallsAreOld
<1>1. SourceInv => LateCallsAreOld
  BY DEF SourceInv
<1> QED
  BY <1>1, SourceInitInv, SourceStepInv, PTL DEF SourceSpec
=============================================================================
