------------------------------ MODULE WorkQueue ------------------------------
(***************************************************************************)
(* A bounded queue with one worker thread and a stop flag, as the recorder *)
(* has for frames (src/record/segment_recorder.cpp:91-158) and the         *)
(* uploader for HTTP requests (src/record/http_segment_uploader.cpp:       *)
(* 245-333).  Both use the same protocol.                                  *)
(*                                                                         *)
(* The queue is guarded by a mutex, the stop flag is an atomic that stop   *)
(* sets WITHOUT the mutex.  The worker evaluates the wait's condition with *)
(* the mutex held and then, still holding it, goes to sleep: the place     *)
(* "deciding" is the moment in between.  Producers cannot act in it, stop  *)
(* can.                                                                    *)
(***************************************************************************)
EXTENDS Integers, Sequences

CONSTANT Capacity   \* max_pending_frames, kMaxQueued

VARIABLES
    queue,      \* queue_
    stopping,   \* stopping_
    worker      \* where the worker thread stands

Places == {"ready", "deciding", "asleep", "busy", "leaving", "exited"}

(* Only the worker ever holds the mutex across a step. *)
MutexFree == worker # "deciding"

(* notify_one and notify_all: there is one waiter at most. *)
Notified == IF worker = "asleep" THEN "ready" ELSE worker

-----------------------------------------------------------------------------
(* The producer's critical section: the newest item is dropped when the    *)
(* queue is full.                                                          *)
Full == Len(queue) >= Capacity

(* Mutant: the limit is not looked at. *)
PushUnbounded(x) ==
    /\ MutexFree
    /\ queue' = Append(queue, x)
    /\ worker' = Notified
    /\ UNCHANGED stopping

(* Mutant: the worker is not notified. *)
PushSilently(x) ==
    /\ MutexFree
    /\ queue' = IF Full THEN queue ELSE Append(queue, x)
    /\ UNCHANGED <<stopping, worker>>

Push(x) ==
    /\ MutexFree
    /\ queue' = IF Full THEN queue ELSE Append(queue, x)
    /\ worker' = IF Full THEN worker ELSE Notified
    /\ UNCHANGED stopping

(* stop: the flag, then notify_all (the two steps of a caller that holds   *)
(* no lock), then join.                                                    *)
SetStopping ==
    /\ stopping' = TRUE
    /\ UNCHANGED <<queue, worker>>

NotifyStop ==
    /\ worker' = Notified
    /\ UNCHANGED <<queue, stopping>>

Joined == worker = "exited"

-----------------------------------------------------------------------------
(* The wait's condition holds: the worker takes the oldest item, or leaves *)
(* once the queue is empty.                                                *)
WaitReturns ==
    /\ worker = "ready"
    /\ stopping \/ queue # <<>>
    /\ IF queue = <<>> THEN worker' = "leaving" /\ UNCHANGED queue
                       ELSE worker' = "busy" /\ queue' = Tail(queue)
    /\ UNCHANGED stopping

(* The condition does not hold ... *)
WaitDecides ==
    /\ worker = "ready"
    /\ ~stopping /\ queue = <<>>
    /\ worker' = "deciding"
    /\ UNCHANGED <<queue, stopping>>

(* ... and the worker sleeps, whatever has happened to the flag since.     *)
WaitSleeps ==
    /\ worker = "deciding"
    /\ worker' = "asleep"
    /\ UNCHANGED <<queue, stopping>>

(* The item has been dealt with. *)
Done ==
    /\ worker = "busy"
    /\ worker' = "ready"
    /\ UNCHANGED <<queue, stopping>>

(* The worker function returns. *)
Leave ==
    /\ worker = "leaving"
    /\ worker' = "exited"
    /\ UNCHANGED <<queue, stopping>>

-----------------------------------------------------------------------------
(* The worker is about to sleep although the flag is set: if notify_all    *)
(* has been called by now, nobody will ever wake it.                       *)
AboutToMissStop == worker = "deciding" /\ stopping
=============================================================================
