---------------------------- MODULE CameraQueues ----------------------------
(***************************************************************************)
(* MultiCameraRunner, one camera: the worker thread puts its frames into a *)
(* bounded queue; the drain thread, the only consumer of that queue, shows *)
(* each frame to the streamer and passes it on through a second bounded    *)
(* queue; stream(), called by the main loop, hands it to the tracklet      *)
(* collector.  When the first queue is full the drop policy decides; when  *)
(* the second one is full the frame is lost without a trace.               *)
(*                                                                         *)
(* Cameras share the drain thread but no queue, and the drain thread gives *)
(* each of them its turn, so one camera stands for all.  "drop_oldest" and *)
(* "block_with_timeout" differ only in how long the put waits, which is    *)
(* not modelled: a put that finds the queue full may be given up at once   *)
(* or succeed later.  A frame is its number in the order of production.    *)
(***************************************************************************)
EXTENDS Integers, Sequences, FiniteSets

CONSTANTS
    QueueSize,     \* frame_queue_maxsize, of both queues
    MaxFrames      \* bound on the frames the worker produces

Policies == {"drop_oldest", "drop_newest", "block_with_timeout"}

ASSUME QueueAssumption == QueueSize \in Nat \ {0} /\ MaxFrames \in Nat

VARIABLES
    dropPolicy,   \* drop_policy
    frames,       \* frames the worker produced so far
    workerStep,   \* where _run_worker is
    upstream,     \* the worker's queue
    drops,        \* the camera's drop counter
    drained,      \* frames the drain thread took, in that order
    inHand,       \* the frame the drain thread is passing on, or 0
    downstream,   \* the second queue
    collected,    \* frames stream() yielded, in that order
    running,      \* the threads, and the consumer of stream(), still in their loops
    stopSet       \* _stop_event

queueVars == <<dropPolicy, frames, workerStep, upstream, drops, drained, inHand,
               downstream, collected, running, stopSet>>

Frames == 1..MaxFrames
Loops == {"worker", "drain", "stream"}

QueuesTypeOK ==
    /\ dropPolicy \in Policies /\ frames \in 0..MaxFrames
    /\ workerStep \in {"next", "put", "evict", "retry"}
    /\ upstream \in Seq(Frames) /\ Len(upstream) <= QueueSize
    /\ downstream \in Seq(Frames) /\ Len(downstream) <= QueueSize
    /\ drops \in Nat /\ drained \in Seq(Frames) /\ collected \in Seq(Frames)
    /\ inHand \in 0..MaxFrames
    /\ running \subseteq Loops /\ stopSet \in BOOLEAN

QueuesInit ==
    /\ dropPolicy \in Policies
    /\ frames = 0 /\ workerStep = "next" /\ drops = 0
    /\ upstream = <<>> /\ drained = <<>> /\ inHand = 0
    /\ downstream = <<>> /\ collected = <<>>
    /\ running = Loops /\ stopSet = FALSE

-----------------------------------------------------------------------------
(* worker.run() yields; the stop event is looked at once per frame. *)
ProduceFrame ==
    /\ "worker" \in running /\ workerStep = "next"
    /\ ~stopSet /\ frames < MaxFrames
    /\ frames' = frames + 1 /\ workerStep' = "put"
    /\ UNCHANGED <<dropPolicy, upstream, drops, drained, inHand, downstream, collected,
                   running, stopSet>>

WorkerEnds ==
    /\ "worker" \in running /\ workerStep = "next" /\ stopSet
    /\ running' = running \ {"worker"}
    /\ UNCHANGED <<dropPolicy, frames, workerStep, upstream, drops, drained, inHand,
                   downstream, collected, stopSet>>

PutFrame ==
    /\ workerStep = "put" /\ Len(upstream) < QueueSize
    /\ upstream' = Append(upstream, frames)
    /\ workerStep' = "next"
    /\ UNCHANGED <<dropPolicy, frames, drops, drained, inHand, downstream, collected,
                   running, stopSet>>

(* Mutant: block_with_timeout blocks without a timeout. *)
PutRefused_Blocks ==
    /\ workerStep = "put" /\ Len(upstream) = QueueSize
    /\ dropPolicy # "block_with_timeout"
    /\ drops' = drops + 1
    /\ workerStep' = IF dropPolicy = "drop_newest" THEN "evict" ELSE "next"
    /\ UNCHANGED <<dropPolicy, frames, upstream, drained, inHand, downstream, collected,
                   running, stopSet>>

(* The put raises Full.  drop_newest goes on to make room; the other two
   policies let the new frame go. *)
PutRefused ==
    /\ workerStep = "put" /\ Len(upstream) = QueueSize
    /\ drops' = drops + 1
    /\ workerStep' = IF dropPolicy = "drop_newest" THEN "evict" ELSE "next"
    /\ UNCHANGED <<dropPolicy, frames, upstream, drained, inHand, downstream, collected,
                   running, stopSet>>

(* Mutant: the eviction takes everything there is. *)
EvictOldest_All ==
    /\ workerStep = "evict"
    /\ upstream' = <<>>
    /\ workerStep' = "retry"
    /\ UNCHANGED <<dropPolicy, frames, drops, drained, inHand, downstream, collected,
                   running, stopSet>>

(* get_nowait: the drain thread may have emptied the queue meanwhile. *)
EvictOldest ==
    /\ workerStep = "evict"
    /\ upstream' = IF upstream = <<>> THEN upstream ELSE Tail(upstream)
    /\ workerStep' = "retry"
    /\ UNCHANGED <<dropPolicy, frames, drops, drained, inHand, downstream, collected,
                   running, stopSet>>

(* put_nowait once more; a second failure counts a second drop. *)
RetryPut ==
    /\ workerStep = "retry"
    /\ IF Len(upstream) < QueueSize
       THEN upstream' = Append(upstream, frames) /\ drops' = drops
       ELSE upstream' = upstream /\ drops' = drops + 1
    /\ workerStep' = "next"
    /\ UNCHANGED <<dropPolicy, frames, drained, inHand, downstream, collected, running,
                   stopSet>>

-----------------------------------------------------------------------------
(* Mutant: a frame that the second queue may not take goes back to the end of
   the first one. *)
DrainFrame_Requeues ==
    /\ "drain" \in running /\ inHand = 0 /\ ~stopSet
    /\ upstream # <<>>
    /\ inHand' = IF Len(downstream) = QueueSize THEN 0 ELSE Head(upstream)
    /\ upstream' = IF Len(downstream) = QueueSize
                   THEN Append(Tail(upstream), Head(upstream)) ELSE Tail(upstream)
    /\ drained' = IF Len(downstream) = QueueSize THEN drained
                  ELSE Append(drained, Head(upstream))
    /\ UNCHANGED <<dropPolicy, frames, workerStep, drops, downstream, collected, running,
                   stopSet>>

DrainFrame ==
    /\ "drain" \in running /\ inHand = 0 /\ ~stopSet
    /\ upstream # <<>>
    /\ inHand' = Head(upstream) /\ upstream' = Tail(upstream)
    /\ drained' = Append(drained, Head(upstream))
    /\ UNCHANGED <<dropPolicy, frames, workerStep, drops, downstream, collected, running,
                   stopSet>>

(* After the streamer has it: put_nowait into the second queue; Full is
   logged and not counted. *)
PassOn ==
    /\ inHand # 0
    /\ downstream' = IF Len(downstream) < QueueSize THEN Append(downstream, inHand)
                     ELSE downstream
    /\ inHand' = 0
    /\ UNCHANGED <<dropPolicy, frames, workerStep, upstream, drops, drained, collected,
                   running, stopSet>>

DrainEnds ==
    /\ "drain" \in running /\ inHand = 0 /\ stopSet
    /\ running' = running \ {"drain"}
    /\ UNCHANGED <<dropPolicy, frames, workerStep, upstream, drops, drained, inHand,
                   downstream, collected, stopSet>>

(* stream() yields the frame; the main loop gives it to the collector. *)
StreamFrame ==
    /\ "stream" \in running /\ downstream # <<>>
    /\ collected' = Append(collected, Head(downstream))
    /\ downstream' = Tail(downstream)
    /\ UNCHANGED <<dropPolicy, frames, workerStep, upstream, drops, drained, inHand,
                   running, stopSet>>

(* Only the stop event ends it: the list of workers it counts as active is
   emptied by stop() alone. *)
StreamEnds ==
    /\ "stream" \in running /\ stopSet
    /\ running' = running \ {"stream"}
    /\ UNCHANGED <<dropPolicy, frames, workerStep, upstream, drops, drained, inHand,
                   downstream, collected, stopSet>>

StopRunner ==
    /\ ~stopSet /\ stopSet' = TRUE
    /\ UNCHANGED <<dropPolicy, frames, workerStep, upstream, drops, drained, inHand,
                   downstream, collected, running>>

CameraWorker == ProduceFrame \/ WorkerEnds \/ PutFrame \/ PutRefused \/ EvictOldest \/ RetryPut
Drain == DrainFrame \/ PassOn \/ DrainEnds
Stream == StreamFrame \/ StreamEnds

QueuesNext == CameraWorker \/ Drain \/ Stream \/ StopRunner

QueuesSpec == QueuesInit /\ [][QueuesNext]_queueVars

-----------------------------------------------------------------------------
Increasing(s) == \A i, j \in DOMAIN s : i < j => s[i] < s[j]

(* The collector receives frames in the order of production and none twice,
   whatever the two queues dropped and however evictions met the drain
   thread.  (_run_worker, _drain_to_streamers, stream) *)
FramesInOrder == Increasing(collected \o downstream)

(* Frames that reached neither the drain thread nor the queue, the one the
   worker is still putting excepted. *)
LostUpstream ==
    {f \in 1..frames :
        /\ \A i \in DOMAIN drained : drained[i] # f
        /\ \A i \in DOMAIN upstream : upstream[i] # f
        /\ f = frames => workerStep = "next"}

(* The drop counter never hides a loss of the first queue, and only
   drop_newest counts one that did not happen: when the drain thread empties
   the queue between the failed put and the eviction.  The counter knows
   nothing of the frames the second queue refuses. *)
DropsAreCounted ==
    /\ Cardinality(LostUpstream) <= drops
    /\ dropPolicy # "drop_newest" => drops = Cardinality(LostUpstream)

(* After stop() every loop comes to its end, full queues included: no put
   waits for a consumer that is gone. *)
StopEndsLoops == stopSet ~> running = {}
=============================================================================
