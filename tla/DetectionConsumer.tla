------------------------- MODULE DetectionConsumer -------------------------
(***************************************************************************)
(* DetectionEventConsumer: the thread that moves detections from           *)
(* stream:detections (group detection_consumers) into the tracklet         *)
(* collector.                                                              *)
(*                                                                         *)
(* The thread keeps two lists side by side: the parsed events that wait    *)
(* for on_detection (_queue) and the ids to acknowledge (_pending_ids).    *)
(* It drains the queue after every append, and only then.  An event that   *)
(* the collector refuses goes back to the head of the queue, and its id    *)
(* stays unacknowledged, so the PEL sweeper also re-appends its message    *)
(* behind the others; a message that finds the queue full is acknowledged  *)
(* and dropped.                                                            *)
(*                                                                         *)
(* A message is a pair of a detection and a copy number: the number tells  *)
(* the original from the copies the sweeper makes.  A detection can be     *)
(* published again once nothing is left of its messages, so traffic never  *)
(* ends.  The stream's own failures are the subject of StreamDelivery; a   *)
(* sweep of one entry is a single step here.                               *)
(***************************************************************************)
EXTENDS Integers, Sequences, FiniteSets

CONSTANTS
    Detections,  \* what the cameras report
    Invalid,     \* the detections that _parse rejects
    Copies,      \* bound on the copy numbers alive at a time
    Count,       \* COUNT of XREADGROUP
    QueueSize,   \* capacity of the in-process queue
    MaxFaults    \* bound on refusals, failed XACKs, late threads and restarts

ASSUME DetectionsAssumption == Invalid \subseteq Detections
ASSUME CapacityAssumption ==
    /\ Copies \in Nat \ {0} /\ Count \in Nat \ {0}
    /\ QueueSize \in Nat \ {0} /\ MaxFaults \in Nat

VARIABLES
    stream,       \* messages appended and not yet delivered to the group
    pel,          \* messages delivered and not acknowledged
    batch,        \* the rest of the XREADGROUP reply the loop walks through
    queue,        \* _queue; an event is named by the message it was parsed from
    pending_ids,  \* _pending_ids
    draining,     \* the thread is inside _drain
    owed,         \* published detections neither collected nor dropped
    repeats,      \* on_detection calls for a detection collected before
    faults        \* faults so far

vars == <<stream, pel, batch, queue, pending_ids, draining, owed, repeats, faults>>

Messages == Detections \X (1..Copies)
Elements(s) == {s[i] : i \in 1..Len(s)}
Alive == pel \union Elements(stream) \union Elements(batch)
             \union Elements(queue) \union Elements(pending_ids)

TypeOK ==
    /\ stream \in Seq(Messages)
    /\ pel \in SUBSET Messages
    /\ batch \in Seq(Messages) /\ Len(batch) <= Count
    /\ queue \in Seq(Messages) /\ Len(queue) <= QueueSize
    /\ pending_ids \in Seq(Messages)
    /\ draining \in BOOLEAN
    /\ owed \in SUBSET Detections
    /\ repeats \in Nat
    /\ faults \in 0..MaxFaults

Init ==
    /\ stream = <<>> /\ pel = {}
    /\ batch = <<>> /\ queue = <<>> /\ pending_ids = <<>>
    /\ draining = FALSE
    /\ owed = {} /\ repeats = 0
    /\ faults = 0

Fault == faults < MaxFaults /\ faults' = faults + 1

(* XACK of message m; the callers swallow its exception. *)
Ack(m) ==
    \/ pel' = pel \ {m} /\ UNCHANGED faults
    \/ UNCHANGED pel /\ Fault

-----------------------------------------------------------------------------
(* The side channel of the detector appends a detection. *)
Publish(d) ==
    /\ \A m \in Alive : m[1] # d
    /\ stream' = Append(stream, <<d, 1>>)
    /\ owed' = owed \union ({d} \ Invalid)
    /\ UNCHANGED <<pel, batch, queue, pending_ids, draining, repeats, faults>>

(* RedisState.consume, called when the previous reply has been walked through. *)
Consume ==
    LET n == IF Len(stream) < Count THEN Len(stream) ELSE Count
    IN  /\ ~draining /\ batch = <<>> /\ stream # <<>>
        /\ batch' = SubSeq(stream, 1, n)
        /\ stream' = SubSeq(stream, n + 1, Len(stream))
        /\ pel' = pel \union Elements(batch')
        /\ UNCHANGED <<queue, pending_ids, draining, owed, repeats, faults>>

(* _parse: the fields that are missing or of no use make it return None; what
   it can repair (the camera's name, time stamps) it repairs. *)
Parses(d) == d \notin Invalid

(* The next message of the reply does not parse, or finds the queue full: it
   is acknowledged and dropped. *)
Discard ==
    /\ ~draining /\ batch # <<>>
    /\ ~Parses(Head(batch)[1]) \/ Len(queue) >= QueueSize
    /\ batch' = Tail(batch)
    /\ owed' = owed \ {Head(batch)[1]}
    /\ Ack(Head(batch))
    /\ UNCHANGED <<stream, queue, pending_ids, draining, repeats>>

(* Mutant: the message is acknowledged when it is queued. *)
Enqueue_Acks ==
    /\ ~draining /\ batch # <<>>
    /\ Parses(Head(batch)[1]) /\ Len(queue) < QueueSize
    /\ batch' = Tail(batch)
    /\ queue' = Append(queue, Head(batch))
    /\ pending_ids' = Append(pending_ids, Head(batch))
    /\ draining' = TRUE
    /\ pel' = pel \ {Head(batch)}
    /\ UNCHANGED <<stream, owed, repeats, faults>>

(* The next message of the reply is queued, and _drain begins. *)
Enqueue ==
    /\ ~draining /\ batch # <<>>
    /\ Parses(Head(batch)[1]) /\ Len(queue) < QueueSize
    /\ batch' = Tail(batch)
    /\ queue' = Append(queue, Head(batch))
    /\ pending_ids' = Append(pending_ids, Head(batch))
    /\ draining' = TRUE
    /\ UNCHANGED <<stream, pel, owed, repeats, faults>>

(* One turn of _drain: on_detection takes the event at the head, and the id at
   the head of the other list is acknowledged. *)
DrainEvent ==
    /\ draining
    /\ owed' = owed \ {Head(queue)[1]}
    /\ repeats' = IF Head(queue)[1] \in owed THEN repeats ELSE repeats + 1
    /\ queue' = Tail(queue)
    /\ draining' = (queue' # <<>>)
    /\ pending_ids' = Tail(pending_ids)
    /\ Ack(Head(pending_ids))
    /\ UNCHANGED <<stream, batch>>

(* on_detection raises: the event goes back to the head, its id stays, and
   _drain returns.  The next attempt is made when another event is queued. *)
DrainFails ==
    /\ draining
    /\ Fault
    /\ draining' = FALSE
    /\ UNCHANGED <<stream, pel, batch, queue, pending_ids, owed, repeats>>

(* The process is killed and started again. *)
Restart ==
    /\ Fault
    /\ batch' = <<>> /\ queue' = <<>> /\ pending_ids' = <<>>
    /\ draining' = FALSE
    /\ UNCHANGED <<stream, pel, owed, repeats>>

-----------------------------------------------------------------------------
(* The thread is busy with message m. *)
Walked(m) == m \in Elements(batch) \/ (draining /\ m \in Elements(queue))

(* Mutant: the sweeper takes the entry over and does nothing with it. *)
Sweep_KeepsEntry(m) ==
    /\ m \in pel
    /\ IF Walked(m) THEN Fault ELSE UNCHANGED faults
    /\ UNCHANGED <<stream, pel, batch, queue, pending_ids, draining, owed, repeats>>

(* Mutant: XAUTOCLAIM is called without a minimal idle time. *)
Sweep_AnyAge(m) ==
    /\ m \in pel
    /\ \E c \in 1..Copies :
          /\ <<m[1], c>> \notin Alive
          /\ \A b \in 1..(c - 1) : <<m[1], b>> \in Alive
          /\ stream' = Append(stream, <<m[1], c>>)
    /\ pel' = pel \ {m}
    /\ UNCHANGED <<batch, queue, pending_ids, draining, owed, repeats, faults>>

(* PELSweeper: a message that has been pending for min_idle is appended again
   and acknowledged.  A message the thread is walking through is that old only
   when the thread is late; one that waits in the queue always gets there. *)
Sweep(m) ==
    /\ m \in pel
    /\ IF Walked(m) THEN Fault ELSE UNCHANGED faults
    /\ \E c \in 1..Copies :
          /\ <<m[1], c>> \notin Alive
          /\ \A b \in 1..(c - 1) : <<m[1], b>> \in Alive
          /\ stream' = Append(stream, <<m[1], c>>)
    /\ pel' = pel \ {m}
    /\ UNCHANGED <<batch, queue, pending_ids, draining, owed, repeats>>

Thread == Consume \/ Discard \/ Enqueue \/ DrainEvent

Next ==
    \/ \E d \in Detections : Publish(d)
    \/ Thread \/ DrainFails \/ Restart
    \/ \E m \in Messages : Sweep(m)

Spec == Init /\ [][Next]_vars

(* The thread's loop never stops, the sweeper comes back to every pending
   entry, and the cameras keep reporting. *)
FairSpec ==
    /\ Spec
    /\ WF_vars(Thread)
    /\ \A m \in Messages : WF_vars(Sweep(m))
    /\ \A d \in Detections : WF_vars(Publish(d))

-----------------------------------------------------------------------------
(* The two lists stay in step, whatever fails between them: the id that is
   acknowledged after an event is the id the event came with. *)
InStep == queue = pending_ids

(* A detection that was published and neither collected nor dropped still has
   a message in the stream or on the pending list: acknowledging comes after
   processing ("XACK after successful processing"), so no restart loses it. *)
NoSilentLoss ==
    \A d \in owed : \E m \in pel \union Elements(stream) : m[1] = d

(* The price of the retries: a detection reaches the collector twice (and so
   counts twice towards its tracklet) at most once per failure, although the
   queue and the sweeper both retry what failed. *)
RepeatsAreFaults == repeats <= faults

(* Every detection is collected, unless the queue has filled up with events
   that the collector refused. *)
EventuallyTaken ==
    \A d \in Detections :
        (d \in owed) ~> (d \notin owed \/ Len(queue) = QueueSize)

(* "Don't ACK if processing failed; let it retry": an event put back into the
   queue is tried again. *)
FailedIsRetried ==
    \A m \in Messages : (m \in Elements(queue)) ~> (m \notin Elements(queue))
=============================================================================
