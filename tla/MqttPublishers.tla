--------------------------- MODULE MqttPublishers ---------------------------
(***************************************************************************)
(* The three ways a payload reaches the MQTT broker: MqttPublisher itself  *)
(* ("direct", which the telemetry worker uses), AsyncMqttPublisher         *)
(* ("async") and LegacyMqttPublisher ("legacy"), the last two with a       *)
(* bounded queue and a retry thread around the same client.                *)
(*                                                                         *)
(* Payloads are numbered in the order they are offered.  paho is external: *)
(* a publish without a connection returns rc # 0 but, at QoS 1, keeps the  *)
(* message and sends it after a reconnection, which its loop thread makes  *)
(* on its own.  The broker's record keeps the first arrival of a payload.  *)
(* Payloads are such that json.dumps takes them: of one it refuses, the    *)
(* retry thread's attempt raises before its try, and the payload is gone.  *)
(***************************************************************************)
EXTENDS Integers, Sequences, FiniteSets

CONSTANTS
    MaxOffers,     \* bound on the payloads offered
    PublishQueue,  \* queue_maxsize
    MaxAttempts,   \* MAX_PUBLISH_ATTEMPTS
    RetryThreads,  \* identities for retry threads: one per start()
    MaxOutages     \* bound on lost connections and on calls that raise

NoThread == "no thread"

ASSUME PublishAssumption ==
    /\ {MaxOffers, MaxOutages} \subseteq Nat
    /\ {PublishQueue, MaxAttempts} \subseteq Nat \ {0}
    /\ NoThread \notin RetryThreads

VARIABLES
    kind,        \* which publisher
    mayPublish,  \* it accepts payloads: not SMOKE_TEST, or ENABLE_SEND_MQTT
    client,      \* paho client: "none", "looping", or "idle" (connect failed)
    online,      \* the client is connected to the broker
    outages,     \* lost connections and raising calls so far
    outbox,      \* payloads paho keeps for a reconnection
    arrived,     \* first arrivals at the broker
    offered,     \* payloads offered so far
    waiting,     \* the publisher's queue, of payloads and their attempts
    retry,       \* the _retry_thread handle
    retryAt,     \* retryAt[t]: where the thread t is
    retryItem,   \* retryItem[t]: the payload in its hand
    stopSet,     \* _stop_event
    joining,     \* stop() is waiting for the thread
    outcome,     \* what became of payloads that have left the publisher
    overtaken    \* start() cleared _stop_event before a thread had seen it

publishVars == <<kind, mayPublish, client, online, outages, outbox, arrived, offered,
                 waiting, retry, retryAt, retryItem, stopSet, joining, outcome, overtaken>>

pahoVars == <<client, online, outbox, arrived>>
threadVars == <<retry, retryAt, retryItem, stopSet, joining, overtaken>>

Offers == 1..MaxOffers
NoItem == [payload |-> 0, attempt |-> 0]
Running == {t \in RetryThreads : retryAt[t] \notin {"unused", "ended"}}

PublishInit ==
    /\ kind \in {"direct", "async", "legacy"}
    /\ mayPublish \in BOOLEAN
    /\ client = "none" /\ online = FALSE /\ outages = 0
    /\ outbox = <<>> /\ arrived = <<>>
    /\ offered = 0 /\ waiting = <<>>
    /\ retry = NoThread
    /\ retryAt = [t \in RetryThreads |-> "unused"]
    /\ retryItem = [t \in RetryThreads |-> NoItem]
    /\ stopSet = FALSE /\ joining = FALSE
    /\ outcome = [p \in Offers |-> "none"]
    /\ overtaken = FALSE

-----------------------------------------------------------------------------
(* MqttPublisher.connect: when the first connection fails the exception skips
   loop_start, and the client stays for good without a loop. *)
Connect ==
    /\ client = "none" /\ outages < MaxOutages
    /\ \/ client' = "looping" /\ online' = TRUE /\ UNCHANGED outages
       \/ client' = "idle" /\ online' = FALSE /\ outages' = outages + 1
    /\ UNCHANGED <<kind, mayPublish, outbox, arrived, offered, waiting, outcome,
                   threadVars>>

(* MqttPublisher.close. *)
CloseClient ==
    /\ client # "none" /\ outages < MaxOutages
    /\ outages' = outages + 1
    /\ client' = "none" /\ online' = FALSE /\ outbox' = <<>>
    /\ UNCHANGED <<kind, mayPublish, arrived, offered, waiting, outcome, threadVars>>

ConnectionLost ==
    /\ online /\ outages < MaxOutages
    /\ outages' = outages + 1 /\ online' = FALSE
    /\ UNCHANGED <<kind, mayPublish, client, outbox, arrived, offered, waiting, outcome,
                   threadVars>>

Arrive(seq, p) == IF \E i \in DOMAIN seq : seq[i] = p THEN seq ELSE Append(seq, p)

(* paho's loop thread reconnects and sends what it kept, oldest first. *)
Reconnect ==
    /\ client = "looping" /\ ~online
    /\ online' = TRUE
    /\ UNCHANGED <<kind, mayPublish, client, outages, outbox, arrived, offered, waiting,
                   outcome, threadVars>>

Resend ==
    /\ online /\ outbox # <<>>
    /\ arrived' = Arrive(arrived, Head(outbox))
    /\ outbox' = Tail(outbox)
    /\ UNCHANGED <<kind, mayPublish, client, online, outages, offered, waiting, outcome,
                   threadVars>>

(* client.publish at QoS 1: sent behind what is still to be resent, or kept. *)
PahoPublish(p) ==
    /\ client # "none"
    /\ IF online /\ outbox = <<>>
       THEN arrived' = Arrive(arrived, p) /\ UNCHANGED outbox
       ELSE outbox' = Append(outbox, p) /\ UNCHANGED arrived
    /\ UNCHANGED <<client, online>>

-----------------------------------------------------------------------------
(* MqttPublisher._publish_to: without a client the payload is dropped, else
   the result of publish is ignored. *)
PublishDirect(p) ==
    /\ kind = "direct"
    /\ \/ client = "none" /\ outcome' = [outcome EXCEPT ![p] = "refused"]
          /\ UNCHANGED pahoVars
       \/ PahoPublish(p) /\ outcome' = [outcome EXCEPT ![p] = "published"]
    /\ UNCHANGED waiting

(* publish_telemetry of the two queueing publishers, by a caller or by the
   periodic thread: the gate, the client, the queue's bound, in this order. *)
EnqueueOffer(p) ==
    /\ kind # "direct"
    /\ IF mayPublish /\ client # "none" /\ Len(waiting) < PublishQueue
       THEN /\ waiting' = Append(waiting, [payload |-> p, attempt |-> 0])
            /\ UNCHANGED outcome
       ELSE /\ outcome' = [outcome EXCEPT ![p] = "refused"]
            /\ UNCHANGED waiting
    /\ UNCHANGED pahoVars

Offer ==
    /\ offered < MaxOffers
    /\ offered' = offered + 1
    /\ PublishDirect(offered + 1) \/ EnqueueOffer(offered + 1)
    /\ UNCHANGED <<kind, mayPublish, outages, threadVars>>

(* start(): nothing while the thread of the handle runs; else the event is
   cleared, whoever was still to see it, and a new thread begins. *)
StartRetry ==
    /\ kind = "async" \/ (kind = "legacy" /\ mayPublish)
    /\ ~joining
    /\ retry = NoThread \/ retry \notin Running
    /\ \E t \in RetryThreads :
          /\ retryAt[t] = "unused"
          /\ retry' = t
          /\ retryAt' = [retryAt EXCEPT ![t] = "check"]
    /\ stopSet' = FALSE
    /\ overtaken' = (overtaken \/ Running # {})
    /\ UNCHANGED <<kind, mayPublish, outages, pahoVars, offered, waiting, retryItem,
                   joining, outcome>>

(* stop() sets the event and joins for two seconds ... *)
StopRetry ==
    /\ kind # "direct" /\ ~joining
    /\ stopSet' = TRUE /\ joining' = (retry # NoThread)
    /\ UNCHANGED <<kind, mayPublish, outages, pahoVars, offered, waiting, retry, retryAt,
                   retryItem, outcome, overtaken>>

(* Mutant: stop() empties the thread's hand. *)
StopReturns_Discards ==
    /\ joining
    /\ retryAt[retry] \in {"ended", "busy"}
    /\ joining' = FALSE /\ retry' = NoThread
    /\ retryItem' = [retryItem EXCEPT ![retry] = NoItem]
    /\ retryAt' = [retryAt EXCEPT ![retry] = "ended"]
    /\ UNCHANGED <<kind, mayPublish, outages, pahoVars, offered, waiting, stopSet,
                   outcome, overtaken>>

(* ... which a thread that is publishing or backing off may outlast; the handle
   is forgotten in any case. *)
StopReturns ==
    /\ joining
    /\ retryAt[retry] \in {"ended", "busy"}
    /\ joining' = FALSE /\ retry' = NoThread
    /\ UNCHANGED <<kind, mayPublish, outages, pahoVars, offered, waiting, retryAt,
                   retryItem, stopSet, outcome, overtaken>>

-----------------------------------------------------------------------------
(* _retry_loop: the event is looked at before each get. *)
RetryChecks(t) ==
    /\ retryAt[t] = "check"
    /\ retryAt' = [retryAt EXCEPT ![t] = IF stopSet THEN "ended" ELSE "getting"]
    /\ UNCHANGED <<kind, mayPublish, outages, pahoVars, offered, waiting, retry,
                   retryItem, stopSet, joining, outcome, overtaken>>

(* queue.get, for a second at most. *)
RetryGets(t) ==
    /\ retryAt[t] = "getting"
    /\ IF waiting = <<>>
       THEN /\ retryAt' = [retryAt EXCEPT ![t] = "check"]
            /\ UNCHANGED <<waiting, retryItem>>
       ELSE /\ retryItem' = [retryItem EXCEPT ![t] = Head(waiting)]
            /\ waiting' = Tail(waiting)
            /\ retryAt' = [retryAt EXCEPT ![t] = "busy"]
    /\ UNCHANGED <<kind, mayPublish, outages, pahoVars, offered, retry, stopSet, joining,
                   outcome, overtaken>>

(* The thread is through with its item. *)
Done(t, result) ==
    /\ retryAt' = [retryAt EXCEPT ![t] = "check"]
    /\ retryItem' = [retryItem EXCEPT ![t] = NoItem]
    /\ outcome' = IF result = "none" THEN outcome
                  ELSE [outcome EXCEPT ![retryItem[t].payload] = result]

(* LegacyMqttPublisher._requeue: at the tail; a full queue loses the payload. *)
Requeue(t, attempt) ==
    IF Len(waiting) < PublishQueue
    THEN /\ waiting' = Append(waiting, [payload |-> retryItem[t].payload, attempt |-> attempt])
         /\ Done(t, "none")
    ELSE UNCHANGED waiting /\ Done(t, "lost")

(* Mutant: the failed payload goes back to the queue. *)
AttemptFailed_ToTail(t) ==
    LET next == retryItem[t].attempt + 1
    IN  IF next < MaxAttempts
        THEN Requeue(t, next)
        ELSE Done(t, "dropped") /\ UNCHANGED waiting

(* A failed attempt.  Async keeps the payload in hand for the next one; legacy
   sends it to the back of the queue.  Both give up after MaxAttempts. *)
AttemptFailed(t) ==
    LET next == retryItem[t].attempt + 1
    IN  IF next >= MaxAttempts THEN Done(t, "dropped") /\ UNCHANGED waiting
        ELSE IF kind = "legacy" THEN Requeue(t, next)
        ELSE /\ retryItem' = [retryItem EXCEPT ![t].attempt = next]
             /\ UNCHANGED <<waiting, retryAt, outcome>>

(* _attempt_publish without a client: an exception for async; legacy requeues
   and does not count it. *)
RetryWithoutClient(t) ==
    /\ retryAt[t] = "busy" /\ client = "none"
    /\ IF kind = "legacy" THEN Requeue(t, retryItem[t].attempt) ELSE AttemptFailed(t)
    /\ UNCHANGED <<kind, mayPublish, outages, pahoVars, offered, retry, stopSet, joining,
                   overtaken>>

(* publish returns: rc 0 with a connection; else rc # 0, although paho keeps
   the message, so that a payload may arrive several times and arrive after
   it was counted as dropped. *)
RetryPublishes(t) ==
    /\ retryAt[t] = "busy"
    /\ PahoPublish(retryItem[t].payload)
    /\ IF online THEN Done(t, "published") /\ UNCHANGED waiting ELSE AttemptFailed(t)
    /\ UNCHANGED <<kind, mayPublish, outages, offered, retry, stopSet, joining, overtaken>>

(* publish raises before anything is sent. *)
RetryRaises(t) ==
    /\ retryAt[t] = "busy" /\ client # "none" /\ outages < MaxOutages
    /\ outages' = outages + 1
    /\ AttemptFailed(t)
    /\ UNCHANGED <<kind, mayPublish, pahoVars, offered, retry, stopSet, joining,
                   overtaken>>

RetryLoop(t) ==
    RetryChecks(t) \/ RetryGets(t) \/ RetryWithoutClient(t) \/ RetryPublishes(t)
        \/ RetryRaises(t)

PublishNext ==
    \/ Connect \/ CloseClient \/ ConnectionLost \/ Reconnect \/ Resend
    \/ Offer \/ StartRetry \/ StopRetry \/ StopReturns
    \/ \E t \in RetryThreads : RetryLoop(t)

PublishSpec == PublishInit /\ [][PublishNext]_publishVars

-----------------------------------------------------------------------------
(* Nothing is lost between the counters: whatever threads are started, stopped
   or outlive their stop(), each payload offered is in exactly one place, the
   queue, one thread's hand, or among those whose fate is known. *)
PayloadPlaces(p) ==
    {<<"queue", i>> : i \in {j \in DOMAIN waiting : waiting[j].payload = p}}
    \union {<<"hand", t>> : t \in {u \in RetryThreads : retryItem[u].payload = p}}
    \union (IF outcome[p] = "none" THEN {} ELSE {<<"left", outcome[p]>>})

PayloadsAccounted == \A p \in 1..offered : Cardinality(PayloadPlaces(p)) = 1

(* AsyncMqttPublisher keeps the order: payloads arrive first in the order in
   which they were offered, through outages, retries, dropped payloads and
   restarts, unless a start() overtook a thread that had not seen its stop(). *)
ArrivalsInOrder ==
    kind # "legacy" /\ ~overtaken =>
        \A i, j \in DOMAIN arrived : i < j => arrived[i] < arrived[j]
=============================================================================
