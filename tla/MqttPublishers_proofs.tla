------------------------- MODULE MqttPublishers_proofs -------------------------
(***************************************************************************)
(* For any number of payloads, retry threads, attempts and outages, and    *)
(* any bound of the queue: a payload is in exactly one place, and the      *)
(* asynchronous publisher keeps the order.                                 *)
(*                                                                         *)
(* Placed says where payloads are: those in the queue and in the threads'  *)
(* hands are offered, undecided, and all different.  Ordered adds, for     *)
(* the publishers that keep the order, that at most one thread has an      *)
(* item, and that what has arrived, what paho keeps, what the thread has   *)
(* in hand and what waits follow each other.                               *)
(***************************************************************************)
EXTENDS MqttPublishers, FiniteSetTheorems, TLAPS

Items == [payload : Offers, attempt : Nat]

PublishTypes ==
    /\ kind \in {"direct", "async", "legacy"}
    /\ offered \in 0..MaxOffers /\ overtaken \in BOOLEAN
    /\ waiting \in Seq(Items)
    /\ arrived \in Seq(Offers) /\ outbox \in Seq(Offers)
    /\ retryAt \in [RetryThreads -> {"unused", "check", "getting", "busy", "ended"}]
    /\ retryItem \in [RetryThreads -> Items \union {NoItem}]
    /\ outcome \in [Offers -> {"none", "refused", "published", "lost", "dropped"}]

(* A thread that is busy has an item, and no other has. *)
Busy(t) == retryAt[t] = "busy"
Handed == \A t \in RetryThreads : Busy(t) <=> retryItem[t] # NoItem

Queued(p) == \E i \in 1..Len(waiting) : waiting[i].payload = p

(* Each payload has a place, and no two items are the same payload. *)
Placed ==
    /\ \A p \in Offers : p > offered => outcome[p] = "none"
    /\ \A p \in 1..offered :
          outcome[p] # "none" \/ Queued(p)
            \/ \E t \in RetryThreads : Busy(t) /\ retryItem[t].payload = p
    /\ \A i \in 1..Len(waiting) :
          /\ waiting[i].payload <= offered /\ outcome[waiting[i].payload] = "none"
          /\ \A j \in 1..Len(waiting) : waiting[j].payload = waiting[i].payload => j = i
    /\ \A t \in RetryThreads : Busy(t) =>
          /\ retryItem[t].payload <= offered /\ outcome[retryItem[t].payload] = "none"
          /\ \A i \in 1..Len(waiting) : waiting[i].payload # retryItem[t].payload
          /\ \A u \in RetryThreads :
                Busy(u) /\ retryItem[u].payload = retryItem[t].payload => u = t

(* What has been handed to paho arrives in order ... *)
Elements(s) == {s[i] : i \in 1..Len(s)}
Sent == Elements(arrived) \union Elements(outbox)
SentInOrder ==
    /\ \A i, j \in 1..Len(arrived) : i < j => arrived[i] < arrived[j]
    /\ \A i, j \in 1..Len(outbox) : i < j => outbox[i] <= outbox[j]
    /\ \A a \in Elements(arrived), o \in Elements(outbox) : a <= o

(* ... and what has not waits behind it. *)
Behind ==
    /\ \A x \in Sent :
          /\ x <= offered
          /\ \A t \in RetryThreads : Busy(t) => x <= retryItem[t].payload
          /\ \A i \in 1..Len(waiting) : x < waiting[i].payload
    /\ \A i \in 1..Len(waiting) :
          /\ \A t \in RetryThreads : Busy(t) => retryItem[t].payload < waiting[i].payload
          /\ \A j \in 1..Len(waiting) : i < j => waiting[i].payload < waiting[j].payload

Alone ==
    /\ \A t, u \in Running : t = u
    /\ kind = "direct" => Running = {} /\ waiting = <<>>

Ordered == kind # "legacy" /\ ~overtaken => SentInOrder /\ Behind /\ Alone

PInv == PublishTypes /\ Handed /\ Placed /\ Ordered

-----------------------------------------------------------------------------
(* A queue without its first item. *)
LEMMA TailIs ==
  ASSUME NEW S, NEW s \in Seq(S), s # <<>>
  PROVE  /\ Tail(s) \in Seq(S) /\ Len(s) \in Nat /\ Len(Tail(s)) = Len(s) - 1
         /\ Head(s) = s[1] /\ 1 \in 1..Len(s) /\ Head(s) \in S
         /\ \A i \in 1..Len(Tail(s)) : Tail(s)[i] = s[i + 1] /\ i + 1 \in 1..Len(s)
         /\ \A i \in 1..Len(s) : i = 1 \/ (i - 1 \in 1..Len(Tail(s)) /\ Tail(s)[i - 1] = s[i])
OBVIOUS

(* A queue with one item more. *)
LEMMA AppendIs ==
  ASSUME NEW S, NEW s \in Seq(S), NEW e \in S
  PROVE  /\ Append(s, e) \in Seq(S) /\ Len(s) \in Nat /\ Len(Append(s, e)) = Len(s) + 1
         /\ \A i \in 1..Len(s) : Append(s, e)[i] = s[i] /\ i \in 1..Len(Append(s, e))
         /\ Append(s, e)[Len(s) + 1] = e /\ Len(s) + 1 \in 1..Len(Append(s, e))
         /\ \A i \in 1..Len(Append(s, e)) : i \in 1..Len(s) \/ i = Len(s) + 1
OBVIOUS

LEMMA ElementsTyped ==
  ASSUME NEW S, NEW s \in Seq(S) PROVE \A i \in 1..Len(s) : s[i] \in S
OBVIOUS

(* What a thread has in hand. *)
LEMMA BusyItem ==
  ASSUME PublishTypes, Handed, NEW t \in RetryThreads
  PROVE  /\ Busy(t) => retryItem[t] \in Items
         /\ ~Busy(t) => retryItem[t] = NoItem
         /\ Busy(t) => t \in Running
BY DEF PublishTypes, Handed, Busy, Running

(* What waits in the queue. *)
LEMMA QueueItem ==
  ASSUME PublishTypes
  PROVE  \A i \in 1..Len(waiting) : waiting[i] \in Items /\ waiting[i].payload \in Offers
<1>1. \A i \in 1..Len(waiting) : waiting[i] \in Items
  BY ElementsTyped DEF PublishTypes
<1> QED
  BY <1>1 DEF Items

(* The three ways an attempt ends: the payload leaves, goes back to the queue,
   or stays in hand for another attempt. *)
Leaves(t, result) == Done(t, result) /\ waiting' = waiting
GoesBack(t) ==
    /\ Done(t, "none") /\ kind = "legacy"
    /\ \E k \in Nat :
          waiting' = Append(waiting, [payload |-> retryItem[t].payload, attempt |-> k])
StaysInHand(t) ==
    /\ UNCHANGED <<waiting, retryAt, outcome>>
    /\ \E k \in Nat : retryItem' = [retryItem EXCEPT ![t].attempt = k]

Attempts(t) == RetryWithoutClient(t) \/ RetryPublishes(t) \/ RetryRaises(t)

LEMMA FailureIs ==
  ASSUME PublishTypes, Handed, NEW t \in RetryThreads, Busy(t),
         AttemptFailed(t) \/ (kind = "legacy" /\ Requeue(t, retryItem[t].attempt))
  PROVE  \/ \E r \in {"dropped", "lost"} : Leaves(t, r)
         \/ GoesBack(t) \/ StaysInHand(t)
<1>1. retryItem[t].attempt \in Nat /\ retryItem[t].attempt + 1 \in Nat
  BY BusyItem DEF Items
<1>2. ASSUME NEW k \in Nat, Requeue(t, k), kind = "legacy"
      PROVE  Leaves(t, "lost") \/ GoesBack(t)
  BY <1>2 DEF Requeue, Leaves, GoesBack
<1>3. CASE AttemptFailed(t)
  <2>1. CASE retryItem[t].attempt + 1 >= MaxAttempts
    BY <1>3, <2>1 DEF AttemptFailed, Leaves
  <2>2. CASE ~(retryItem[t].attempt + 1 >= MaxAttempts) /\ kind = "legacy"
    BY <1>1, <1>2, <1>3, <2>2 DEF AttemptFailed
  <2>3. CASE ~(retryItem[t].attempt + 1 >= MaxAttempts) /\ kind # "legacy"
    BY <1>1, <1>3, <2>3 DEF AttemptFailed, StaysInHand
  <2> QED
    BY <2>1, <2>2, <2>3
<1> QED
  BY <1>1, <1>2, <1>3

LEMMA AttemptIs ==
  ASSUME PublishTypes, Handed, NEW t \in RetryThreads, Attempts(t)
  PROVE  /\ Busy(t)
         /\ UNCHANGED <<kind, offered, overtaken>>
         /\ \/ \E r \in {"published", "dropped", "lost"} : Leaves(t, r)
            \/ GoesBack(t) \/ StaysInHand(t)
         /\ PahoPublish(retryItem[t].payload) \/ UNCHANGED <<arrived, outbox>>
<1>1. Busy(t) /\ UNCHANGED <<kind, offered, overtaken>>
  BY DEF Attempts, RetryWithoutClient, RetryPublishes, RetryRaises, Busy
<1>2. PahoPublish(retryItem[t].payload) \/ UNCHANGED <<arrived, outbox>>
  BY DEF Attempts, RetryWithoutClient, RetryPublishes, RetryRaises, pahoVars
<1>3. CASE Leaves(t, "published")
  BY <1>1, <1>2, <1>3
<1>4. CASE AttemptFailed(t) \/ (kind = "legacy" /\ Requeue(t, retryItem[t].attempt))
  BY <1>1, <1>2, <1>4, FailureIs
<1> QED
  BY <1>3, <1>4 DEF Attempts, RetryWithoutClient, RetryPublishes, RetryRaises, Leaves

(* The thread after an attempt. *)
LEMMA DoneIs ==
  ASSUME PublishTypes, Handed, NEW t \in RetryThreads, Busy(t),
         NEW r \in {"none", "published", "dropped", "lost"}, Done(t, r)
  PROVE  /\ retryAt' \in [RetryThreads -> {"unused", "check", "getting", "busy", "ended"}]
         /\ retryItem' \in [RetryThreads -> Items \union {NoItem}]
         /\ outcome' \in [Offers -> {"none", "refused", "published", "lost", "dropped"}]
         /\ ~Busy(t)' /\ retryItem'[t] = NoItem /\ retryAt'[t] = "check"
         /\ \A u \in RetryThreads : u # t =>
               retryAt'[u] = retryAt[u] /\ retryItem'[u] = retryItem[u]
         /\ \A p \in Offers : outcome'[p] = IF r # "none" /\ p = retryItem[t].payload THEN r
                                            ELSE outcome[p]
<1>1. retryItem[t].payload \in Offers
  BY BusyItem DEF Items
<1>2. outcome' \in [Offers -> {"none", "refused", "published", "lost", "dropped"}]
      /\ \A p \in Offers : outcome'[p] = IF r # "none" /\ p = retryItem[t].payload THEN r
                                         ELSE outcome[p]
  <2>1. CASE r = "none"
    BY <2>1 DEF Done, PublishTypes
  <2>2. CASE r # "none"
    BY <1>1, <2>2 DEF Done, PublishTypes
  <2> QED
    BY <2>1, <2>2
<1>3. retryAt' = [retryAt EXCEPT ![t] = "check"] /\ retryItem' = [retryItem EXCEPT ![t] = NoItem]
  BY DEF Done
<1> QED
  BY <1>2, <1>3 DEF PublishTypes, Busy

-----------------------------------------------------------------------------
(* Where payloads are, when a step moves no payload. *)
LEMMA PlacedStays ==
  ASSUME Placed, UNCHANGED <<offered, waiting, outcome>>,
         \A t \in RetryThreads : /\ Busy(t)' <=> Busy(t)
                                 /\ Busy(t) => retryItem'[t].payload = retryItem[t].payload
  PROVE  Placed'
BY DEF Placed, Queued

(* A payload leaves the publisher. *)
LEMMA LeavesPlaced ==
  ASSUME PublishTypes, Handed, Placed, NEW t \in RetryThreads, Busy(t),
         NEW r \in {"published", "dropped", "lost"}, Leaves(t, r), offered' = offered
  PROVE  Placed'
<1> DEFINE q == retryItem[t].payload
<1>1. /\ ~Busy(t)' /\ waiting' = waiting
      /\ \A u \in RetryThreads : u # t =>
            (Busy(u)' <=> Busy(u)) /\ retryItem'[u] = retryItem[u]
      /\ \A p \in Offers : outcome'[p] = IF p = q THEN r ELSE outcome[p]
  BY DoneIs DEF Leaves, Busy
<1>2. \A i \in 1..Len(waiting) : waiting[i].payload \in Offers /\ waiting[i].payload # q
  BY QueueItem DEF Placed
<1>3. \A u \in RetryThreads : Busy(u) => retryItem[u].payload \in Offers
  BY BusyItem DEF Items
<1>4. q <= offered /\ 1..offered \subseteq Offers
  BY PublishAssumption DEF Placed, Offers, PublishTypes
<1> HIDE DEF q
<1>5. \A p \in Offers : p > offered => outcome'[p] = "none"
  BY <1>1, <1>4 DEF Placed, Offers, PublishTypes
<1>6. \A p \in 1..offered : outcome'[p] # "none" \/ Queued(p)'
            \/ \E u \in RetryThreads : Busy(u)' /\ retryItem'[u].payload = p
  <2> SUFFICES ASSUME NEW p \in 1..offered, p # q, outcome[p] = "none"
               PROVE  Queued(p)' \/ \E u \in RetryThreads : Busy(u)' /\ retryItem'[u].payload = p
    BY <1>1, <1>4
  <2>1. CASE Queued(p)
    BY <1>1, <2>1 DEF Queued
  <2>2. ASSUME NEW u \in RetryThreads, Busy(u), retryItem[u].payload = p
        PROVE  Busy(u)' /\ retryItem'[u].payload = p
    BY <1>1, <2>2 DEF q
  <2> QED
    BY <2>1, <2>2 DEF Placed
<1>7. \A i \in 1..Len(waiting') :
          /\ waiting'[i].payload <= offered' /\ outcome'[waiting'[i].payload] = "none"
          /\ \A j \in 1..Len(waiting') : waiting'[j].payload = waiting'[i].payload => j = i
  BY <1>1, <1>2 DEF Placed
<1>8. \A u \in RetryThreads : Busy(u)' =>
          /\ retryItem'[u].payload <= offered' /\ outcome'[retryItem'[u].payload] = "none"
          /\ \A i \in 1..Len(waiting') : waiting'[i].payload # retryItem'[u].payload
          /\ \A v \in RetryThreads :
                Busy(v)' /\ retryItem'[v].payload = retryItem'[u].payload => v = u
  <2> SUFFICES ASSUME NEW u \in RetryThreads, Busy(u)'
               PROVE  /\ retryItem'[u].payload <= offered' /\ outcome'[retryItem'[u].payload] = "none"
                      /\ \A i \in 1..Len(waiting') : waiting'[i].payload # retryItem'[u].payload
                      /\ \A v \in RetryThreads :
                           Busy(v)' /\ retryItem'[v].payload = retryItem'[u].payload => v = u
    OBVIOUS
  <2>1. u # t /\ Busy(u) /\ retryItem'[u] = retryItem[u]
    BY <1>1
  <2>2. retryItem[u].payload # q /\ retryItem[u].payload \in Offers
    BY <1>3, <2>1 DEF Placed, q
  <2> QED
    BY <1>1, <2>1, <2>2 DEF Placed
<1> QED
  BY <1>5, <1>6, <1>7, <1>8 DEF Placed

(* A payload goes back to the queue. *)
LEMMA GoesBackPlaced ==
  ASSUME PublishTypes, Handed, Placed, NEW t \in RetryThreads, Busy(t),
         GoesBack(t), offered' = offered
  PROVE  Placed' /\ waiting' \in Seq(Items)
<1> DEFINE n == Len(waiting)
<1>q. PICK q : q = retryItem[t].payload
  OBVIOUS
<1>1. /\ ~Busy(t)'
      /\ \A u \in RetryThreads : u # t =>
            (Busy(u)' <=> Busy(u)) /\ retryItem'[u] = retryItem[u]
      /\ \A p \in Offers : outcome'[p] = outcome[p]
  BY DoneIs DEF GoesBack, Busy
<1>2. PICK k \in Nat : waiting' = Append(waiting, [payload |-> q, attempt |-> k])
  BY <1>q DEF GoesBack
<1>3. q \in Offers /\ [payload |-> q, attempt |-> k] \in Items
  BY <1>q, BusyItem DEF Items
<1>4. /\ waiting' \in Seq(Items) /\ n \in Nat /\ Len(waiting') = n + 1
      /\ \A i \in 1..n : waiting'[i] = waiting[i] /\ i \in 1..Len(waiting')
      /\ waiting'[n + 1].payload = q /\ n + 1 \in 1..Len(waiting')
      /\ \A i \in 1..Len(waiting') : i \in 1..n \/ i = n + 1
  BY <1>2, <1>3, AppendIs DEF PublishTypes
<1>5. \A i \in 1..n : waiting[i].payload \in Offers /\ waiting[i].payload # q
  BY <1>q, QueueItem DEF Placed
<1>6. q <= offered /\ outcome[q] = "none" /\ 1..offered \subseteq Offers
  BY <1>q, PublishAssumption DEF Placed, Offers, PublishTypes
<1>7. \A p : Queued(p) => Queued(p)'
  BY <1>4 DEF Queued
<1>8. Queued(q)'
  BY <1>4 DEF Queued
<1>9. \A u \in RetryThreads : Busy(u) => retryItem[u].payload \in Offers
  BY BusyItem DEF Items
<1> HIDE DEF n
<1>10. \A p \in Offers : p > offered => outcome'[p] = "none"
  BY <1>1 DEF Placed
<1>11. \A p \in 1..offered : outcome'[p] # "none" \/ Queued(p)'
            \/ \E u \in RetryThreads : Busy(u)' /\ retryItem'[u].payload = p
  <2> SUFFICES ASSUME NEW p \in 1..offered, p # q, outcome[p] = "none"
               PROVE  Queued(p)' \/ \E u \in RetryThreads : Busy(u)' /\ retryItem'[u].payload = p
    BY <1>1, <1>6, <1>8
  <2>1. ASSUME NEW u \in RetryThreads, Busy(u), retryItem[u].payload = p
        PROVE  Busy(u)' /\ retryItem'[u].payload = p
    BY <1>q, <1>1, <2>1
  <2> QED
    BY <1>7, <2>1 DEF Placed
<1>12. \A i \in 1..Len(waiting') :
          /\ waiting'[i].payload <= offered' /\ outcome'[waiting'[i].payload] = "none"
          /\ \A j \in 1..Len(waiting') : waiting'[j].payload = waiting'[i].payload => j = i
  <2>1. \A i \in 1..n : waiting[i].payload <= offered /\ outcome[waiting[i].payload] = "none"
            /\ \A j \in 1..n : waiting[j].payload = waiting[i].payload => j = i
    BY DEF Placed, n
  <2> QED
    BY <1>1, <1>3, <1>4, <1>5, <1>6, <2>1
<1>13. \A u \in RetryThreads : Busy(u)' =>
          /\ retryItem'[u].payload <= offered' /\ outcome'[retryItem'[u].payload] = "none"
          /\ \A i \in 1..Len(waiting') : waiting'[i].payload # retryItem'[u].payload
          /\ \A v \in RetryThreads :
                Busy(v)' /\ retryItem'[v].payload = retryItem'[u].payload => v = u
  <2> SUFFICES ASSUME NEW u \in RetryThreads, Busy(u)'
               PROVE  /\ retryItem'[u].payload <= offered' /\ outcome'[retryItem'[u].payload] = "none"
                      /\ \A i \in 1..Len(waiting') : waiting'[i].payload # retryItem'[u].payload
                      /\ \A v \in RetryThreads :
                           Busy(v)' /\ retryItem'[v].payload = retryItem'[u].payload => v = u
    OBVIOUS
  <2>1. u # t /\ Busy(u) /\ retryItem'[u] = retryItem[u]
    BY <1>1
  <2>2. retryItem[u].payload # q /\ retryItem[u].payload \in Offers
    BY <1>q, <1>9, <2>1 DEF Placed
  <2>3. /\ retryItem[u].payload <= offered /\ outcome[retryItem[u].payload] = "none"
        /\ \A i \in 1..n : waiting[i].payload # retryItem[u].payload
        /\ \A v \in RetryThreads : Busy(v) /\ retryItem[v].payload = retryItem[u].payload => v = u
    BY <2>1 DEF Placed, n
  <2> QED
    BY <1>1, <1>4, <2>1, <2>2, <2>3
<1> QED
  BY <1>4, <1>10, <1>11, <1>12, <1>13 DEF Placed

(* A thread takes the first item of the queue. *)
LEMMA GetsPlaced ==
  ASSUME PublishTypes, Handed, Placed, NEW t \in RetryThreads, RetryGets(t), waiting # <<>>
  PROVE  /\ Placed' /\ Handed' /\ waiting' \in Seq(Items)
         /\ retryAt' \in [RetryThreads -> {"unused", "check", "getting", "busy", "ended"}]
         /\ retryItem' \in [RetryThreads -> Items \union {NoItem}]
<1>q. PICK q : q = Head(waiting)
  OBVIOUS
<1>1. /\ retryAt[t] = "getting" /\ ~Busy(t)
      /\ waiting' = Tail(waiting)
      /\ retryItem' = [retryItem EXCEPT ![t] = q] /\ retryAt' = [retryAt EXCEPT ![t] = "busy"]
      /\ UNCHANGED <<offered, outcome>>
  BY <1>q DEF RetryGets, Busy
<1>2. /\ waiting' \in Seq(Items) /\ Len(waiting') = Len(waiting) - 1 /\ Len(waiting) \in Nat
      /\ q = waiting[1] /\ 1 \in 1..Len(waiting) /\ q \in Items
      /\ \A i \in 1..Len(waiting') : waiting'[i] = waiting[i + 1] /\ i + 1 \in 1..Len(waiting)
      /\ \A i \in 1..Len(waiting) :
            i = 1 \/ (i - 1 \in 1..Len(waiting') /\ waiting'[i - 1] = waiting[i])
  BY <1>q, <1>1, TailIs DEF PublishTypes
<1>3. /\ retryAt' \in [RetryThreads -> {"unused", "check", "getting", "busy", "ended"}]
      /\ retryItem' \in [RetryThreads -> Items \union {NoItem}]
      /\ Busy(t)' /\ retryItem'[t] = q
      /\ \A u \in RetryThreads : u # t => (Busy(u)' <=> Busy(u)) /\ retryItem'[u] = retryItem[u]
  BY <1>1, <1>2 DEF PublishTypes, Busy
<1>4. q # NoItem
  BY <1>2 DEF Items, NoItem, Offers
<1>5. Handed'
  BY <1>3, <1>4 DEF Handed, NoItem
<1>6. \A p : Queued(p) => Queued(p)' \/ p = q.payload
  BY <1>2 DEF Queued
<1>7. \A p \in 1..offered : outcome'[p] # "none" \/ Queued(p)'
            \/ \E u \in RetryThreads : Busy(u)' /\ retryItem'[u].payload = p
  <2> SUFFICES ASSUME NEW p \in 1..offered, outcome[p] = "none"
               PROVE  Queued(p)' \/ \E u \in RetryThreads : Busy(u)' /\ retryItem'[u].payload = p
    BY <1>1
  <2>1. CASE Queued(p)
    BY <1>3, <1>6, <2>1
  <2>2. ASSUME NEW u \in RetryThreads, Busy(u), retryItem[u].payload = p
        PROVE  Busy(u)' /\ retryItem'[u].payload = p
    BY <1>1, <1>3, <2>2
  <2> QED
    BY <2>1, <2>2 DEF Placed
<1>8. \A i \in 1..Len(waiting') :
          /\ waiting'[i].payload <= offered /\ outcome[waiting'[i].payload] = "none"
          /\ waiting'[i].payload # q.payload
          /\ \A j \in 1..Len(waiting') : waiting'[j].payload = waiting'[i].payload => j = i
  <2> SUFFICES ASSUME NEW i \in 1..Len(waiting')
               PROVE  /\ waiting'[i].payload <= offered /\ outcome[waiting'[i].payload] = "none"
                      /\ waiting'[i].payload # q.payload
                      /\ \A j \in 1..Len(waiting') :
                            waiting'[j].payload = waiting'[i].payload => j = i
    OBVIOUS
  <2>1. waiting'[i] = waiting[i + 1] /\ i + 1 \in 1..Len(waiting) /\ i + 1 # 1
    BY <1>2
  <2>2. \A j \in 1..Len(waiting) : waiting[j].payload = waiting[i + 1].payload => j = i + 1
    BY <2>1 DEF Placed
  <2>3. \A j \in 1..Len(waiting') : waiting'[j].payload = waiting'[i].payload => j = i
    <3> SUFFICES ASSUME NEW j \in 1..Len(waiting'), waiting'[j].payload = waiting'[i].payload
                 PROVE  j = i
      OBVIOUS
    <3>1. waiting[j + 1].payload = waiting[i + 1].payload /\ j + 1 \in 1..Len(waiting)
      BY <1>2, <2>1
    <3>2. j + 1 = i + 1
      BY <2>2, <3>1
    <3> QED
      BY <3>2
  <2>4. waiting[1].payload # waiting[i + 1].payload
    BY <1>2, <2>1, <2>2
  <2>5. waiting[i + 1].payload <= offered /\ outcome[waiting[i + 1].payload] = "none"
    BY <2>1 DEF Placed
  <2> QED
    BY <1>2, <2>1, <2>3, <2>4, <2>5
<1>9. \A u \in RetryThreads : Busy(u)' =>
          /\ retryItem'[u].payload <= offered /\ outcome[retryItem'[u].payload] = "none"
          /\ \A i \in 1..Len(waiting') : waiting'[i].payload # retryItem'[u].payload
          /\ \A v \in RetryThreads :
                Busy(v)' /\ retryItem'[v].payload = retryItem'[u].payload => v = u
  <2>1. ASSUME NEW u \in RetryThreads, u # t, Busy(u)'
        PROVE  /\ retryItem'[u].payload <= offered /\ outcome[retryItem'[u].payload] = "none"
               /\ \A i \in 1..Len(waiting') : waiting'[i].payload # retryItem'[u].payload
               /\ retryItem'[u].payload # q.payload
               /\ \A v \in RetryThreads :
                    v # t /\ Busy(v)' /\ retryItem'[v].payload = retryItem'[u].payload => v = u
    <3>1. Busy(u) /\ retryItem'[u] = retryItem[u]
      BY <1>3, <2>1
    <3>2. \A i \in 1..Len(waiting') : waiting'[i].payload # retryItem'[u].payload
      BY <1>2, <3>1 DEF Placed
    <3>3. retryItem'[u].payload # q.payload
      BY <1>2, <3>1 DEF Placed
    <3> QED
      BY <1>3, <3>1, <3>2, <3>3 DEF Placed
  <2>2. q.payload <= offered /\ outcome[q.payload] = "none"
    BY <1>2 DEF Placed
  <2> QED
    BY <1>3, <1>8, <2>1, <2>2
<1>10. \A p \in Offers : p > offered' => outcome'[p] = "none"
  BY <1>1 DEF Placed
<1> QED
  BY <1>1, <1>2, <1>3, <1>5, <1>7, <1>8, <1>9, <1>10 DEF Placed

(* A payload is offered: it joins the queue, or its outcome is known. *)
LEMMA OfferPlaced ==
  ASSUME PublishTypes, Handed, Placed, Offer
  PROVE  /\ Placed' /\ Handed' /\ waiting' \in Seq(Items) /\ offered' \in 0..MaxOffers
         /\ outcome' \in [Offers -> {"none", "refused", "published", "lost", "dropped"}]
         /\ UNCHANGED <<retryAt, retryItem>>
<1>q. PICK q : q = offered + 1
  OBVIOUS
<1>1. /\ offered' = q /\ q \in Offers /\ offered \in Nat /\ q \in Nat /\ q = offered + 1
      /\ MaxOffers \in Nat
      /\ UNCHANGED <<retryAt, retryItem>> /\ offered' \in 0..MaxOffers
      /\ PublishDirect(q) \/ EnqueueOffer(q)
  <2>1. offered \in Nat /\ offered < MaxOffers /\ MaxOffers \in Nat /\ offered' = offered + 1
    BY PublishAssumption DEF Offer, PublishTypes
  <2> QED
    BY <1>q, <2>1 DEF Offer, threadVars, Offers
<1>2. /\ \A u \in RetryThreads : (Busy(u)' <=> Busy(u)) /\ retryItem'[u] = retryItem[u]
      /\ Handed'
  <2>1. \A u \in RetryThreads : (Busy(u)' <=> Busy(u)) /\ retryItem'[u] = retryItem[u]
    BY <1>1 DEF Busy
  <2> QED
    BY <2>1 DEF Handed, NoItem
<1>3. \A i \in 1..Len(waiting) : waiting[i].payload \in Offers /\ waiting[i].payload # q
  <2>1. \A i \in 1..Len(waiting) : waiting[i].payload \in Int /\ waiting[i].payload <= offered
    BY QueueItem DEF Placed, Offers
  <2> QED
    BY <1>1, <2>1, QueueItem
<1>4. \A u \in RetryThreads : Busy(u) =>
         retryItem[u].payload \in Offers /\ retryItem[u].payload # q
  <2>1. \A u \in RetryThreads : Busy(u) => retryItem[u].payload \in Offers
    BY BusyItem DEF Items
  <2> QED
    BY <1>1, <2>1 DEF Placed, Offers
<1>5. /\ \A p \in 1..offered' : p = q \/ p \in 1..offered
      /\ \A p \in 1..offered : p # q /\ p \in Offers
      /\ \A p \in Offers : p > offered' => p > offered /\ p # q
      /\ \A p \in Offers : p <= offered => p <= offered'
  BY <1>1 DEF Offers
<1>6. CASE waiting' = waiting /\ \E r \in {"refused", "published"} : outcome' = [outcome EXCEPT ![q] = r]
  <2>1. /\ \A p \in Offers : p # q => outcome'[p] = outcome[p]
        /\ outcome'[q] # "none"
        /\ outcome' \in [Offers -> {"none", "refused", "published", "lost", "dropped"}]
    BY <1>1, <1>6 DEF PublishTypes
  <2>2. \A p : Queued(p)' <=> Queued(p)
    BY <1>6 DEF Queued
  <2>4. \A i \in 1..Len(waiting') :
            /\ waiting'[i].payload <= offered' /\ outcome'[waiting'[i].payload] = "none"
            /\ \A j \in 1..Len(waiting') : waiting'[j].payload = waiting'[i].payload => j = i
    BY <1>3, <1>5, <1>6, <2>1 DEF Placed
  <2>5. \A u \in RetryThreads : Busy(u)' =>
            /\ retryItem'[u].payload <= offered' /\ outcome'[retryItem'[u].payload] = "none"
            /\ \A i \in 1..Len(waiting') : waiting'[i].payload # retryItem'[u].payload
            /\ \A v \in RetryThreads :
                  Busy(v)' /\ retryItem'[v].payload = retryItem'[u].payload => v = u
    BY <1>2, <1>4, <1>5, <1>6, <2>1 DEF Placed
  <2>6. \A p \in 1..offered' : outcome'[p] # "none" \/ Queued(p)'
            \/ \E u \in RetryThreads : Busy(u)' /\ retryItem'[u].payload = p
    BY <1>2, <1>5, <2>1, <2>2 DEF Placed
  <2>7. \A p \in Offers : p > offered' => outcome'[p] = "none"
    BY <1>5, <2>1 DEF Placed
  <2>3. Placed'
    BY <2>4, <2>5, <2>6, <2>7 DEF Placed
  <2> QED
    BY <1>1, <1>2, <1>6, <2>1, <2>3 DEF PublishTypes
<1>7. CASE outcome' = outcome /\ waiting' = Append(waiting, [payload |-> q, attempt |-> 0])
  <2> DEFINE n == Len(waiting)
  <2>1. [payload |-> q, attempt |-> 0] \in Items
    BY <1>1 DEF Items
  <2>2. /\ waiting' \in Seq(Items) /\ n \in Nat /\ Len(waiting') = n + 1
        /\ \A i \in 1..n : waiting'[i] = waiting[i] /\ i \in 1..Len(waiting')
        /\ waiting'[n + 1].payload = q /\ n + 1 \in 1..Len(waiting')
        /\ \A i \in 1..Len(waiting') : i \in 1..n \/ i = n + 1
    BY <1>7, <2>1, AppendIs DEF PublishTypes
  <2>3. \A p : Queued(p) => Queued(p)'
    BY <2>2 DEF Queued
  <2>4. Queued(q)'
    BY <2>2 DEF Queued
  <2> HIDE DEF n
  <2>5. q <= offered' /\ outcome'[q] = "none"
    BY <1>1, <1>7 DEF Placed
  <2>6. \A i \in 1..Len(waiting') :
            /\ waiting'[i].payload <= offered' /\ outcome'[waiting'[i].payload] = "none"
            /\ \A j \in 1..Len(waiting') : waiting'[j].payload = waiting'[i].payload => j = i
    <3>1. \A i \in 1..n : waiting[i].payload <= offered /\ outcome[waiting[i].payload] = "none"
              /\ waiting[i].payload \in Offers /\ waiting[i].payload # q
              /\ \A j \in 1..n : waiting[j].payload = waiting[i].payload => j = i
      BY <1>3 DEF Placed, n
    <3> QED
      BY <1>5, <1>7, <2>2, <2>5, <3>1
  <2>7. \A u \in RetryThreads : Busy(u)' =>
            /\ retryItem'[u].payload <= offered' /\ outcome'[retryItem'[u].payload] = "none"
            /\ \A i \in 1..Len(waiting') : waiting'[i].payload # retryItem'[u].payload
            /\ \A v \in RetryThreads :
                  Busy(v)' /\ retryItem'[v].payload = retryItem'[u].payload => v = u
    <3>1. \A u \in RetryThreads : Busy(u) =>
            /\ retryItem[u].payload <= offered /\ outcome[retryItem[u].payload] = "none"
            /\ \A i \in 1..n : waiting[i].payload # retryItem[u].payload
            /\ \A v \in RetryThreads :
                  Busy(v) /\ retryItem[v].payload = retryItem[u].payload => v = u
      BY DEF Placed, n
    <3> QED
      BY <1>2, <1>4, <1>5, <1>7, <2>2, <3>1
  <2>8. \A p \in 1..offered' : outcome'[p] # "none" \/ Queued(p)'
            \/ \E u \in RetryThreads : Busy(u)' /\ retryItem'[u].payload = p
    BY <1>2, <1>5, <1>7, <2>3, <2>4 DEF Placed
  <2>9. \A p \in Offers : p > offered' => outcome'[p] = "none"
    BY <1>5, <1>7 DEF Placed
  <2>10. Placed'
    BY <2>6, <2>7, <2>8, <2>9 DEF Placed
  <2> QED
    BY <1>1, <1>2, <1>7, <2>2, <2>10 DEF PublishTypes
<1> QED
  BY <1>1, <1>6, <1>7 DEF PublishDirect, EnqueueOffer

-----------------------------------------------------------------------------
(* What paho sends or keeps. *)
LEMMA ElementsAppend ==
  ASSUME NEW S, NEW s \in Seq(S), NEW e \in S
  PROVE  Elements(Append(s, e)) = Elements(s) \union {e}
<1>1. Elements(s) \union {e} \subseteq Elements(Append(s, e))
  BY AppendIs DEF Elements
<1>2. Elements(Append(s, e)) \subseteq Elements(s) \union {e}
  BY AppendIs DEF Elements
<1> QED
  BY <1>1, <1>2

LEMMA ElementsTail ==
  ASSUME NEW S, NEW s \in Seq(S), s # <<>>
  PROVE  Elements(Tail(s)) \subseteq Elements(s) /\ Head(s) \in Elements(s)
BY TailIs DEF Elements

(* Where the payload p arrives for the first time, or where it has arrived. *)
LEMMA ArriveIs ==
  ASSUME NEW s \in Seq(Offers), NEW p \in Offers
  PROVE  /\ Arrive(s, p) \in Seq(Offers)
         /\ Elements(Arrive(s, p)) = Elements(s) \union {p}
         /\ Arrive(s, p) = s \/ (Arrive(s, p) = Append(s, p) /\ p \notin Elements(s))
<1>1. CASE \E i \in DOMAIN s : s[i] = p
  BY <1>1 DEF Arrive, Elements
<1>2. CASE ~\E i \in DOMAIN s : s[i] = p
  BY <1>2, ElementsAppend DEF Arrive, Elements
<1> QED
  BY <1>1, <1>2

LEMMA Increasing ==
  ASSUME NEW s \in Seq(Offers), NEW p \in Offers,
         \A i, j \in 1..Len(s) : i < j => s[i] < s[j],
         \A x \in Elements(s) : x <= p
  PROVE  \A i, j \in 1..Len(Arrive(s, p)) : i < j => Arrive(s, p)[i] < Arrive(s, p)[j]
<1>1. CASE Arrive(s, p) = s
  BY <1>1
<1>2. CASE Arrive(s, p) = Append(s, p) /\ p \notin Elements(s)
  <2>1. \A i \in 1..Len(s) : s[i] < p
    <3>1. \A i \in 1..Len(s) : s[i] \in Elements(s)
      BY DEF Elements
    <3>2. \A i \in 1..Len(s) : s[i] \in Offers
      BY ElementsTyped
    <3>3. Offers \subseteq Int
      BY PublishAssumption DEF Offers
    <3>4. \A i \in 1..Len(s) : s[i] \in Int
      BY <3>2, <3>3
    <3> QED
      BY <1>2, <3>1, <3>3, <3>4
  <2> QED
    BY <1>2, <2>1, AppendIs
<1> QED
  BY <1>1, <1>2, ArriveIs

LEMMA NotDecreasing ==
  ASSUME NEW s \in Seq(Offers), NEW p \in Offers,
         \A i, j \in 1..Len(s) : i < j => s[i] <= s[j],
         \A x \in Elements(s) : x <= p
  PROVE  \A i, j \in 1..Len(Append(s, p)) : i < j => Append(s, p)[i] <= Append(s, p)[j]
<1>1. \A i \in 1..Len(s) : s[i] <= p
  BY DEF Elements
<1> QED
  BY <1>1, AppendIs

LEMMA PahoTyped ==
  ASSUME PublishTypes, NEW p \in Offers, PahoPublish(p)
  PROVE  arrived' \in Seq(Offers) /\ outbox' \in Seq(Offers)
<1>1. arrived \in Seq(Offers) /\ outbox \in Seq(Offers)
  BY DEF PublishTypes
<1>2. Arrive(arrived, p) \in Seq(Offers) /\ Append(outbox, p) \in Seq(Offers)
  BY <1>1, ArriveIs, AppendIs
<1> QED
  BY <1>1, <1>2 DEF PahoPublish

(* Publishing what is not older than anything sent keeps the order. *)
LEMMA PublishInOrder ==
  ASSUME PublishTypes, SentInOrder, NEW p \in Offers, PahoPublish(p), \A x \in Sent : x <= p
  PROVE  SentInOrder' /\ Sent' \subseteq Sent \union {p}
<1>0. arrived \in Seq(Offers) /\ outbox \in Seq(Offers)
  BY DEF PublishTypes
<1>1. CASE outbox = <<>> /\ outbox' = outbox /\ arrived' = Arrive(arrived, p)
  <2>1. \A i, j \in 1..Len(arrived') : i < j => arrived'[i] < arrived'[j]
    BY <1>0, <1>1, Increasing DEF SentInOrder, Sent
  <2>2. Elements(arrived') = Elements(arrived) \union {p}
    BY <1>0, <1>1, ArriveIs
  <2>3. Elements(outbox) = {}
    BY <1>1 DEF Elements
  <2>4. Sent' = Sent \union {p}
    BY <1>1, <2>2, <2>3 DEF Sent, Elements
  <2>5. \A i, j \in 1..Len(outbox') : i < j => outbox'[i] <= outbox'[j]
    BY <1>1 DEF SentInOrder
  <2>6. Elements(outbox') = {}
    BY <1>1, <2>3
  <2>7. \A a \in Elements(arrived'), o \in Elements(outbox') : a <= o
    BY <2>6
  <2> QED
    BY <2>1, <2>4, <2>5, <2>7 DEF SentInOrder, Elements
<1>2. CASE arrived' = arrived /\ outbox' = Append(outbox, p)
  <2>1. \A i, j \in 1..Len(outbox') : i < j => outbox'[i] <= outbox'[j]
    BY <1>0, <1>2, NotDecreasing DEF SentInOrder, Sent
  <2>2. Elements(outbox') = Elements(outbox) \union {p}
    BY <1>0, <1>2, ElementsAppend
  <2>3. \A a \in Elements(arrived), o \in Elements(outbox') : a <= o
    BY <2>2 DEF SentInOrder, Sent
  <2> QED
    BY <1>2, <2>1, <2>2, <2>3 DEF SentInOrder, Sent, Elements
<1> QED
  BY <1>1, <1>2 DEF PahoPublish

(* So does sending the oldest of what was kept. *)
LEMMA ResendInOrder ==
  ASSUME PublishTypes, SentInOrder, Resend
  PROVE  SentInOrder' /\ Sent' \subseteq Sent
<1>0. /\ arrived \in Seq(Offers) /\ outbox \in Seq(Offers) /\ outbox # <<>>
      /\ arrived' = Arrive(arrived, Head(outbox)) /\ outbox' = Tail(outbox)
      /\ Head(outbox) \in Offers
  BY TailIs DEF PublishTypes, Resend
<1>1. /\ Head(outbox) \in Elements(outbox) /\ Elements(outbox') \subseteq Elements(outbox)
      /\ Elements(arrived') = Elements(arrived) \union {Head(outbox)}
  BY <1>0, ElementsTail, ArriveIs
<1>2. \A i, j \in 1..Len(arrived') : i < j => arrived'[i] < arrived'[j]
  BY <1>0, <1>1, Increasing DEF SentInOrder
<1>3. /\ Head(outbox) = outbox[1] /\ 1 \in 1..Len(outbox)
      /\ \A i \in 1..Len(outbox') :
            outbox'[i] = outbox[i + 1] /\ i + 1 \in 1..Len(outbox) /\ i \in Nat /\ 1 < i + 1
  BY <1>0, TailIs
<1>4. \A i, j \in 1..Len(outbox') : i < j => outbox'[i] <= outbox'[j]
  BY <1>3 DEF SentInOrder
<1>5. \A o \in Elements(outbox') : Head(outbox) <= o
  BY <1>3 DEF SentInOrder, Elements
<1>6. \A a \in Elements(arrived'), o \in Elements(outbox') : a <= o
  BY <1>1, <1>5 DEF SentInOrder
<1>7. Sent' \subseteq Sent
  BY <1>1 DEF Sent, Elements
<1> QED
  BY <1>2, <1>4, <1>6, <1>7 DEF SentInOrder, Elements

-----------------------------------------------------------------------------
(* What has not been sent stays behind what has. *)
LEMMA BehindStays ==
  ASSUME Behind, waiting' = waiting, offered' = offered,
         \A t \in RetryThreads : Busy(t)' =>
            Busy(t) /\ retryItem'[t].payload = retryItem[t].payload,
         \A x \in Sent' : x \in Sent \/
            /\ x <= offered
            /\ \A t \in RetryThreads : Busy(t) => x <= retryItem[t].payload
            /\ \A i \in 1..Len(waiting) : x < waiting[i].payload
  PROVE  Behind'
<1>1. \A x \in Sent' :
          /\ x <= offered
          /\ \A t \in RetryThreads : Busy(t) => x <= retryItem[t].payload
          /\ \A i \in 1..Len(waiting) : x < waiting[i].payload
  BY DEF Behind
<1>2. \A i \in 1..Len(waiting) :
          /\ \A t \in RetryThreads : Busy(t)' => retryItem'[t].payload < waiting[i].payload
          /\ \A j \in 1..Len(waiting) : i < j => waiting[i].payload < waiting[j].payload
  BY DEF Behind
<1>3. \A x \in Sent', t \in RetryThreads : Busy(t)' => x <= retryItem'[t].payload
  BY <1>1
<1> QED
  BY <1>1, <1>2, <1>3 DEF Behind

(* A step of the kind that moves no payload that was not sent. *)
LEMMA OrderedStays ==
  ASSUME Ordered, UNCHANGED <<kind, waiting, offered>>, overtaken' = FALSE => overtaken = FALSE,
         overtaken \in BOOLEAN, overtaken' \in BOOLEAN,
         Running' \subseteq Running \/ overtaken',
         \A t \in RetryThreads : Busy(t)' =>
            Busy(t) /\ retryItem'[t].payload = retryItem[t].payload,
         kind # "legacy" /\ SentInOrder /\ Behind /\ Alone => SentInOrder' /\
            \A x \in Sent' : x \in Sent \/
              /\ x <= offered
              /\ \A t \in RetryThreads : Busy(t) => x <= retryItem[t].payload
              /\ \A i \in 1..Len(waiting) : x < waiting[i].payload
  PROVE  Ordered'
<1> SUFFICES ASSUME kind # "legacy", ~overtaken'
             PROVE  SentInOrder' /\ Behind' /\ Alone'
  BY DEF Ordered
<1>1. SentInOrder /\ Behind /\ Alone
  BY DEF Ordered
<1>2. Behind'
  BY <1>1, BehindStays
<1>3. Alone'
  BY <1>1 DEF Alone
<1> QED
  BY <1>1, <1>2, <1>3

-----------------------------------------------------------------------------
(* The steps of a retry thread with an item in hand. *)
LEMMA AttemptStep ==
  ASSUME PInv, NEW t \in RetryThreads, Attempts(t)
  PROVE  PInv'
<1>q. PICK q : q = retryItem[t].payload
  OBVIOUS
<1>1. /\ Busy(t) /\ PublishTypes /\ Handed /\ Placed
      /\ UNCHANGED <<kind, offered, overtaken>> /\ overtaken \in BOOLEAN
      /\ PahoPublish(q) \/ UNCHANGED <<arrived, outbox>>
  BY <1>q, AttemptIs DEF PInv, PublishTypes
<1>2. q \in Offers /\ retryItem[t] \in Items /\ t \in Running /\ retryItem[t].attempt \in Nat
  BY <1>q, <1>1, BusyItem DEF Items
<1>3. arrived' \in Seq(Offers) /\ outbox' \in Seq(Offers)
  BY <1>1, <1>2, PahoTyped DEF PublishTypes
<1>4. /\ q <= offered
      /\ \A x \in Sent : x <= q \/ kind = "legacy" \/ overtaken
      /\ kind = "legacy" \/ overtaken \/
            /\ \A u \in RetryThreads : Busy(u) => u = t
            /\ \A i \in 1..Len(waiting) : q < waiting[i].payload
  <2>1. q <= offered
    BY <1>q, <1>1 DEF Placed
  <2>2. \A u \in RetryThreads : Busy(u) => u \in Running
    BY DEF Busy, Running
  <2> QED
    BY <1>q, <1>1, <1>2, <2>1, <2>2 DEF PInv, Ordered, Behind, Alone
<1>5. kind # "legacy" /\ ~overtaken /\ SentInOrder /\ Behind /\ Alone =>
         /\ SentInOrder'
         /\ \A x \in Sent' : x \in Sent \/
              /\ x <= offered
              /\ \A u \in RetryThreads : Busy(u) => x <= retryItem[u].payload
              /\ \A i \in 1..Len(waiting) : x < waiting[i].payload
  <2> SUFFICES ASSUME kind # "legacy", ~overtaken, SentInOrder
               PROVE  /\ SentInOrder'
                      /\ Sent' \subseteq Sent \union {q}
    BY <1>q, <1>2, <1>4 DEF Offers
  <2>1. CASE PahoPublish(q)
    BY <1>1, <1>2, <1>4, <2>1, PublishInOrder
  <2>2. CASE UNCHANGED <<arrived, outbox>>
    BY <2>2 DEF SentInOrder, Sent, Elements
  <2> QED
    BY <1>1, <2>1, <2>2
<1>6. CASE \E r \in {"published", "dropped", "lost"} : Leaves(t, r)
  <2>1. PICK r \in {"published", "dropped", "lost"} : Leaves(t, r)
    BY <1>6
  <2>2. /\ retryAt' \in [RetryThreads -> {"unused", "check", "getting", "busy", "ended"}]
        /\ retryItem' \in [RetryThreads -> Items \union {NoItem}]
        /\ outcome' \in [Offers -> {"none", "refused", "published", "lost", "dropped"}]
        /\ ~Busy(t)' /\ retryItem'[t] = NoItem /\ retryAt'[t] = "check"
        /\ \A u \in RetryThreads : u # t =>
              retryAt'[u] = retryAt[u] /\ retryItem'[u] = retryItem[u]
        /\ waiting' = waiting
    BY <1>1, <2>1, DoneIs DEF Leaves
  <2>3. PublishTypes'
    BY <1>1, <1>3, <2>2 DEF PublishTypes
  <2>4. Handed'
    BY <1>1, <2>2 DEF Handed, Busy, NoItem
  <2>5. Placed'
    BY <1>1, <2>1, LeavesPlaced
  <2>6. Running' \subseteq Running
    BY <1>2, <2>2 DEF Running
  <2>7. \A u \in RetryThreads : Busy(u)' =>
            Busy(u) /\ retryItem'[u].payload = retryItem[u].payload
    BY <2>2 DEF Busy
  <2>8. Ordered'
    BY <1>1, <1>5, <2>2, <2>6, <2>7, OrderedStays DEF PInv, Ordered
  <2> QED
    BY <2>3, <2>4, <2>5, <2>8 DEF PInv
<1>7. CASE GoesBack(t)
  <2>1. /\ retryAt' \in [RetryThreads -> {"unused", "check", "getting", "busy", "ended"}]
        /\ retryItem' \in [RetryThreads -> Items \union {NoItem}]
        /\ outcome' \in [Offers -> {"none", "refused", "published", "lost", "dropped"}]
        /\ ~Busy(t)' /\ retryItem'[t] = NoItem
        /\ \A u \in RetryThreads : u # t =>
              retryAt'[u] = retryAt[u] /\ retryItem'[u] = retryItem[u]
    BY <1>1, <1>7, DoneIs DEF GoesBack
  <2>2. Placed' /\ waiting' \in Seq(Items)
    BY <1>1, <1>7, GoesBackPlaced
  <2>3. PublishTypes'
    BY <1>1, <1>3, <2>1, <2>2 DEF PublishTypes
  <2>4. Handed'
    BY <1>1, <2>1 DEF Handed, Busy, NoItem
  <2>5. Ordered'
    BY <1>1, <1>7 DEF GoesBack, Ordered
  <2> QED
    BY <2>2, <2>3, <2>4, <2>5 DEF PInv
<1>8. CASE StaysInHand(t)
  <2>1. PICK k \in Nat : retryItem' = [retryItem EXCEPT ![t].attempt = k]
    BY <1>8 DEF StaysInHand
  <2>2. UNCHANGED <<waiting, retryAt, outcome>>
    BY <1>8 DEF StaysInHand
  <2>3. /\ retryItem' \in [RetryThreads -> Items \union {NoItem}]
        /\ retryItem'[t] \in Items /\ retryItem'[t].payload = q
        /\ \A u \in RetryThreads : u # t => retryItem'[u] = retryItem[u]
    <3>1. [retryItem[t] EXCEPT !.attempt = k] \in Items
          /\ [retryItem[t] EXCEPT !.attempt = k].payload = q
      BY <1>q, <1>2, <2>1 DEF Items
    <3>2. retryItem \in [RetryThreads -> Items \union {NoItem}]
          /\ retryItem' = [retryItem EXCEPT ![t] = [retryItem[t] EXCEPT !.attempt = k]]
      BY <1>1, <2>1 DEF PublishTypes
    <3> QED
      BY <3>1, <3>2
  <2>4. PublishTypes'
    BY <1>1, <1>3, <2>2, <2>3 DEF PublishTypes
  <2>5. \A u \in RetryThreads : /\ Busy(u)' <=> Busy(u)
                                /\ retryItem'[u].payload = retryItem[u].payload
    BY <1>q, <2>2, <2>3 DEF Busy
  <2>6. retryItem'[t] # NoItem
    BY <2>3, <1>2 DEF Items, NoItem, Offers
  <2>7. Handed'
    <3>1. \A u \in RetryThreads : Busy(u)' <=> retryItem'[u] # NoItem
      BY <1>1, <2>3, <2>5, <2>6 DEF Handed
    <3> QED
      BY <3>1 DEF Handed, NoItem
  <2>8. Placed'
    BY <1>1, <2>2, <2>5, PlacedStays
  <2>9. Running' \subseteq Running
    BY <2>2 DEF Running
  <2>10. Ordered'
    BY <1>1, <1>5, <2>2, <2>5, <2>9, OrderedStays DEF PInv, Ordered
  <2> QED
    BY <2>4, <2>7, <2>8, <2>10 DEF PInv
<1> QED
  BY <1>1, <1>6, <1>7, <1>8, AttemptIs

(* A thread takes an item, or finds the queue empty. *)
LEMMA GetsStep ==
  ASSUME PInv, NEW t \in RetryThreads, RetryGets(t)
  PROVE  PInv'
<1>1. /\ PublishTypes /\ Handed /\ Placed /\ Ordered
      /\ UNCHANGED <<kind, offered, overtaken, arrived, outbox, outcome>>
      /\ retryAt[t] = "getting" /\ ~Busy(t) /\ t \in Running
  BY DEF PInv, RetryGets, pahoVars, Busy, Running
<1>2. Sent' = Sent /\ (SentInOrder' <=> SentInOrder)
  BY <1>1 DEF Sent, SentInOrder, Elements
<1>3. CASE waiting = <<>>
  <2>1. UNCHANGED <<waiting, retryItem>> /\ retryAt' = [retryAt EXCEPT ![t] = "check"]
    BY <1>3 DEF RetryGets
  <2>2. PublishTypes'
    BY <1>1, <2>1 DEF PublishTypes
  <2>3. \A u \in RetryThreads : /\ Busy(u)' <=> Busy(u)
                                /\ retryItem'[u].payload = retryItem[u].payload
    BY <1>1, <2>1 DEF Busy, PublishTypes
  <2>4. Handed'
    BY <1>1, <2>1, <2>3 DEF Handed, NoItem
  <2>5. Placed'
    BY <1>1, <2>1, <2>3, PlacedStays
  <2>6. Running' \subseteq Running
    BY <1>1, <2>1 DEF Running, PublishTypes
  <2>7. Ordered'
    BY <1>1, <1>2, <2>1, <2>3, <2>6, OrderedStays DEF PublishTypes
  <2> QED
    BY <2>2, <2>4, <2>5, <2>7 DEF PInv
<1>4. CASE waiting # <<>>
  <2>q. PICK q : q = Head(waiting)
    OBVIOUS
  <2>1. /\ waiting' = Tail(waiting) /\ retryItem' = [retryItem EXCEPT ![t] = q]
        /\ retryAt' = [retryAt EXCEPT ![t] = "busy"]
    BY <1>4, <2>q DEF RetryGets
  <2>2. /\ Placed' /\ Handed' /\ waiting' \in Seq(Items)
        /\ retryAt' \in [RetryThreads -> {"unused", "check", "getting", "busy", "ended"}]
        /\ retryItem' \in [RetryThreads -> Items \union {NoItem}]
    BY <1>1, <1>4, GetsPlaced
  <2>3. PublishTypes'
    BY <1>1, <2>2 DEF PublishTypes
  <2>4. Running' \subseteq Running
    BY <1>1, <2>1 DEF Running, PublishTypes
  <2>5. ASSUME kind # "legacy", ~overtaken
        PROVE  Behind' /\ Alone'
    <3>1. Behind /\ Alone
      BY <1>1, <2>5 DEF Ordered
    <3>2. Alone'
      BY <1>1, <1>4, <2>4, <3>1 DEF Alone
    <3>3. /\ q = waiting[1] /\ 1 \in 1..Len(waiting)
          /\ \A i \in 1..Len(waiting') :
                /\ waiting'[i] = waiting[i + 1] /\ i + 1 \in 1..Len(waiting)
                /\ i \in Nat /\ 1 < i + 1
      BY <1>1, <1>4, <2>q, <2>1, TailIs DEF PublishTypes
    <3>4. \A u \in RetryThreads : u # t => ~Busy(u)'
      BY <1>1, <2>1, <3>1 DEF Alone, Running, Busy, PublishTypes
    <3>5. retryItem'[t] = q
      BY <1>1, <2>1 DEF PublishTypes
    <3>6. q.payload \in Offers
      BY <1>1, <3>3, QueueItem
    <3>7. \A x \in Sent : /\ x <= offered
                          /\ x <= q.payload
                          /\ \A i \in 1..Len(waiting') : x < waiting'[i].payload
      <4>1. \A x \in Sent : x <= offered /\ x < q.payload /\ x \in Int
        <5>1. Sent \subseteq Offers
          BY <1>1, ElementsTyped DEF Sent, Elements, PublishTypes
        <5>2. Offers \subseteq Int
          BY PublishAssumption DEF Offers
        <5> QED
          BY <3>1, <3>3, <5>1, <5>2 DEF Behind
      <4>2. q.payload \in Int
        BY <3>6, PublishAssumption DEF Offers
      <4> QED
        BY <3>1, <3>3, <4>1, <4>2 DEF Behind
    <3>8. \A i \in 1..Len(waiting') :
             /\ q.payload < waiting'[i].payload
             /\ \A j \in 1..Len(waiting') : i < j => waiting'[i].payload < waiting'[j].payload
      BY <3>1, <3>3 DEF Behind
    <3>9. \A x \in Sent' : /\ x <= offered'
                           /\ \A u \in RetryThreads : Busy(u)' => x <= retryItem'[u].payload
                           /\ \A i \in 1..Len(waiting') : x < waiting'[i].payload
      BY <1>1, <1>2, <3>4, <3>5, <3>7
    <3>10. \A i \in 1..Len(waiting') :
             /\ \A u \in RetryThreads : Busy(u)' => retryItem'[u].payload < waiting'[i].payload
             /\ \A j \in 1..Len(waiting') : i < j => waiting'[i].payload < waiting'[j].payload
      BY <3>4, <3>5, <3>8
    <3> QED
      BY <3>2, <3>9, <3>10 DEF Behind
  <2>6. Ordered'
    BY <1>1, <1>2, <2>5 DEF Ordered
  <2> QED
    BY <2>2, <2>3, <2>6 DEF PInv
<1> QED
  BY <1>3, <1>4

(* A payload is offered, as the newest of all. *)
LEMMA OfferStep ==
  ASSUME PInv, Offer
  PROVE  PInv'
<1>q. PICK q : q = offered + 1
  OBVIOUS
<1>1. /\ PublishTypes /\ Handed /\ Placed /\ Ordered
      /\ UNCHANGED <<kind, overtaken, retryAt, retryItem>>
      /\ offered' = q /\ (PublishDirect(q) \/ EnqueueOffer(q))
      /\ offered \in Nat /\ offered <= q /\ q \in Int
  <2>1. offered \in Nat
    BY PublishAssumption DEF PInv, PublishTypes
  <2> QED
    BY <1>q, <2>1 DEF PInv, Offer, threadVars
<1>2. /\ Placed' /\ Handed' /\ waiting' \in Seq(Items) /\ offered' \in 0..MaxOffers
      /\ outcome' \in [Offers -> {"none", "refused", "published", "lost", "dropped"}]
  BY <1>1, OfferPlaced
<1>3. q \in Offers
  <2>1. offered' <= MaxOffers /\ MaxOffers \in Nat /\ 1 <= q
    BY <1>1, <1>2, <1>q, PublishAssumption
  <2> QED
    BY <1>1, <2>1 DEF Offers
<1>4. PahoPublish(q) \/ UNCHANGED <<arrived, outbox>>
  BY <1>1 DEF PublishDirect, EnqueueOffer, pahoVars
<1>5. arrived' \in Seq(Offers) /\ outbox' \in Seq(Offers)
  BY <1>1, <1>3, <1>4, PahoTyped DEF PublishTypes
<1>6. PublishTypes'
  BY <1>1, <1>2, <1>5 DEF PublishTypes
<1>7. ASSUME kind # "legacy", ~overtaken
      PROVE  SentInOrder' /\ Behind' /\ Alone'
  <2>1. SentInOrder /\ Behind /\ Alone
    BY <1>1, <1>7 DEF Ordered
  <2>2. \A x \in Sent : x <= offered /\ x <= q /\ x \in Int
    <3>1. Sent \subseteq Offers
      BY <1>1, ElementsTyped DEF Sent, Elements, PublishTypes
    <3>2. Offers \subseteq Int
      BY PublishAssumption DEF Offers
    <3>3. \A x \in Sent : x <= offered
      BY <2>1 DEF Behind
    <3> QED
      BY <1>1, <3>1, <3>2, <3>3
  <2>3. SentInOrder' /\ Sent' \subseteq Sent \union {q}
    <3>1. CASE PahoPublish(q)
      BY <1>1, <1>3, <2>1, <2>2, <3>1, PublishInOrder
    <3>2. CASE UNCHANGED <<arrived, outbox>>
      BY <2>1, <3>2 DEF SentInOrder, Sent, Elements
    <3> QED
      BY <1>4, <3>1, <3>2
  <2>4. Running' = Running /\ \A u \in RetryThreads : Busy(u)' <=> Busy(u)
    BY <1>1 DEF Running, Busy
  <2>5. CASE kind = "direct"
    <3>1. waiting' = waiting /\ waiting = <<>> /\ Running = {}
      BY <1>1, <2>1, <2>5 DEF PublishDirect, EnqueueOffer, Alone
    <3>2. Alone'
      BY <1>1, <2>1, <2>4, <3>1 DEF Alone
    <3>3. Len(waiting') = 0 /\ \A u \in RetryThreads : ~Busy(u)'
      <4>1. \A u \in RetryThreads : ~Busy(u)
        BY <3>1 DEF Running, Busy
      <4> QED
        BY <2>4, <3>1, <4>1
    <3>4. \A x \in Sent' : x <= offered'
      BY <1>1, <2>2, <2>3
    <3>5. \A i \in 1..Len(waiting') : FALSE
      BY <3>3
    <3> QED
      BY <2>3, <3>2, <3>3, <3>4, <3>5 DEF Behind
  <2>6. CASE EnqueueOffer(q)
    <3>1. Sent' = Sent
      BY <2>6 DEF EnqueueOffer, pahoVars, Sent, Elements
    <3>2. Alone'
      BY <1>1, <2>1, <2>4, <2>6 DEF Alone, EnqueueOffer
    <3>3. CASE waiting' = waiting
      <4>1. \A x \in Sent' : /\ x <= offered'
                             /\ \A u \in RetryThreads : Busy(u)' => x <= retryItem'[u].payload
                             /\ \A i \in 1..Len(waiting') : x < waiting'[i].payload
        <5>1. \A x \in Sent : /\ \A u \in RetryThreads : Busy(u) => x <= retryItem[u].payload
                              /\ \A i \in 1..Len(waiting) : x < waiting[i].payload
          BY <2>1 DEF Behind
        <5> QED
          BY <1>1, <2>2, <2>4, <3>1, <3>3, <5>1
      <4>2. \A i \in 1..Len(waiting') :
             /\ \A u \in RetryThreads : Busy(u)' => retryItem'[u].payload < waiting'[i].payload
             /\ \A j \in 1..Len(waiting') : i < j => waiting'[i].payload < waiting'[j].payload
        BY <1>1, <2>1, <2>4, <3>3 DEF Behind
      <4> QED
        BY <2>3, <3>2, <4>1, <4>2 DEF Behind
    <3>4. CASE waiting' = Append(waiting, [payload |-> q, attempt |-> 0])
      <4> DEFINE n == Len(waiting)
      <4>1. [payload |-> q, attempt |-> 0] \in Items
        BY <1>3 DEF Items
      <4>2. /\ n \in Nat /\ Len(waiting') = n + 1
            /\ \A i \in 1..n : waiting'[i] = waiting[i] /\ i \in 1..Len(waiting')
            /\ waiting'[n + 1].payload = q
            /\ \A i \in 1..Len(waiting') : i \in 1..n \/ i = n + 1
        BY <1>1, <3>4, <4>1, AppendIs DEF PublishTypes
      <4>3. \A i \in 1..n : waiting[i].payload \in Int /\ waiting[i].payload < q
        <5>1. \A i \in 1..n : waiting[i].payload \in Offers /\ waiting[i].payload <= offered
          BY <1>1, QueueItem DEF Placed
        <5> QED
          BY <1>1, <1>q, <5>1, PublishAssumption DEF Offers
      <4>4. \A u \in RetryThreads : Busy(u) => retryItem[u].payload < q
        <5>1. \A u \in RetryThreads : Busy(u) =>
                 retryItem[u].payload \in Offers /\ retryItem[u].payload <= offered
          BY <1>1, BusyItem DEF Placed, Items
        <5> QED
          BY <1>1, <1>q, <5>1, PublishAssumption DEF Offers
      <4>5. \A x \in Sent : x < q
        BY <1>q, <1>1, <2>2
      <4>6. /\ \A x \in Sent :
                  /\ \A u \in RetryThreads : Busy(u) => x <= retryItem[u].payload
                  /\ \A i \in 1..n : x < waiting[i].payload
            /\ \A i \in 1..n :
                  /\ \A u \in RetryThreads : Busy(u) => retryItem[u].payload < waiting[i].payload
                  /\ \A j \in 1..n : i < j => waiting[i].payload < waiting[j].payload
        BY <2>1 DEF Behind
      <4> HIDE DEF n
      <4>7. \A x \in Sent' : /\ x <= offered'
                             /\ \A u \in RetryThreads : Busy(u)' => x <= retryItem'[u].payload
                             /\ \A i \in 1..Len(waiting') : x < waiting'[i].payload
        <5>1. \A x \in Sent, i \in 1..Len(waiting') : x < waiting'[i].payload
          BY <4>2, <4>5, <4>6
        <5> QED
          BY <1>1, <2>2, <2>4, <3>1, <4>6, <5>1
      <4>8. \A i \in 1..Len(waiting') :
             /\ \A u \in RetryThreads : Busy(u)' => retryItem'[u].payload < waiting'[i].payload
             /\ \A j \in 1..Len(waiting') : i < j => waiting'[i].payload < waiting'[j].payload
        BY <1>1, <2>4, <4>2, <4>3, <4>4, <4>6
      <4> QED
        BY <2>3, <3>2, <4>7, <4>8 DEF Behind
    <3> QED
      BY <2>6, <3>3, <3>4 DEF EnqueueOffer
  <2> QED
    BY <1>1, <2>5, <2>6 DEF PublishDirect
<1>8. Ordered'
  BY <1>1, <1>7 DEF Ordered
<1> QED
  BY <1>2, <1>6, <1>8 DEF PInv

(* A step that moves no payload. *)
LEMMA QuietStep ==
  ASSUME PInv, UNCHANGED <<kind, offered, waiting, retryItem, outcome, overtaken>>,
         arrived' \in Seq(Offers), outbox' \in Seq(Offers),
         retryAt' \in [RetryThreads -> {"unused", "check", "getting", "busy", "ended"}],
         \A t \in RetryThreads : Busy(t)' <=> Busy(t),
         Running' \subseteq Running,
         SentInOrder => SentInOrder' /\ Sent' \subseteq Sent
  PROVE  PInv'
<1>1. PublishTypes /\ Handed /\ Placed /\ Ordered
  BY DEF PInv
<1>2. PublishTypes'
  BY <1>1 DEF PublishTypes
<1>3. Handed'
  <2>1. \A t \in RetryThreads : Busy(t)' <=> retryItem'[t] # NoItem
    BY <1>1 DEF Handed
  <2> QED
    BY <2>1 DEF Handed, NoItem
<1>4. Placed'
  BY <1>1, PlacedStays
<1>5. Ordered'
  BY <1>1, <1>2, OrderedStays DEF PublishTypes
<1> QED
  BY <1>2, <1>3, <1>4, <1>5 DEF PInv

(* start(): the new thread is alone, or it overtakes. *)
LEMMA StartStep ==
  ASSUME PInv, StartRetry
  PROVE  PInv'
<1>1. PICK t \in RetryThreads :
         retryAt[t] = "unused" /\ retryAt' = [retryAt EXCEPT ![t] = "check"]
  BY DEF StartRetry
<1>2. /\ PublishTypes /\ Handed /\ Placed /\ Ordered
      /\ UNCHANGED <<kind, offered, waiting, retryItem, outcome, arrived, outbox>>
      /\ overtaken' = (overtaken \/ Running # {}) /\ kind # "direct"
  BY DEF PInv, StartRetry, pahoVars
<1>3. PublishTypes'
  BY <1>1, <1>2 DEF PublishTypes
<1>4. \A u \in RetryThreads : Busy(u)' <=> Busy(u)
  BY <1>1, <1>2 DEF Busy, PublishTypes
<1>5. Handed'
  <2>1. \A u \in RetryThreads : Busy(u)' <=> retryItem'[u] # NoItem
    BY <1>2, <1>4 DEF Handed
  <2> QED
    BY <2>1 DEF Handed, NoItem
<1>6. Placed'
  BY <1>2, <1>4, PlacedStays
<1>7. ASSUME kind # "legacy", ~overtaken'
      PROVE  SentInOrder' /\ Behind' /\ Alone'
  <2>1. SentInOrder /\ Behind /\ Alone /\ Running = {}
    BY <1>2, <1>7 DEF Ordered
  <2>2. Sent' = Sent /\ SentInOrder'
    BY <1>2, <2>1 DEF Sent, Elements, SentInOrder
  <2>3. Behind'
    BY <1>2, <1>4, <2>1, <2>2, BehindStays
  <2>4. Running' \subseteq {t}
    BY <1>1, <1>2, <2>1 DEF Running, PublishTypes
  <2>5. Alone'
    BY <1>2, <2>4 DEF Alone
  <2> QED
    BY <2>2, <2>3, <2>5
<1>8. Ordered'
  BY <1>2, <1>7 DEF Ordered
<1> QED
  BY <1>3, <1>5, <1>6, <1>8 DEF PInv

LEMMA PublishInitially == PublishInit => PInv
<1> SUFFICES ASSUME PublishInit PROVE PInv
  OBVIOUS
<1>1. PublishTypes
  <2>0. waiting = <<>> /\ arrived = <<>> /\ outbox = <<>> /\ offered = 0 /\ overtaken = FALSE
        /\ kind \in {"direct", "async", "legacy"} /\ MaxOffers \in Nat
    BY PublishAssumption DEF PublishInit
  <2>1. /\ waiting \in Seq(Items) /\ arrived \in Seq(Offers) /\ outbox \in Seq(Offers)
        /\ offered \in 0..MaxOffers
    BY <2>0
  <2>2. /\ retryAt \in [RetryThreads -> {"unused", "check", "getting", "busy", "ended"}]
        /\ outcome \in [Offers -> {"none", "refused", "published", "lost", "dropped"}]
    BY DEF PublishInit
  <2>3. retryItem \in [RetryThreads -> Items \union {NoItem}]
    BY DEF PublishInit
  <2> QED
    BY <2>0, <2>1, <2>2, <2>3 DEF PublishTypes
<1>2. Handed /\ \A t \in RetryThreads : ~Busy(t)
  BY DEF PublishInit, Handed, Busy
<1>3. offered = 0 /\ Len(waiting) = 0 /\ \A p \in Offers : outcome[p] = "none"
  BY DEF PublishInit
<1>4. Placed
  BY <1>2, <1>3 DEF Placed
<1>5. Sent = {} /\ SentInOrder /\ Running = {} /\ waiting = <<>>
  BY DEF PublishInit, Sent, Elements, SentInOrder, Running
<1>6. Ordered
  BY <1>2, <1>3, <1>5 DEF Ordered, Behind, Alone
<1> QED
  BY <1>1, <1>2, <1>4, <1>6 DEF PInv

LEMMA PublishStep == PInv /\ [PublishNext]_publishVars => PInv'
<1> SUFFICES ASSUME PInv, [PublishNext]_publishVars PROVE PInv'
  OBVIOUS
<1>0. PublishTypes
  BY DEF PInv
<1>1. ASSUME UNCHANGED <<kind, offered, waiting, retryItem, outcome, overtaken, retryAt>>,
             UNCHANGED <<arrived, outbox>>
      PROVE  PInv'
  BY <1>0, <1>1, QuietStep DEF Sent, SentInOrder, Elements, Busy, Running, PublishTypes
<1>2. CASE UNCHANGED publishVars
  BY <1>1, <1>2 DEF publishVars
<1>3. CASE Connect \/ ConnectionLost \/ Reconnect \/ StopRetry \/ StopReturns
  BY <1>1, <1>3 DEF Connect, ConnectionLost, Reconnect, StopRetry, StopReturns,
                    threadVars, pahoVars
<1>4. CASE CloseClient
  <2>1. /\ UNCHANGED <<kind, offered, waiting, retryItem, outcome, overtaken, retryAt, arrived>>
        /\ outbox' = <<>>
    BY <1>4 DEF CloseClient, threadVars
  <2>2. SentInOrder => SentInOrder' /\ Sent' \subseteq Sent
    BY <2>1 DEF SentInOrder, Sent, Elements
  <2> QED
    BY <1>0, <2>1, <2>2, QuietStep DEF Busy, Running, PublishTypes
<1>5. CASE Resend
  <2>1. UNCHANGED <<kind, offered, waiting, retryItem, outcome, overtaken, retryAt>>
    BY <1>5 DEF Resend, threadVars
  <2>2. arrived' \in Seq(Offers) /\ outbox' \in Seq(Offers)
    <3>1. outbox \in Seq(Offers) /\ outbox # <<>> /\ arrived \in Seq(Offers)
      BY <1>0, <1>5 DEF Resend, PublishTypes
    <3>2. Head(outbox) \in Offers /\ Tail(outbox) \in Seq(Offers)
      BY <3>1, TailIs
    <3> QED
      BY <1>5, <3>1, <3>2, ArriveIs DEF Resend
  <2>3. SentInOrder => SentInOrder' /\ Sent' \subseteq Sent
    BY <1>0, <1>5, ResendInOrder
  <2> QED
    BY <1>0, <2>1, <2>2, <2>3, QuietStep DEF Busy, Running, PublishTypes
<1>6. ASSUME NEW t \in RetryThreads, RetryChecks(t)
      PROVE  PInv'
  <2>1. /\ UNCHANGED <<kind, offered, waiting, retryItem, outcome, overtaken, arrived, outbox>>
        /\ retryAt[t] = "check"
        /\ retryAt' \in {[retryAt EXCEPT ![t] = "ended"], [retryAt EXCEPT ![t] = "getting"]}
    BY <1>6 DEF RetryChecks, pahoVars
  <2>2. retryAt' \in [RetryThreads -> {"unused", "check", "getting", "busy", "ended"}]
    BY <1>0, <2>1 DEF PublishTypes
  <2>3. \A u \in RetryThreads : Busy(u)' <=> Busy(u)
    BY <1>0, <2>1 DEF Busy, PublishTypes
  <2>4. Running' \subseteq Running
    <3>1. \A u \in RetryThreads : u # t => retryAt'[u] = retryAt[u]
      BY <1>0, <2>1 DEF PublishTypes
    <3>2. t \in Running
      BY <2>1 DEF Running
    <3> QED
      BY <3>1, <3>2 DEF Running
  <2>5. SentInOrder => SentInOrder' /\ Sent' \subseteq Sent
    <3>1. arrived' = arrived /\ outbox' = outbox
      BY <2>1
    <3> QED
      BY <3>1 DEF SentInOrder, Sent, Elements
  <2> QED
    BY <1>0, <2>1, <2>2, <2>3, <2>4, <2>5, QuietStep DEF PublishTypes
<1>7. ASSUME NEW t \in RetryThreads, RetryLoop(t)
      PROVE  PInv'
  BY <1>6, <1>7, GetsStep, AttemptStep DEF RetryLoop, Attempts
<1> QED
  BY <1>2, <1>3, <1>4, <1>5, <1>7, OfferStep, StartStep DEF PublishNext

(* Of the inductive invariant: a payload's place is unique. *)
LEMMA OnePlace ==
  ASSUME PublishTypes, Handed, Placed, NEW p \in 1..offered
  PROVE  \E x : PayloadPlaces(p) = {x}
<1>1. p \in Offers /\ p # 0
  BY PublishAssumption DEF PublishTypes, Offers
<1>2. \A t \in RetryThreads : retryItem[t].payload = p => Busy(t)
  BY <1>1, BusyItem DEF NoItem
<1>3. DOMAIN waiting = 1..Len(waiting)
  BY DEF PublishTypes
<1>4. CASE outcome[p] # "none"
  <2>1. /\ \A i \in 1..Len(waiting) : waiting[i].payload # p
        /\ \A t \in RetryThreads : retryItem[t].payload # p
    BY <1>2, <1>4 DEF Placed
  <2> QED
    BY <1>3, <1>4, <2>1 DEF PayloadPlaces
<1>5. CASE outcome[p] = "none" /\ Queued(p)
  <2>1. PICK i \in 1..Len(waiting) : waiting[i].payload = p
    BY <1>5 DEF Queued
  <2>2. /\ \A j \in 1..Len(waiting) : waiting[j].payload = p => j = i
        /\ \A t \in RetryThreads : retryItem[t].payload # p
    BY <1>2, <2>1 DEF Placed
  <2>3. PayloadPlaces(p) = {<<"queue", i>>}
    BY <1>3, <1>5, <2>1, <2>2 DEF PayloadPlaces
  <2> QED
    BY <2>3
<1>6. ASSUME outcome[p] = "none", NEW t \in RetryThreads, Busy(t), retryItem[t].payload = p
      PROVE  \E x : PayloadPlaces(p) = {x}
  <2>1. /\ \A i \in 1..Len(waiting) : waiting[i].payload # p
        /\ \A u \in RetryThreads : retryItem[u].payload = p => u = t
    BY <1>2, <1>6 DEF Placed
  <2>2. PayloadPlaces(p) = {<<"hand", t>>}
    BY <1>3, <1>6, <2>1 DEF PayloadPlaces
  <2> QED
    BY <2>2
<1> QED
  BY <1>4, <1>5, <1>6 DEF Placed

THEOREM PublisherInvariant == PublishSpec => []PInv
<1>1. PublishInit => PInv
  BY PublishInitially
<1>2. PInv /\ [PublishNext]_publishVars => PInv'
  BY PublishStep
<1> QED
  BY <1>1, <1>2, PTL DEF PublishSpec

(* Whatever threads are started, stopped or outlive their stop(), each payload
   offered is in the queue, in one thread's hand, or its fate is known. *)
THEOREM PayloadsInOnePlace == PublishSpec => []PayloadsAccounted
<1>1. PInv => PayloadsAccounted
  BY OnePlace, FS_Singleton DEF PInv, PayloadsAccounted
<1> QED
  BY <1>1, PublisherInvariant, PTL

(* Unless a start() overtakes a thread that has not seen its stop(), payloads
   of the direct and the asynchronous publisher arrive in their order. *)
THEOREM PublishersKeepOrder == PublishSpec => []ArrivalsInOrder
<1>1. PInv => ArrivalsInOrder
  <2>1. SUFFICES ASSUME PInv, kind # "legacy", ~overtaken
                 PROVE  \A i, j \in DOMAIN arrived : i < j => arrived[i] < arrived[j]
    BY DEF ArrivalsInOrder
  <2>2. \A i, j \in 1..Len(arrived) : i < j => arrived[i] < arrived[j]
    BY <2>1 DEF PInv, Ordered, SentInOrder
  <2>3. DOMAIN arrived = 1..Len(arrived)
    BY <2>1 DEF PInv, PublishTypes
  <2> QED
    BY ONLY <2>2, <2>3
<1> QED
  BY <1>1, PublisherInvariant, PTL
=============================================================================
