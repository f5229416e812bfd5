---------------------- MODULE DetectionConsumer_proofs ----------------------
(***************************************************************************)
(* Theorems about DetectionConsumer for all detections, every capacity of  *)
(* the queue, every batch size and any number of faults.                   *)
(*                                                                         *)
(* The first three properties rest on each other: the id acknowledged      *)
(* after an event is the event's own only while the two lists are in step, *)
(* and the heads of both lists exist only because the thread is never      *)
(* draining an empty queue.                                                *)
(*                                                                         *)
(* That repeats are faults is a matter of counting: Ledger charges every   *)
(* way to a second collection to a fault, and the Budget lemmas say how    *)
(* the account changes when a message is published, moved, swept,          *)
(* acknowledged or put back.                                               *)
(***************************************************************************)
EXTENDS DetectionConsumer, FiniteSetTheorems, TLAPS

(* The thread is inside _drain only while there is something to drain. *)
DrainsSomething == draining => queue # <<>>

DInv == TypeOK /\ InStep /\ DrainsSomething /\ NoSilentLoss

USE DetectionsAssumption, CapacityAssumption
-----------------------------------------------------------------------------
(* An appended sequence holds the old elements and the new one. *)
LEMMA AppendElements ==
    ASSUME NEW S, NEW s \in Seq(S), NEW e \in S
    PROVE  /\ Append(s, e) \in Seq(S)
           /\ Len(Append(s, e)) = Len(s) + 1
           /\ Append(s, e) # <<>>
           /\ Elements(s) \subseteq Elements(Append(s, e))
           /\ e \in Elements(Append(s, e))
<1>1. /\ Append(s, e) \in Seq(S)
      /\ Len(Append(s, e)) = Len(s) + 1
      /\ \A i \in 1..Len(s) : Append(s, e)[i] = s[i]
      /\ Append(s, e)[Len(s) + 1] = e
  OBVIOUS
<1>2. Append(s, e) # <<>>
  BY <1>1
<1>3. Elements(s) \subseteq Elements(Append(s, e))
  BY <1>1 DEF Elements
<1>4. e \in Elements(Append(s, e))
  BY <1>1 DEF Elements
<1> QED
  BY <1>1, <1>2, <1>3, <1>4

(* Head and tail of a sequence that is not empty. *)
LEMMA HeadTail ==
    ASSUME NEW S, NEW s \in Seq(S), s # <<>>
    PROVE  /\ Head(s) \in S /\ Tail(s) \in Seq(S)
           /\ Len(Tail(s)) = Len(s) - 1
  OBVIOUS

(* A prefix and what follows it hold together what the sequence holds. *)
LEMMA SplitElements ==
    ASSUME NEW S, NEW s \in Seq(S), NEW n \in 0..Len(s)
    PROVE  /\ SubSeq(s, 1, n) \in Seq(S) /\ Len(SubSeq(s, 1, n)) = n
           /\ SubSeq(s, n + 1, Len(s)) \in Seq(S)
           /\ Elements(s) \subseteq Elements(SubSeq(s, 1, n))
                                      \union Elements(SubSeq(s, n + 1, Len(s)))
           /\ Elements(SubSeq(s, 1, n)) \subseteq S
<1> DEFINE p == SubSeq(s, 1, n)
           r == SubSeq(s, n + 1, Len(s))
<1>1. /\ p \in Seq(S) /\ Len(p) = n
      /\ \A i \in 1..n : p[i] = s[i]
  OBVIOUS
<1>2. /\ r \in Seq(S) /\ Len(r) = Len(s) - n
      /\ \A i \in 1..(Len(s) - n) : r[i] = s[n + i]
  OBVIOUS
<1>3. Elements(p) \subseteq S
  BY <1>1 DEF Elements
<1>4. ASSUME NEW e \in Elements(s) PROVE e \in Elements(p) \union Elements(r)
  <2>1. PICK i \in 1..Len(s) : s[i] = e
    BY <1>4 DEF Elements
  <2>2. CASE i <= n
    BY <1>1, <2>1, <2>2 DEF Elements
  <2>3. CASE i > n
    <3>1. i - n \in 1..Len(r) /\ r[i - n] = e
      BY <1>2, <2>1, <2>3
    <3> QED
      BY <3>1 DEF Elements
  <2> QED
    BY <2>2, <2>3
<1> QED
  BY <1>1, <1>2, <1>3, <1>4

LEMMA InitDInv == Init => DInv
<1> SUFFICES ASSUME Init PROVE DInv
  OBVIOUS
<1>1. <<>> \in Seq(Messages) /\ Len(<<>>) = 0
  OBVIOUS
<1>2. TypeOK
  <2>1. /\ stream \in Seq(Messages) /\ batch \in Seq(Messages) /\ Len(batch) <= Count
        /\ queue \in Seq(Messages) /\ Len(queue) <= QueueSize
        /\ pending_ids \in Seq(Messages)
    BY <1>1 DEF Init
  <2>2. /\ pel \in SUBSET Messages /\ owed \in SUBSET Detections
        /\ repeats \in Nat /\ faults \in 0..MaxFaults
    BY DEF Init
  <2>3. draining \in BOOLEAN
    BY DEF Init
  <2> QED
    BY <2>1, <2>2, <2>3 DEF TypeOK
<1>3. InStep /\ DrainsSomething
  BY DEF Init, InStep, DrainsSomething
<1>4. NoSilentLoss
  BY DEF Init, NoSilentLoss
<1> QED
  BY <1>2, <1>3, <1>4 DEF DInv

(* What Ack leaves of the pending list. *)
LEMMA AckFacts ==
    ASSUME TypeOK, NEW m, Ack(m)
    PROVE  /\ pel' \in SUBSET Messages /\ faults' \in 0..MaxFaults
           /\ pel \ {m} \subseteq pel'
  BY DEF Ack, Fault, TypeOK
-----------------------------------------------------------------------------
LEMMA PublishDInv ==
    ASSUME DInv, NEW d \in Detections, Publish(d)
    PROVE  DInv'
<1>1. <<d, 1>> \in Messages
  BY DEF Messages
<1>2. /\ stream' \in Seq(Messages) /\ Elements(stream) \subseteq Elements(stream')
      /\ <<d, 1>> \in Elements(stream')
  BY <1>1, AppendElements DEF Publish, DInv, TypeOK
<1>3. TypeOK'
  BY <1>2 DEF Publish, DInv, TypeOK
<1>4. InStep' /\ DrainsSomething'
  BY DEF Publish, DInv, InStep, DrainsSomething
<1>5. NoSilentLoss'
  <2> SUFFICES ASSUME NEW e \in owed'
               PROVE  \E m \in pel' \union Elements(stream') : m[1] = e
    BY DEF NoSilentLoss
  <2>1. CASE e \in owed
    BY <2>1, <1>2 DEF Publish, DInv, NoSilentLoss
  <2>2. CASE e = d
    BY <2>2, <1>2
  <2> QED
    BY <2>1, <2>2 DEF Publish
<1> QED
  BY <1>3, <1>4, <1>5 DEF DInv

LEMMA ConsumeDInv ==
    ASSUME DInv, Consume
    PROVE  DInv'
<1> DEFINE n == IF Len(stream) < Count THEN Len(stream) ELSE Count
<1>1. n \in 0..Len(stream) /\ n <= Count /\ stream \in Seq(Messages)
  BY DEF DInv, TypeOK
<1>2. batch' = SubSeq(stream, 1, n) /\ stream' = SubSeq(stream, n + 1, Len(stream))
  BY DEF Consume
<1> HIDE DEF n
<1>3. /\ batch' \in Seq(Messages) /\ Len(batch') = n
      /\ stream' \in Seq(Messages)
      /\ Elements(stream) \subseteq Elements(batch') \union Elements(stream')
      /\ Elements(batch') \subseteq Messages
  BY <1>1, <1>2, SplitElements
<1>4. TypeOK'
  BY <1>1, <1>3 DEF Consume, DInv, TypeOK
<1>5. InStep' /\ DrainsSomething'
  BY DEF Consume, DInv, InStep, DrainsSomething
<1>6. NoSilentLoss'
  BY <1>3 DEF Consume, DInv, NoSilentLoss
<1> QED
  BY <1>4, <1>5, <1>6 DEF DInv

LEMMA DiscardDInv ==
    ASSUME DInv, Discard
    PROVE  DInv'
<1>1. /\ pel' \in SUBSET Messages /\ faults' \in 0..MaxFaults
      /\ pel \ {Head(batch)} \subseteq pel'
  BY AckFacts DEF Discard, DInv
<1>2. Tail(batch) \in Seq(Messages) /\ Len(Tail(batch)) <= Count
  <2>1. Len(Tail(batch)) = Len(batch) - 1 /\ Tail(batch) \in Seq(Messages)
    BY HeadTail DEF Discard, DInv, TypeOK
  <2> QED
    BY <2>1 DEF DInv, TypeOK
<1>3. TypeOK'
  BY <1>1, <1>2 DEF Discard, DInv, TypeOK
<1>4. InStep' /\ DrainsSomething'
  BY DEF Discard, DInv, InStep, DrainsSomething
<1>5. NoSilentLoss'
  BY <1>1 DEF Discard, DInv, NoSilentLoss
<1> QED
  BY <1>3, <1>4, <1>5 DEF DInv

LEMMA EnqueueDInv ==
    ASSUME DInv, Enqueue
    PROVE  DInv'
<1>1. /\ Head(batch) \in Messages /\ Tail(batch) \in Seq(Messages)
      /\ Len(Tail(batch)) = Len(batch) - 1
  BY HeadTail DEF Enqueue, DInv, TypeOK
<1>2. /\ queue' \in Seq(Messages) /\ Len(queue') = Len(queue) + 1 /\ queue' # <<>>
      /\ pending_ids' = queue'
  BY <1>1, AppendElements DEF Enqueue, DInv, TypeOK, InStep
<1>3. Len(queue') <= QueueSize
  BY <1>2 DEF Enqueue, DInv, TypeOK
<1>4. TypeOK'
  BY <1>1, <1>2, <1>3 DEF Enqueue, DInv, TypeOK
<1>5. InStep' /\ DrainsSomething'
  BY <1>2 DEF InStep, DrainsSomething
<1>6. NoSilentLoss'
  BY DEF Enqueue, DInv, NoSilentLoss
<1> QED
  BY <1>4, <1>5, <1>6 DEF DInv

LEMMA DrainEventDInv ==
    ASSUME DInv, DrainEvent
    PROVE  DInv'
<1>1. /\ queue # <<>> /\ queue \in Seq(Messages) /\ pending_ids = queue
      /\ Head(queue) \in Messages /\ Tail(queue) \in Seq(Messages)
      /\ Len(Tail(queue)) = Len(queue) - 1
  BY HeadTail DEF DrainEvent, DInv, TypeOK, InStep, DrainsSomething
<1>2. /\ pel' \in SUBSET Messages /\ faults' \in 0..MaxFaults
      /\ pel \ {Head(queue)} \subseteq pel'
  BY <1>1, AckFacts DEF DrainEvent, DInv
<1>3. queue' = Tail(queue) /\ pending_ids' = queue'
  BY <1>1 DEF DrainEvent
<1>4. TypeOK'
  <2>1. Len(queue') <= QueueSize
    BY <1>1, <1>3 DEF DInv, TypeOK
  <2>2. draining' \in BOOLEAN /\ repeats' \in Nat /\ owed' \in SUBSET Detections
    BY DEF DrainEvent, DInv, TypeOK
  <2> QED
    BY <1>1, <1>2, <1>3, <2>1, <2>2 DEF DrainEvent, DInv, TypeOK
<1>5. InStep' /\ DrainsSomething'
  BY <1>3 DEF DrainEvent, InStep, DrainsSomething
<1>6. NoSilentLoss'
  <2> SUFFICES ASSUME NEW d \in owed'
               PROVE  \E m \in pel' \union Elements(stream') : m[1] = d
    BY DEF NoSilentLoss
  <2>1. d \in owed /\ d # Head(queue)[1] /\ stream' = stream
    BY DEF DrainEvent
  <2>2. PICK m \in pel \union Elements(stream) : m[1] = d
    BY <2>1 DEF DInv, NoSilentLoss
  <2>3. m # Head(queue)
    BY <2>1, <2>2
  <2> QED
    BY <1>2, <2>1, <2>2, <2>3
<1> QED
  BY <1>4, <1>5, <1>6 DEF DInv

LEMMA SweepDInv ==
    ASSUME DInv, NEW m \in Messages, Sweep(m)
    PROVE  DInv'
<1>1. PICK c \in 1..Copies : stream' = Append(stream, <<m[1], c>>)
  BY DEF Sweep
<1>2. <<m[1], c>> \in Messages
  BY DEF Messages
<1>3. /\ stream' \in Seq(Messages) /\ Elements(stream) \subseteq Elements(stream')
      /\ <<m[1], c>> \in Elements(stream')
  BY <1>1, <1>2, AppendElements DEF DInv, TypeOK
<1>4. TypeOK'
  BY <1>3 DEF Sweep, Fault, DInv, TypeOK
<1>5. InStep' /\ DrainsSomething'
  BY DEF Sweep, DInv, InStep, DrainsSomething
<1>6. NoSilentLoss'
  <2> SUFFICES ASSUME NEW d \in owed'
               PROVE  \E k \in pel' \union Elements(stream') : k[1] = d
    BY DEF NoSilentLoss
  <2>1. PICK k \in pel \union Elements(stream) : k[1] = d
    BY DEF Sweep, DInv, NoSilentLoss
  <2>2. CASE k = m
    <3>1. <<m[1], c>>[1] = d
      BY <2>1, <2>2
    <3> QED
      BY <1>3, <3>1
  <2>3. CASE k # m
    BY <1>3, <2>1, <2>3 DEF Sweep
  <2> QED
    BY <2>2, <2>3
<1> QED
  BY <1>4, <1>5, <1>6 DEF DInv

(* A refused event and a restart lose nothing that is acknowledged. *)
LEMMA FailureDInv ==
    ASSUME DInv, DrainFails \/ Restart
    PROVE  DInv'
<1>1. <<>> \in Seq(Messages) /\ Len(<<>>) = 0
  OBVIOUS
<1>2. faults' \in 0..MaxFaults
  BY DEF DrainFails, Restart, Fault, DInv, TypeOK
<1>3. TypeOK'
  <2>1. CASE DrainFails
    BY <1>2, <2>1 DEF DrainFails, DInv, TypeOK
  <2>2. CASE Restart
    <3>1. /\ batch' \in Seq(Messages) /\ Len(batch') <= Count
          /\ queue' \in Seq(Messages) /\ Len(queue') <= QueueSize
          /\ pending_ids' \in Seq(Messages)
      BY <1>1, <2>2 DEF Restart
    <3>2. draining' \in BOOLEAN
      BY <2>2 DEF Restart
    <3> QED
      BY <1>2, <2>2, <3>1, <3>2 DEF Restart, DInv, TypeOK
  <2> QED
    BY <2>1, <2>2
<1>4. InStep' /\ DrainsSomething'
  BY DEF DrainFails, Restart, DInv, InStep, DrainsSomething
<1>5. NoSilentLoss'
  BY DEF DrainFails, Restart, DInv, NoSilentLoss
<1> QED
  BY <1>3, <1>4, <1>5 DEF DInv

LEMMA StutterDInv ==
    ASSUME DInv, UNCHANGED vars
    PROVE  DInv'
  BY DEF vars, DInv, TypeOK, InStep, DrainsSomething, NoSilentLoss

LEMMA NextDInv == DInv /\ [Next]_vars => DInv'
<1> SUFFICES ASSUME DInv, [Next]_vars PROVE DInv'
  OBVIOUS
<1> QED
  BY PublishDInv, ConsumeDInv, DiscardDInv, EnqueueDInv, DrainEventDInv,
     SweepDInv, FailureDInv, StutterDInv DEF Next, Thread

LEMMA DetectionInvariance == Spec => []DInv
  BY InitDInv, NextDInv, PTL DEF Spec
-----------------------------------------------------------------------------
(* Every variable keeps its type; in particular the queue never exceeds its
   capacity and the heads that _drain takes exist. *)
THEOREM DetectionTypeCorrect == Spec => []TypeOK
<1>1. DInv => TypeOK
  BY DEF DInv
<1> QED
  BY <1>1, DetectionInvariance, PTL

(* The queue and the list of ids stay aligned through every failure. *)
THEOREM QueueInStep == Spec => []InStep
<1>1. DInv => InStep
  BY DEF DInv
<1> QED
  BY <1>1, DetectionInvariance, PTL

(* A detection that is neither collected nor dropped is in the stream or
   pending, so neither a restart nor a failed call makes it vanish. *)
THEOREM NothingSilentlyLost == Spec => []NoSilentLoss
<1>1. DInv => NoSilentLoss
  BY DEF DInv
<1> QED
  BY <1>1, DetectionInvariance, PTL

-----------------------------------------------------------------------------
(* Why no detection is collected twice for free.  A chance is what can still
   bring a detection to the collector: a message in the stream or pending, or
   an event on its way through the thread, unless the event's message is
   pending and the thread has it in hand, so that the two end together.  At
   most one chance of a detection is free, and only while the detection is
   owed; every other chance, like every repeat, stands for a fault. *)
InHand(m) ==
    m \in Elements(batch) \/ (draining /\ queue # <<>> /\ m = queue[Len(queue)])

Walking == {m \in Elements(batch) \union Elements(queue) : ~(m \in pel /\ InHand(m))}

Chances == ({"stored"} \X (pel \union Elements(stream))) \union ({"walking"} \X Walking)

Reported(x) == x[2][1]

Covers(X, T, O) ==
    \A x \in T \ X :
        \/ Reported(x) \in Invalid
        \/ /\ Reported(x) \in O
           /\ \A y \in T \ X : Reported(y) = Reported(x) => y = x

Budget(T, O, k) ==
    \E X \in SUBSET ({"stored", "walking"} \X Messages) :
        IsFiniteSet(X) /\ Cardinality(X) <= k /\ Covers(X, T, O)

Ledger == Budget(Chances, owed, faults - repeats)

(* No message is in two places, and what is queued has been parsed. *)
Distinct(s) == \A i, j \in 1..Len(s) : s[i] = s[j] => i = j
Parted ==
    /\ Distinct(stream) /\ Distinct(batch) /\ Distinct(queue)
    /\ Elements(stream) \intersect (pel \union Elements(batch) \union Elements(queue)) = {}
    /\ Elements(batch) \intersect Elements(queue) = {}
    /\ \A m \in Elements(queue) : m[1] \notin Invalid

LEMMA CardinalityAdd ==
    ASSUME NEW S, IsFiniteSet(S), NEW x
    PROVE  /\ IsFiniteSet(S \union {x})
           /\ Cardinality(S) \in Nat /\ Cardinality(S \union {x}) \in Nat
           /\ Cardinality(S \union {x}) <= Cardinality(S) + 1
<1>1. /\ IsFiniteSet(S \union {x})
      /\ Cardinality(S \union {x}) = IF x \in S THEN Cardinality(S) ELSE Cardinality(S) + 1
  BY FS_AddElement
<1>2. Cardinality(S) \in Nat /\ Cardinality(S \union {x}) \in Nat
  BY <1>1, FS_CardinalityType
<1> QED
  BY <1>1, <1>2

(* The rules of the budget: chances may go, ... *)
LEMMA BudgetLess ==
    ASSUME NEW T, NEW O, NEW k \in Int, Budget(T, O, k),
           NEW T2, T2 \subseteq T, NEW k2 \in Int, k2 >= k
    PROVE  Budget(T2, O, k2)
<1>1. PICK X \in SUBSET ({"stored", "walking"} \X Messages) :
         IsFiniteSet(X) /\ Cardinality(X) <= k /\ Covers(X, T, O)
  BY DEF Budget
<1>2. Cardinality(X) \in Nat
  BY <1>1, FS_CardinalityType
<1>3. Cardinality(X) <= k2
  BY <1>1, <1>2
<1>4. Covers(X, T2, O)
  BY <1>1 DEF Covers
<1> QED
  BY <1>1, <1>3, <1>4 DEF Budget

(* ... a fault pays for one chance more, ... *)
LEMMA BudgetPaid ==
    ASSUME NEW T, NEW O, NEW k \in Int, Budget(T, O, k),
           NEW x \in {"stored", "walking"} \X Messages, NEW T2, T2 \subseteq T \union {x}
    PROVE  Budget(T2, O, k + 1)
<1>1. PICK X \in SUBSET ({"stored", "walking"} \X Messages) :
         IsFiniteSet(X) /\ Cardinality(X) <= k /\ Covers(X, T, O)
  BY DEF Budget
<1>2. /\ IsFiniteSet(X \union {x}) /\ Cardinality(X \union {x}) <= Cardinality(X) + 1
      /\ Cardinality(X) \in Nat /\ Cardinality(X \union {x}) \in Nat
  BY <1>1, CardinalityAdd
<1>3. Cardinality(X \union {x}) <= k + 1
  BY <1>1, <1>2
<1>4. Covers(X \union {x}, T2, O)
  BY <1>1 DEF Covers
<1> QED
  BY <1>1, <1>2, <1>3, <1>4 DEF Budget

(* ... a chance may turn into another of the same detection, ... *)
LEMMA BudgetRenamed ==
    ASSUME NEW T, NEW O, NEW k \in Int, Budget(T, O, k), NEW x \in T,
           NEW y \in {"stored", "walking"} \X Messages, Reported(y) = Reported(x),
           NEW T2, T2 \subseteq (T \ {x}) \union {y}
    PROVE  Budget(T2, O, k)
<1>1. PICK X \in SUBSET ({"stored", "walking"} \X Messages) :
         IsFiniteSet(X) /\ Cardinality(X) <= k /\ Covers(X, T, O)
  BY DEF Budget
<1>2. CASE x \in X
  <2>1. /\ IsFiniteSet(X \ {x}) /\ Cardinality(X \ {x}) = Cardinality(X) - 1
        /\ Cardinality(X) \in Nat
    BY <1>1, <1>2, FS_RemoveElement, FS_CardinalityType
  <2>2. /\ IsFiniteSet((X \ {x}) \union {y})
        /\ Cardinality((X \ {x}) \union {y}) <= Cardinality(X \ {x}) + 1
        /\ Cardinality((X \ {x}) \union {y}) \in Nat
    BY <2>1, CardinalityAdd
  <2>3. Cardinality((X \ {x}) \union {y}) <= k
    BY <1>1, <2>1, <2>2
  <2>4. Covers((X \ {x}) \union {y}, T2, O)
    BY <1>1, <1>2 DEF Covers
  <2> QED
    BY <1>1, <2>2, <2>3, <2>4 DEF Budget
<1>3. CASE x \notin X
  <2>1. Covers(X, T2, O)
    <3>1. \A z \in T2 \ X : z = y \/ (z \in T \ X /\ z # x)
      OBVIOUS
    <3> QED
      BY <1>1, <1>3, <3>1 DEF Covers
  <2> QED
    BY <1>1, <2>1 DEF Budget
<1> QED
  BY <1>2, <1>3

(* ... a detection that is published brings a chance, if it had none, ... *)
LEMMA BudgetNew ==
    ASSUME NEW T, NEW O, NEW k \in Int, Budget(T, O, k),
           NEW x, \A y \in T : Reported(y) # Reported(x),
           NEW T2, T2 \subseteq T \union {x}, NEW O2, O \subseteq O2,
           Reported(x) \in Invalid \union O2
    PROVE  Budget(T2, O2, k)
<1>1. PICK X \in SUBSET ({"stored", "walking"} \X Messages) :
         IsFiniteSet(X) /\ Cardinality(X) <= k /\ Covers(X, T, O)
  BY DEF Budget
<1>2. Covers(X, T2, O2)
  <2>1. \A z \in T2 \ X : z = x \/ z \in T \ X
    OBVIOUS
  <2> QED
    BY <1>1, <2>1 DEF Covers
<1> QED
  BY <1>1, <1>2 DEF Budget

(* ... a detection that was owed ends with one of its chances, ... *)
LEMMA BudgetSettled ==
    ASSUME NEW T, NEW O, NEW k \in Int, Budget(T, O, k),
           T \subseteq {"stored", "walking"} \X Messages, NEW x \in T,
           NEW T2, T2 \subseteq T \ {x}
    PROVE  Budget(T2, O \ {Reported(x)}, k)
<1>1. PICK X \in SUBSET ({"stored", "walking"} \X Messages) :
         IsFiniteSet(X) /\ Cardinality(X) <= k /\ Covers(X, T, O)
  BY DEF Budget
<1>2. CASE \A y \in T2 \ X : Reported(y) # Reported(x) \/ Reported(y) \in Invalid
  <2>1. Covers(X, T2, O \ {Reported(x)})
    BY <1>1, <1>2 DEF Covers
  <2> QED
    BY <1>1, <2>1 DEF Budget
<1>3. CASE \E y \in T2 \ X : Reported(y) = Reported(x) /\ Reported(y) \notin Invalid
  <2> PICK y \in T2 \ X : Reported(y) = Reported(x) /\ Reported(y) \notin Invalid
    BY <1>3
  <2>1. \A z \in T \ X : Reported(z) = Reported(x) => z = y
    BY <1>1 DEF Covers
  <2>2. x \in X
    BY <2>1
  <2>3. /\ IsFiniteSet(X \ {x}) /\ Cardinality(X \ {x}) = Cardinality(X) - 1
        /\ Cardinality(X) \in Nat
    BY <1>1, <2>2, FS_RemoveElement, FS_CardinalityType
  <2>4. /\ IsFiniteSet((X \ {x}) \union {y})
        /\ Cardinality((X \ {x}) \union {y}) <= Cardinality(X \ {x}) + 1
        /\ Cardinality((X \ {x}) \union {y}) \in Nat
    BY <2>3, CardinalityAdd
  <2>5. Cardinality((X \ {x}) \union {y}) <= k
    BY <1>1, <2>3, <2>4
  <2>6. Covers((X \ {x}) \union {y}, T2, O \ {Reported(x)})
    <3>1. \A z \in T2 \ ((X \ {x}) \union {y}) : z \in T \ X /\ Reported(z) # Reported(x)
      BY <2>1
    <3> QED
      BY <1>1, <3>1 DEF Covers
  <2> QED
    BY <1>1, <2>4, <2>5, <2>6 DEF Budget
<1> QED
  BY <1>2, <1>3

(* ... or, when its message could not be acknowledged, with a fault, ... *)
LEMMA BudgetSettledLate ==
    ASSUME NEW T, NEW O, NEW k \in Int, Budget(T, O, k),
           T \subseteq {"stored", "walking"} \X Messages,
           NEW d, NEW T2, T2 \subseteq T
    PROVE  Budget(T2, O \ {d}, k + 1)
<1>1. PICK X \in SUBSET ({"stored", "walking"} \X Messages) :
         IsFiniteSet(X) /\ Cardinality(X) <= k /\ Covers(X, T, O)
  BY DEF Budget
<1>2. CASE \A y \in T2 \ X : Reported(y) # d \/ Reported(y) \in Invalid
  <2>1. Covers(X, T2, O \ {d})
    BY <1>1, <1>2 DEF Covers
  <2>2. Cardinality(X) <= k + 1
    BY <1>1, FS_CardinalityType
  <2> QED
    BY <1>1, <2>1, <2>2 DEF Budget
<1>3. CASE \E y \in T2 \ X : Reported(y) = d /\ Reported(y) \notin Invalid
  <2> PICK y \in T2 \ X : Reported(y) = d /\ Reported(y) \notin Invalid
    BY <1>3
  <2>1. /\ IsFiniteSet(X \union {y}) /\ Cardinality(X \union {y}) <= Cardinality(X) + 1
        /\ Cardinality(X \union {y}) \in Nat /\ Cardinality(X) \in Nat
    BY <1>1, CardinalityAdd
  <2>2. Cardinality(X \union {y}) <= k + 1
    BY <1>1, <2>1
  <2>3. Covers(X \union {y}, T2, O \ {d})
    <3>1. \A z \in T2 \ (X \union {y}) : z \in T \ X /\ Reported(z) # d
      BY <1>1 DEF Covers
    <3> QED
      BY <1>1, <3>1 DEF Covers
  <2> QED
    BY <1>1, <2>1, <2>2, <2>3 DEF Budget
<1> QED
  BY <1>2, <1>3

(* ... and a repeat uses up a chance that stood for a fault. *)
LEMMA BudgetRepeat ==
    ASSUME NEW T, NEW O, NEW k \in Int, Budget(T, O, k), NEW x \in T,
           Reported(x) \notin Invalid, Reported(x) \notin O,
           NEW T2, T2 \subseteq T \ {x}
    PROVE  Budget(T2, O, k - 1)
<1>1. PICK X \in SUBSET ({"stored", "walking"} \X Messages) :
         IsFiniteSet(X) /\ Cardinality(X) <= k /\ Covers(X, T, O)
  BY DEF Budget
<1>2. x \in X
  BY <1>1 DEF Covers
<1>3. /\ IsFiniteSet(X \ {x}) /\ Cardinality(X \ {x}) = Cardinality(X) - 1
      /\ Cardinality(X) \in Nat
  BY <1>1, <1>2, FS_RemoveElement, FS_CardinalityType
<1>4. Cardinality(X \ {x}) <= k - 1
  BY <1>1, <1>3
<1>5. Covers(X \ {x}, T2, O)
  <2>1. \A z \in T2 \ (X \ {x}) : z \in T \ X
    OBVIOUS
  <2> QED
    BY <1>1, <2>1 DEF Covers
<1> QED
  BY <1>1, <1>3, <1>4, <1>5 DEF Budget

-----------------------------------------------------------------------------
(* One element more at the end. *)
LEMMA AppendDistinct ==
    ASSUME NEW S, NEW s \in Seq(S), NEW e \in S
    PROVE  /\ Elements(Append(s, e)) = Elements(s) \union {e}
           /\ Distinct(s) /\ e \notin Elements(s) => Distinct(Append(s, e))
           /\ Append(s, e)[Len(Append(s, e))] = e
<1>1. /\ Len(s) \in Nat /\ Len(Append(s, e)) = Len(s) + 1
      /\ \A i \in 1..Len(s) : Append(s, e)[i] = s[i]
      /\ Append(s, e)[Len(s) + 1] = e
  OBVIOUS
<1> DEFINE a == Append(s, e)
           n == Len(s)
<1>2. \A i \in 1..(n + 1) : i \in 1..n \/ i = n + 1
  BY <1>1
<1>3. 1..n \subseteq 1..(n + 1) /\ n + 1 \in 1..(n + 1)
  BY <1>1
<1> HIDE DEF a, n
<1>4. Elements(a) = Elements(s) \union {e}
  BY <1>1, <1>2, <1>3 DEF Elements, a, n
<1>5. Distinct(s) /\ e \notin Elements(s) => Distinct(a)
  BY <1>1, <1>2, <1>3 DEF Elements, Distinct, a, n
<1> QED
  BY <1>1, <1>4, <1>5 DEF a, n

(* One element less at the head. *)
LEMMA TailDistinct ==
    ASSUME NEW S, NEW s \in Seq(S), s # <<>>, Distinct(s)
    PROVE  /\ Elements(Tail(s)) = Elements(s) \ {Head(s)}
           /\ Head(s) \in Elements(s)
           /\ Distinct(Tail(s))
           /\ Tail(s) # <<>> => Tail(s)[Len(Tail(s))] = s[Len(s)]
           /\ Tail(s) = <<>> => s[Len(s)] = Head(s)
<1> DEFINE t == Tail(s)
<1>1. /\ Len(s) \in Nat /\ Len(s) >= 1 /\ t \in Seq(S) /\ Len(t) = Len(s) - 1
      /\ Head(s) = s[1]
      /\ \A i \in 1..Len(t) : t[i] = s[i + 1] /\ i + 1 \in 1..Len(s)
      /\ \A i \in 1..Len(s) : i # 1 => i - 1 \in 1..Len(t) /\ t[i - 1] = s[i]
  OBVIOUS
<1>2. 1 \in 1..Len(s)
  BY <1>1
<1> HIDE DEF t
<1>3. Distinct(t)
  <2> SUFFICES ASSUME NEW i \in 1..Len(t), NEW j \in 1..Len(t), t[i] = t[j] PROVE i = j
    BY DEF Distinct
  <2>1. s[i + 1] = s[j + 1] /\ i + 1 \in 1..Len(s) /\ j + 1 \in 1..Len(s)
    BY <1>1
  <2>2. i + 1 = j + 1
    BY <2>1 DEF Distinct
  <2> QED
    BY <2>2
<1>4. Elements(t) \subseteq Elements(s) \ {Head(s)}
  <2> SUFFICES ASSUME NEW i \in 1..Len(t) PROVE t[i] \in Elements(s) /\ t[i] # Head(s)
    BY DEF Elements
  <2>1. t[i] = s[i + 1] /\ i + 1 \in 1..Len(s) /\ i + 1 # 1
    BY <1>1
  <2> QED
    BY <1>1, <1>2, <2>1 DEF Distinct, Elements
<1>5. Elements(s) \ {Head(s)} \subseteq Elements(t)
  BY <1>1 DEF Elements
<1>6. Head(s) \in Elements(s)
  BY <1>1, <1>2 DEF Elements
<1>7. t # <<>> => t[Len(t)] = s[Len(s)]
  <2>1. t # <<>> => Len(t) \in 1..Len(t) /\ Len(t) + 1 = Len(s)
    BY <1>1
  <2> QED
    BY <1>1, <2>1
<1>8. t = <<>> => s[Len(s)] = Head(s)
  <2>1. t = <<>> => Len(s) = 1
    BY <1>1
  <2> QED
    BY <1>1, <2>1
<1> QED
  BY <1>3, <1>4, <1>5, <1>6, <1>7, <1>8 DEF t

(* A sequence cut in two. *)
LEMMA SplitDistinct ==
    ASSUME NEW S, NEW s \in Seq(S), NEW n \in 0..Len(s), Distinct(s)
    PROVE  /\ Distinct(SubSeq(s, 1, n)) /\ Distinct(SubSeq(s, n + 1, Len(s)))
           /\ Elements(SubSeq(s, 1, n)) \subseteq Elements(s)
           /\ Elements(SubSeq(s, n + 1, Len(s)))
                 \subseteq Elements(s) \ Elements(SubSeq(s, 1, n))
<1> DEFINE p == SubSeq(s, 1, n)
           r == SubSeq(s, n + 1, Len(s))
<1>1. /\ Len(p) = n
      /\ \A i \in 1..n : p[i] = s[i] /\ i \in 1..Len(s)
  OBVIOUS
<1>2. /\ Len(r) = Len(s) - n /\ Len(s) \in Nat
      /\ \A i \in 1..Len(r) : r[i] = s[n + i] /\ n + i \in 1..Len(s) /\ n + i \notin 1..n
  OBVIOUS
<1> HIDE DEF p, r
<1>3. Distinct(p)
  BY <1>1 DEF Distinct
<1>4. Distinct(r)
  <2> SUFFICES ASSUME NEW i \in 1..Len(r), NEW j \in 1..Len(r), r[i] = r[j] PROVE i = j
    BY DEF Distinct
  <2>1. n + i = n + j
    BY <1>2 DEF Distinct
  <2> QED
    BY <2>1
<1>5. Elements(p) \subseteq Elements(s)
  BY <1>1 DEF Elements
<1>6. Elements(r) \subseteq Elements(s) \ Elements(p)
  <2> SUFFICES ASSUME NEW i \in 1..Len(r) PROVE r[i] \in Elements(s) /\ r[i] \notin Elements(p)
    BY DEF Elements
  <2>1. r[i] = s[n + i] /\ n + i \in 1..Len(s) /\ n + i \notin 1..n
    BY <1>2
  <2>2. ASSUME NEW j \in 1..Len(p), p[j] = r[i] PROVE FALSE
    <3>1. s[j] = s[n + i] /\ j \in 1..Len(s) /\ j \in 1..n
      BY <1>1, <2>1, <2>2
    <3> QED
      BY <2>1, <3>1 DEF Distinct
  <2> QED
    BY <2>1, <2>2 DEF Elements
<1> QED
  BY <1>3, <1>4, <1>5, <1>6 DEF p, r

RInv == DInv /\ Parted /\ Ledger

(* Where chances live. *)
LEMMA ChancesAre ==
    ASSUME TypeOK
    PROVE  /\ Chances \subseteq {"stored", "walking"} \X Messages
           /\ \A x \in Chances : x[2] \in Alive
           /\ faults - repeats \in Int
           /\ \A m : <<"stored", m>> \in Chances <=> m \in pel \union Elements(stream)
           /\ \A m : <<"walking", m>> \in Chances <=> m \in Walking
<1>1. /\ Elements(stream) \subseteq Messages /\ Elements(batch) \subseteq Messages
      /\ Elements(queue) \subseteq Messages
  BY DEF TypeOK, Elements
<1>2. Walking \subseteq Elements(batch) \union Elements(queue)
  BY DEF Walking
<1>3. faults - repeats \in Int
  BY DEF TypeOK
<1>4. \A x \in Chances : x[2] \in Alive
  BY <1>2 DEF Chances, Alive
<1>5. Chances \subseteq {"stored", "walking"} \X Messages
  BY <1>1, <1>2 DEF Chances, TypeOK
<1>6. /\ \A m : <<"stored", m>> \in Chances <=> m \in pel \union Elements(stream)
      /\ \A m : <<"walking", m>> \in Chances <=> m \in Walking
  BY DEF Chances
<1> QED
  BY <1>3, <1>4, <1>5, <1>6

(* The chances after a step. *)
LEMMA ChancesNext ==
    /\ Chances' = ({"stored"} \X (pel' \union Elements(stream'))) \union ({"walking"} \X Walking')
    /\ Walking' = {m \in Elements(batch') \union Elements(queue') : ~(m \in pel' /\ InHand(m)')}
    /\ \A m : InHand(m)' <=>
         m \in Elements(batch') \/ (draining' /\ queue' # <<>> /\ m = queue'[Len(queue')])
    /\ Ledger' <=> Budget(Chances', owed', faults' - repeats')
<1>1. Chances' = ({"stored"} \X (pel' \union Elements(stream'))) \union ({"walking"} \X Walking')
  BY DEF Chances, Elements
<1>2. Walking' = {m \in Elements(batch') \union Elements(queue') : ~(m \in pel' /\ InHand(m)')}
  BY DEF Walking, Elements
<1>3. \A m : InHand(m)' <=>
         m \in Elements(batch') \/ (draining' /\ queue' # <<>> /\ m = queue'[Len(queue')])
  BY DEF InHand, Elements
<1>4. Ledger' <=> Budget(Chances', owed', faults' - repeats')
  BY DEF Ledger, Budget, Covers, Reported
<1> QED
  BY <1>1, <1>2, <1>3, <1>4

(* What the stores and the thread hold decides whether the chances grow. *)
LEMMA ChancesShrink ==
    ASSUME pel' \union Elements(stream') \subseteq pel \union Elements(stream),
           \A m \in Walking' : m \in Walking
    PROVE  Chances' \subseteq Chances
  BY ChancesNext DEF Chances

(* Parted, said of the next state. *)
LEMMA PartedNext ==
    ASSUME Distinct(stream'), Distinct(batch'), Distinct(queue'),
           Elements(stream') \intersect (pel' \union Elements(batch') \union Elements(queue')) = {},
           Elements(batch') \intersect Elements(queue') = {},
           \A m \in Elements(queue') : m[1] \notin Invalid
    PROVE  Parted'
  BY DEF Parted, Distinct, Elements

LEMMA PublishLedger ==
    ASSUME RInv, NEW d \in Detections, Publish(d)
    PROVE  Parted' /\ Ledger'
<1> DEFINE e == <<d, 1>>
<1>1. e \in Messages /\ e \notin Alive /\ stream \in Seq(Messages)
  BY DEF Messages, Publish, RInv, DInv, TypeOK
<1>2. Elements(stream') = Elements(stream) \union {e} /\ Distinct(stream')
  BY <1>1, AppendDistinct DEF Publish, RInv, Parted, Alive
<1>3. Parted'
  <2>1. UNCHANGED <<pel, batch, queue>>
    BY DEF Publish
  <2>2. Elements(stream') \intersect (pel' \union Elements(batch') \union Elements(queue')) = {}
    BY <1>1, <1>2, <2>1 DEF RInv, Parted, Alive
  <2> QED
    BY <1>2, <2>1, <2>2, PartedNext DEF RInv, Parted
<1>4. Walking' = Walking
  BY DEF Publish, Walking, InHand
<1>5. Chances' \subseteq Chances \union {<<"stored", e>>}
  BY <1>2, <1>4, ChancesNext DEF Publish, Chances
<1>6. \A y \in Chances : Reported(y) # Reported(<<"stored", e>>)
  BY ChancesAre DEF Publish, RInv, DInv, Reported
<1>7. owed \subseteq owed' /\ d \in Invalid \union owed'
  BY DEF Publish
<1>8. Reported(<<"stored", e>>) = d
  BY DEF Reported
<1>9. Budget(Chances', owed', faults - repeats)
  BY <1>5, <1>6, <1>7, <1>8, BudgetNew, ChancesAre DEF RInv, DInv, Ledger
<1> QED
  BY <1>3, <1>9, ChancesNext DEF Publish

LEMMA ConsumeLedger ==
    ASSUME RInv, Consume
    PROVE  Parted' /\ Ledger'
<1> DEFINE n == IF Len(stream) < Count THEN Len(stream) ELSE Count
<1>1. n \in 0..Len(stream) /\ stream \in Seq(Messages)
  BY DEF RInv, DInv, TypeOK
<1>2. batch' = SubSeq(stream, 1, n) /\ stream' = SubSeq(stream, n + 1, Len(stream))
  BY DEF Consume
<1> HIDE DEF n
<1>3. /\ Distinct(batch') /\ Distinct(stream')
      /\ Elements(batch') \subseteq Elements(stream)
      /\ Elements(stream') \subseteq Elements(stream) \ Elements(batch')
  BY <1>1, <1>2, SplitDistinct DEF RInv, Parted
<1>4. /\ pel' = pel \union Elements(batch') /\ batch = <<>> /\ ~draining
      /\ UNCHANGED <<queue, draining, owed, repeats, faults>>
  BY DEF Consume
<1>5. Elements(batch) = {}
  BY <1>4 DEF Elements
<1>6. Parted'
  <2>1. Elements(queue') = Elements(queue) /\ (Distinct(queue') <=> Distinct(queue))
    BY <1>4
  <2>2. Elements(stream') \intersect (pel' \union Elements(batch') \union Elements(queue')) = {}
    BY <1>3, <1>4, <2>1 DEF RInv, Parted
  <2>3. Elements(batch') \intersect Elements(queue') = {}
    BY <1>3, <2>1 DEF RInv, Parted
  <2>4. \A m \in Elements(queue') : m[1] \notin Invalid
    BY <2>1 DEF RInv, Parted
  <2>5. Distinct(queue')
    BY <2>1 DEF RInv, Parted
  <2> QED
    BY <1>3, <2>2, <2>3, <2>4, <2>5 DEF Parted, Distinct, Elements
<1>7. pel' \union Elements(stream') \subseteq pel \union Elements(stream)
  BY <1>3, <1>4
<1>8. \A m \in Walking' : m \in Walking
  BY <1>3, <1>4, <1>5, ChancesNext DEF Walking, InHand
<1>9. Budget(Chances', owed', faults' - repeats')
  BY <1>4, <1>7, <1>8, ChancesShrink, BudgetLess, ChancesAre DEF RInv, DInv, Ledger
<1> QED
  BY <1>6, <1>9, ChancesNext

(* The thread is done with the message at the head of the reply or of the
   queue: it has a chance, which goes with the acknowledgement. *)
LEMMA SettleLedger ==
    ASSUME RInv, TypeOK', NEW h, Ack(h), Chances' \subseteq Chances,
           NEW x \in Chances, Reported(x) = h[1],
           pel' = pel \ {h} /\ faults' = faults => x \notin Chances',
           owed' = owed \ {h[1]},
           \/ repeats' = repeats
           \/ h[1] \notin Invalid /\ h[1] \notin owed /\ repeats' = repeats + 1
    PROVE  Ledger'
<1> DEFINE k == faults - repeats
<1>1. k \in Int /\ Budget(Chances, owed, k) /\ faults' - repeats' \in Int
      /\ Chances \subseteq {"stored", "walking"} \X Messages
      /\ faults \in Nat /\ repeats \in Nat /\ faults' \in Nat /\ repeats' \in Nat
  <2>1. faults \in Nat /\ repeats \in Nat
    BY DEF RInv, DInv, TypeOK
  <2>2. faults' \in Nat /\ repeats' \in Nat
    BY DEF TypeOK
  <2>3. Budget(Chances, owed, k)
    BY DEF RInv, Ledger
  <2>4. Chances \subseteq {"stored", "walking"} \X Messages
    BY ChancesAre DEF RInv, DInv
  <2>5. k \in Int /\ faults' - repeats' \in Int
    BY <2>1, <2>2
  <2> QED
    BY <2>1, <2>2, <2>3, <2>4, <2>5
<1>2. CASE pel' = pel \ {h} /\ faults' = faults
  <2>1. Chances' \subseteq Chances \ {x}
    BY <1>2
  <2>2. CASE repeats' = repeats
    <3>1. Budget(Chances', owed', k)
      <4> HIDE DEF k
      <4> QED
        BY <1>1, <2>1, BudgetSettled
    <3> QED
      BY <1>2, <2>2, <3>1, ChancesNext
  <2>3. CASE h[1] \notin Invalid /\ h[1] \notin owed /\ repeats' = repeats + 1
    <3>1. Budget(Chances', owed, k - 1)
      <4> HIDE DEF k
      <4> QED
        BY <1>1, <2>1, <2>3, BudgetRepeat
    <3>2. owed' = owed /\ k - 1 = faults' - repeats'
      BY <1>1, <1>2, <2>3
    <3> QED
      BY <3>1, <3>2, ChancesNext
  <2> QED
    BY <2>2, <2>3
<1>3. CASE faults' = faults + 1
  <2>1. CASE repeats' = repeats
    <3>1. Budget(Chances', owed', k + 1)
      <4> HIDE DEF k
      <4> QED
        BY <1>1, BudgetSettledLate
    <3>2. k + 1 = faults' - repeats'
      BY <1>1, <1>3, <2>1
    <3> QED
      BY <3>1, <3>2, ChancesNext
  <2>2. CASE h[1] \notin owed /\ repeats' = repeats + 1
    <3>1. owed' = owed /\ k = faults' - repeats'
      BY <1>1, <1>3, <2>2
    <3>2. Budget(Chances', owed, k)
      <4> HIDE DEF k
      <4> QED
        BY <1>1, BudgetLess
    <3> QED
      BY <3>1, <3>2, ChancesNext
  <2> QED
    BY <2>1, <2>2
<1> QED
  BY <1>2, <1>3 DEF Ack, Fault

LEMMA DiscardLedger ==
    ASSUME RInv, TypeOK', Discard
    PROVE  Parted' /\ Ledger'
<1> DEFINE h == Head(batch)
<1>1. /\ batch \in Seq(Messages) /\ batch # <<>> /\ batch' = Tail(batch) /\ Ack(h)
      /\ owed' = owed \ {h[1]}
      /\ ~draining /\ UNCHANGED <<stream, queue, draining, repeats>>
  BY DEF RInv, DInv, TypeOK, Discard
<1>2. /\ Elements(batch') = Elements(batch) \ {h} /\ h \in Elements(batch) /\ Distinct(batch')
  BY <1>1, TailDistinct DEF RInv, Parted
<1>3. pel' \subseteq pel /\ pel \ {h} \subseteq pel'
  BY <1>1 DEF Ack
<1> HIDE DEF h
<1>4. Parted'
  <2>1. Elements(stream') \intersect (pel' \union Elements(batch') \union Elements(queue')) = {}
    BY <1>1, <1>2, <1>3 DEF RInv, Parted
  <2>2. Elements(batch') \intersect Elements(queue') = {}
    BY <1>1, <1>2 DEF RInv, Parted
  <2> QED
    BY <1>1, <1>2, <2>1, <2>2, PartedNext DEF RInv, Parted
<1>5. h \notin Elements(queue) /\ h \notin Elements(stream)
  BY <1>2 DEF RInv, Parted
<1>6. \A m \in Walking' : m \in Walking
  <2> SUFFICES ASSUME NEW m \in Walking' PROVE m \in Walking
    OBVIOUS
  <2>1. m \in Elements(batch) \union Elements(queue) /\ m # h
    BY <1>1, <1>2, <1>5, ChancesNext
  <2>2. m \in pel /\ InHand(m) => m \in pel' /\ InHand(m)'
    BY <1>1, <1>2, <1>3, <2>1, ChancesNext DEF InHand
  <2> QED
    BY <2>1, <2>2, ChancesNext DEF Walking
<1>7. Chances' \subseteq Chances
  BY <1>1, <1>3, <1>6, ChancesShrink
<1>8. \E x \in Chances : /\ Reported(x) = h[1]
                         /\ pel' = pel \ {h} => x \notin Chances'
  <2>1. CASE h \in pel
    <3>1. <<"stored", h>> \in Chances
      BY <2>1, ChancesAre DEF RInv, DInv
    <3>2. pel' = pel \ {h} => <<"stored", h>> \notin Chances'
      BY <1>1, <1>5, ChancesNext
    <3> QED
      BY <3>1, <3>2 DEF Reported
  <2>2. CASE h \notin pel
    <3>1. h \in Walking
      BY <1>2, <2>2 DEF Walking
    <3>2. h \notin Walking'
      BY <1>1, <1>2, <1>5, ChancesNext
    <3>3. <<"walking", h>> \in Chances /\ <<"walking", h>> \notin Chances'
      BY <3>1, <3>2, ChancesAre, ChancesNext DEF RInv, DInv
    <3> QED
      BY <3>3 DEF Reported
  <2> QED
    BY <2>1, <2>2
<1>9. Ledger'
  BY <1>1, <1>7, <1>8, SettleLedger
<1> QED
  BY <1>4, <1>9

LEMMA DrainEventLedger ==
    ASSUME RInv, TypeOK', DrainEvent
    PROVE  Parted' /\ Ledger'
<1> DEFINE h == Head(queue)
<1>1. /\ queue \in Seq(Messages) /\ queue # <<>> /\ queue' = Tail(queue) /\ Ack(h)
      /\ owed' = owed \ {h[1]} /\ draining /\ draining' = (queue' # <<>>)
      /\ repeats' = IF h[1] \in owed THEN repeats ELSE repeats + 1
      /\ UNCHANGED <<stream, batch>>
  BY DEF RInv, DInv, TypeOK, InStep, DrainsSomething, DrainEvent
<1>2. /\ Elements(queue') = Elements(queue) \ {h} /\ h \in Elements(queue) /\ Distinct(queue')
      /\ queue' # <<>> => queue'[Len(queue')] = queue[Len(queue)]
  BY <1>1, TailDistinct DEF RInv, Parted
<1>3. pel' \subseteq pel /\ pel \ {h} \subseteq pel'
  BY <1>1 DEF Ack
<1>a. queue' = <<>> => queue[Len(queue)] = h
  BY <1>1, TailDistinct DEF RInv, Parted
<1> HIDE DEF h
<1>4. Parted'
  <2>1. Distinct(stream') /\ Distinct(batch') /\ Elements(stream') = Elements(stream)
        /\ Elements(batch') = Elements(batch)
    BY <1>1 DEF RInv, Parted
  <2>2. Elements(stream') \intersect (pel' \union Elements(batch') \union Elements(queue')) = {}
    BY <1>2, <1>3, <2>1 DEF RInv, Parted
  <2>3. Elements(batch') \intersect Elements(queue') = {}
    BY <1>2, <2>1 DEF RInv, Parted
  <2>4. \A m \in Elements(queue') : m[1] \notin Invalid
    BY <1>2 DEF RInv, Parted
  <2> QED
    BY <1>2, <2>1, <2>2, <2>3, <2>4 DEF Parted, Distinct, Elements
<1>5. h \notin Elements(batch) /\ h \notin Elements(stream) /\ h[1] \notin Invalid
  BY <1>2 DEF RInv, Parted
<1>6. \A m \in Walking' : m \in Walking
  <2> SUFFICES ASSUME NEW m \in Walking' PROVE m \in Walking
    OBVIOUS
  <2>1. m \in Elements(batch) \union Elements(queue) /\ m # h
    BY <1>1, <1>2, <1>5, ChancesNext
  <2>2. m \in pel /\ InHand(m) => m \in pel' /\ InHand(m)'
    BY <1>1, <1>2, <1>3, <1>a, <2>1, ChancesNext DEF InHand
  <2> QED
    BY <2>1, <2>2, ChancesNext DEF Walking
<1>7. Chances' \subseteq Chances
  BY <1>1, <1>3, <1>6, ChancesShrink
<1>8. \E x \in Chances : /\ Reported(x) = h[1]
                         /\ pel' = pel \ {h} => x \notin Chances'
  <2>1. CASE h \in pel
    <3>1. <<"stored", h>> \in Chances
      BY <2>1, ChancesAre DEF RInv, DInv
    <3>2. pel' = pel \ {h} => <<"stored", h>> \notin Chances'
      BY <1>1, <1>5, ChancesNext
    <3> QED
      BY <3>1, <3>2 DEF Reported
  <2>2. CASE h \notin pel
    <3>1. h \in Walking
      BY <1>2, <2>2 DEF Walking
    <3>2. h \notin Walking'
      BY <1>1, <1>2, <1>5, ChancesNext
    <3>3. <<"walking", h>> \in Chances /\ <<"walking", h>> \notin Chances'
      BY <3>1, <3>2, ChancesAre, ChancesNext DEF RInv, DInv
    <3> QED
      BY <3>3 DEF Reported
  <2> QED
    BY <2>1, <2>2
<1>9. Ledger'
  BY <1>1, <1>5, <1>7, <1>8, SettleLedger
<1> QED
  BY <1>4, <1>9

LEMMA EnqueueLedger ==
    ASSUME RInv, Enqueue
    PROVE  Parted' /\ Ledger'
<1> DEFINE h == Head(batch)
<1>1. /\ batch \in Seq(Messages) /\ batch # <<>> /\ batch' = Tail(batch)
      /\ queue \in Seq(Messages) /\ queue' = Append(queue, h) /\ draining' = TRUE
      /\ ~draining /\ h[1] \notin Invalid
      /\ UNCHANGED <<stream, pel, owed, repeats, faults>>
  BY DEF RInv, DInv, TypeOK, Enqueue, Parses
<1>2. /\ Elements(batch') = Elements(batch) \ {h} /\ h \in Elements(batch) /\ Distinct(batch')
  BY <1>1, TailDistinct DEF RInv, Parted
<1>3. h \in Messages /\ h \notin Elements(queue)
  BY <1>1, <1>2, HeadTail DEF RInv, Parted
<1>4. /\ Elements(queue') = Elements(queue) \union {h} /\ Distinct(queue')
      /\ queue'[Len(queue')] = h /\ queue' # <<>>
  BY <1>1, <1>3, AppendDistinct, AppendElements DEF RInv, Parted
<1> HIDE DEF h
<1>5. Parted'
  <2>1. Distinct(stream') /\ Elements(stream') = Elements(stream) /\ pel' = pel
    BY <1>1 DEF RInv, Parted
  <2>2. Elements(stream') \intersect (pel' \union Elements(batch') \union Elements(queue')) = {}
    BY <1>2, <1>4, <2>1 DEF RInv, Parted
  <2>3. Elements(batch') \intersect Elements(queue') = {}
    BY <1>2, <1>4 DEF RInv, Parted
  <2>4. \A m \in Elements(queue') : m[1] \notin Invalid
    BY <1>1, <1>4 DEF RInv, Parted
  <2> QED
    BY <1>2, <1>4, <2>1, <2>2, <2>3, <2>4 DEF Parted, Distinct, Elements
<1>6. \A m \in Walking' : m \in Walking
  <2> SUFFICES ASSUME NEW m \in Walking' PROVE m \in Walking
    OBVIOUS
  <2>1. m \in Elements(batch) \union Elements(queue)
    BY <1>2, <1>4, ChancesNext
  <2>2. m \in pel /\ InHand(m) => m \in pel' /\ InHand(m)'
    BY <1>1, <1>2, <1>4, <2>1, ChancesNext DEF InHand
  <2> QED
    BY <2>1, <2>2, ChancesNext DEF Walking
<1>7. Chances' \subseteq Chances
  BY <1>1, <1>6, ChancesShrink
<1>8. Budget(Chances', owed', faults' - repeats')
  BY <1>1, <1>7, BudgetLess, ChancesAre DEF RInv, DInv, Ledger
<1> QED
  BY <1>5, <1>8, ChancesNext

LEMMA SweepLedger ==
    ASSUME RInv, TypeOK', NEW m \in Messages, Sweep(m)
    PROVE  Parted' /\ Ledger'
<1>1. PICK c \in 1..Copies : <<m[1], c>> \notin Alive /\ stream' = Append(stream, <<m[1], c>>)
  BY DEF Sweep
<1> DEFINE e == <<m[1], c>>
           s == <<"stored", m>>
           r == <<"stored", e>>
           w == <<"walking", m>>
<1>2. e \in Messages /\ e \notin Alive /\ stream \in Seq(Messages)
  BY <1>1 DEF Messages, RInv, DInv, TypeOK
<1>3. Elements(stream') = Elements(stream) \union {e} /\ Distinct(stream')
  BY <1>1, <1>2, AppendDistinct DEF RInv, Parted, Alive
<1>4. /\ m \in pel /\ pel' = pel \ {m}
      /\ UNCHANGED <<batch, queue, pending_ids, draining, owed, repeats>>
      /\ IF Walked(m) THEN faults' = faults + 1 ELSE faults' = faults
  BY DEF Sweep, Fault
<1>5. e # m /\ m \notin Elements(stream)
  BY <1>2, <1>4 DEF Alive, RInv, Parted
<1>6. Parted'
  <2>1. Elements(stream') \intersect (pel' \union Elements(batch') \union Elements(queue')) = {}
    BY <1>2, <1>3, <1>4 DEF RInv, Parted, Alive
  <2> QED
    BY <1>3, <1>4, <2>1, PartedNext DEF RInv, Parted
<1>7. \A k \in Walking' : k \in Walking \/ k = m
  BY <1>4, ChancesNext DEF Walking, InHand
<1>8. ~Walked(m) => Walking' \subseteq Walking
  <2> SUFFICES ASSUME ~Walked(m), m \in Walking' PROVE m \in Walking
    BY <1>7
  <2>1. m \in Elements(queue) /\ ~draining /\ m \notin Elements(batch)
    BY <1>4, ChancesNext DEF Walked
  <2> QED
    BY <2>1 DEF Walking, InHand
<1>9. s \in Chances /\ Reported(r) = Reported(s)
      /\ r \in {"stored", "walking"} \X Messages /\ w \in {"stored", "walking"} \X Messages
  BY <1>2, <1>4, ChancesAre DEF RInv, DInv, Reported
<1>10. Chances' \subseteq ((Chances \ {s}) \union {r}) \union {w}
  <2>1. \A k \in pel' \union Elements(stream') : <<"stored", k>> \in (Chances \ {s}) \union {r}
    BY <1>3, <1>4, <1>5, ChancesAre DEF RInv, DInv
  <2>2. \A k \in Walking' : <<"walking", k>> \in (Chances \ {s}) \union {w}
    BY <1>7, ChancesAre DEF RInv, DInv
  <2> QED
    BY <2>1, <2>2, ChancesNext
<1>11. ~Walked(m) => Chances' \subseteq (Chances \ {s}) \union {r}
  <2> SUFFICES ASSUME ~Walked(m), w \in Chances' PROVE w \in Chances /\ w # s
    BY <1>10
  <2> QED
    BY <1>8, ChancesAre, ChancesNext DEF RInv, DInv
<1> HIDE DEF s, r, w, e
<1>12. Budget((Chances \ {s}) \union {r}, owed, faults - repeats)
  BY <1>9, BudgetRenamed, ChancesAre DEF RInv, DInv, Ledger
<1>13. CASE ~Walked(m)
  <2>1. Budget(Chances', owed, faults - repeats)
    BY <1>11, <1>12, <1>13, BudgetLess, ChancesAre DEF RInv, DInv
  <2> QED
    BY <1>4, <1>6, <1>13, <2>1, ChancesNext
<1>14. CASE Walked(m)
  <2>1. Budget(Chances', owed, (faults - repeats) + 1)
    BY <1>9, <1>10, <1>12, BudgetPaid, ChancesAre DEF RInv, DInv
  <2>2. (faults - repeats) + 1 = faults' - repeats'
    BY <1>4, <1>14 DEF RInv, DInv, TypeOK
  <2> QED
    BY <1>4, <1>6, <2>1, <2>2, ChancesNext
<1> QED
  BY <1>13, <1>14

LEMMA DrainFailsLedger ==
    ASSUME RInv, DrainFails
    PROVE  Parted' /\ Ledger'
<1> DEFINE l == queue[Len(queue)]
           w == <<"walking", l>>
<1>1. /\ queue \in Seq(Messages) /\ queue # <<>> /\ ~draining' /\ faults' = faults + 1
      /\ UNCHANGED <<stream, pel, batch, queue, pending_ids, owed, repeats>>
  BY DEF RInv, DInv, TypeOK, DrainsSomething, DrainFails, Fault
<1>2. l \in Messages
  <2>1. Len(queue) \in 1..Len(queue)
    BY <1>1
  <2> QED
    BY <1>1, <2>1
<1>3. w \in {"stored", "walking"} \X Messages
  BY <1>2
<1> HIDE DEF l
<1>4. \A k \in Walking' : k \in Walking \/ k = l
  BY <1>1, ChancesNext DEF Walking, InHand, l
<1>5. Chances' \subseteq Chances \union {w}
  BY <1>1, <1>4, ChancesNext DEF Chances
<1> HIDE DEF w
<1>6. Budget(Chances', owed, (faults - repeats) + 1)
  BY <1>3, <1>5, BudgetPaid, ChancesAre DEF RInv, DInv, Ledger
<1>7. (faults - repeats) + 1 = faults' - repeats'
  BY <1>1 DEF RInv, DInv, TypeOK
<1>8. Parted'
  BY <1>1, PartedNext DEF RInv, Parted
<1> QED
  BY <1>1, <1>6, <1>7, <1>8, ChancesNext

LEMMA RestartLedger ==
    ASSUME RInv, Restart
    PROVE  Parted' /\ Ledger'
<1>1. /\ batch' = <<>> /\ queue' = <<>> /\ ~draining' /\ faults' = faults + 1
      /\ UNCHANGED <<stream, pel, owed, repeats>>
  BY DEF Restart, Fault
<1>2. Elements(batch') = {} /\ Elements(queue') = {} /\ Distinct(batch') /\ Distinct(queue')
  BY <1>1 DEF Elements, Distinct
<1>3. Parted'
  BY <1>1, <1>2 DEF RInv, Parted, Distinct, Elements
<1>4. Chances' \subseteq Chances
  BY <1>1, <1>2, ChancesNext, ChancesShrink
<1>5. faults' - repeats' \in Int /\ faults' - repeats' >= faults - repeats
  BY <1>1 DEF RInv, DInv, TypeOK
<1>6. Budget(Chances', owed', faults' - repeats')
  BY <1>1, <1>4, <1>5, BudgetLess, ChancesAre DEF RInv, DInv, Ledger
<1> QED
  BY <1>3, <1>6, ChancesNext

LEMMA RetriesInvariance == Spec => []RInv
<1>1. Init => RInv
  <2> SUFFICES ASSUME Init PROVE Parted /\ Ledger
    BY InitDInv DEF RInv
  <2>1. Elements(stream) = {} /\ Elements(batch) = {} /\ Elements(queue) = {} /\ pel = {}
    BY DEF Init, Elements
  <2>2. Distinct(stream) /\ Distinct(batch) /\ Distinct(queue)
    BY DEF Init, Distinct
  <2>3. Parted
    BY <2>1, <2>2 DEF Parted
  <2>4. Chances = {}
    BY <2>1 DEF Chances, Walking
  <2>5. faults - repeats = 0
    BY DEF Init
  <2>6. IsFiniteSet({}) /\ Cardinality({}) = 0
    BY FS_EmptySet
  <2>7. Covers({}, {}, owed)
    BY DEF Covers
  <2>8. {} \in SUBSET ({"stored", "walking"} \X Messages) /\ 0 <= 0
    OBVIOUS
  <2>9. Budget({}, owed, 0)
    BY <2>6, <2>7, <2>8 DEF Budget
  <2> QED
    BY <2>3, <2>4, <2>5, <2>9 DEF Ledger
<1>2. RInv /\ [Next]_vars => RInv'
  <2> SUFFICES ASSUME RInv, [Next]_vars PROVE RInv'
    OBVIOUS
  <2>1. DInv' /\ TypeOK'
    BY NextDInv DEF RInv, DInv
  <2>2. ASSUME UNCHANGED vars PROVE Parted' /\ Ledger'
    <3>1. Parted'
      BY <2>2 DEF vars, RInv, Parted
    <3>2. Ledger'
      BY <2>2 DEF vars, RInv, Ledger, Chances, Walking, InHand
    <3> QED
      BY <3>1, <3>2
  <2>3. Parted' /\ Ledger'
    BY <2>1, <2>2, PublishLedger, ConsumeLedger, DiscardLedger, EnqueueLedger,
       DrainEventLedger, SweepLedger, DrainFailsLedger, RestartLedger DEF Next, Thread
  <2> QED
    BY <2>1, <2>3 DEF RInv
<1> QED
  BY <1>1, <1>2, PTL DEF Spec

(* The queue and the sweeper both retry what failed, and still a detection is
   collected again at most once per failure.  (_drain, which puts the event
   back and leaves its id pending, against PELSweeper._sweep_group) *)
THEOREM RetriesAreBounded == Spec => []RepeatsAreFaults
<1>1. ASSUME RInv PROVE RepeatsAreFaults
  <2>1. PICK X : IsFiniteSet(X) /\ Cardinality(X) <= faults - repeats
    BY <1>1 DEF RInv, Ledger, Budget
  <2>2. Cardinality(X) \in Nat /\ faults \in Nat /\ repeats \in Nat
    BY <1>1, <2>1, FS_CardinalityType DEF RInv, DInv, TypeOK
  <2> QED
    BY <2>1, <2>2 DEF RepeatsAreFaults
<1> QED
  BY <1>1, RetriesInvariance, PTL
=============================================================================
