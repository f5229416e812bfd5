------------------------- MODULE SideThreads_proofs -------------------------
(***************************************************************************)
(* For every value of the constants, about four of the threads beside the  *)
(* identity pipeline.                                                      *)
(*                                                                         *)
(* A camera's queues: order is an invariant of the whole way of a frame,   *)
(* from what was collected or waits for stream() over the drain thread's   *)
(* hand and the worker's queue to the frame the worker is putting; drops   *)
(* take frames out of that line and never exchange two of them.  What is   *)
(* in neither is lost, and counted: a drop is counted before the eviction  *)
(* it leads to, and the put after an eviction cannot fail.                 *)
(*                                                                         *)
(* The reader: what its first open decides stays decided.                  *)
(*                                                                         *)
(* The PP-Human manager's children: the invariant adds where a monitor is. *)
(* A child that is being replaced is down, a monitor that goes on has not  *)
(* used up its restarts, os.environ between a write and its copy names the *)
(* writer unless it was written over, and a camera stop() has passed       *)
(* uneventfully has a monitor that can only see the exit.                  *)
(*                                                                         *)
(* The streamer: the handle is the last child spawned or None.  Only       *)
(* stop() can set it to None over a live child, when a respawn came        *)
(* between its wait and its finally clause, and then _running is already   *)
(* reset: the push thread is at the top of its loop and will not           *)
(* reconnect over that child.                                              *)
(***************************************************************************)
EXTENDS CameraQueues, ResilientReader, PPHumanPipeline, MediaMTXStreamer,
        FiniteSetTheorems, SequenceTheorems, TLAPS

-----------------------------------------------------------------------------
(* The queues of a camera. *)

(* The frames that have left the drain thread. *)
Passed == collected \o downstream

(* A frame the worker is still putting is not yet in the line. *)
Before(x) == IF workerStep = "next" THEN x <= frames ELSE x < frames

InHandInLine ==
    inHand # 0 => /\ Before(inHand)
                  /\ \A j \in DOMAIN upstream : inHand < upstream[j]

UpstreamInLine ==
    Increasing(upstream) /\ \A j \in DOMAIN upstream : Before(upstream[j])

PassedInLine ==
    /\ Increasing(Passed)
    /\ \A i \in DOMAIN Passed :
          /\ Before(Passed[i])
          /\ inHand # 0 => Passed[i] < inHand
          /\ \A j \in DOMAIN upstream : Passed[i] < upstream[j]

WorkerHasFrame == workerStep # "next" => frames # 0

QueuesInv ==
    /\ QueuesTypeOK /\ WorkerHasFrame
    /\ PassedInLine /\ InHandInLine /\ UpstreamInLine

-----------------------------------------------------------------------------
(* A larger number at the end of an increasing sequence. *)
LEMMA AppendIncreasing ==
  ASSUME NEW s \in Seq(Nat), Increasing(s), NEW x \in Nat,
         \A i \in DOMAIN s : s[i] < x
  PROVE  Increasing(Append(s, x))
BY DEF Increasing

(* An increasing sequence without its head; the head is the least. *)
LEMMA TailIncreasing ==
  ASSUME NEW s \in Seq(Nat), Increasing(s), s # <<>>
  PROVE  /\ Increasing(Tail(s))
         /\ \A i \in DOMAIN Tail(s) : i + 1 \in DOMAIN s /\ Tail(s)[i] = s[i + 1]
         /\ \A i \in DOMAIN Tail(s) : Head(s) < Tail(s)[i]
BY DEF Increasing

(* stream() takes the head of the second queue: the line is the same. *)
LEMMA MoveHead ==
  ASSUME NEW S, NEW a \in Seq(S), NEW b \in Seq(S), b # <<>>
  PROVE  Append(a, Head(b)) \o Tail(b) = a \o b
<1>1. Append(a, Head(b)) \in Seq(S) /\ Tail(b) \in Seq(S)
  OBVIOUS
<1>2. DOMAIN (Append(a, Head(b)) \o Tail(b)) = DOMAIN (a \o b)
  BY <1>1
<1>3. \A i \in DOMAIN (a \o b) : (Append(a, Head(b)) \o Tail(b))[i] = (a \o b)[i]
  BY <1>1
<1>4. Append(a, Head(b)) \o Tail(b) \in Seq(S) /\ a \o b \in Seq(S)
  BY <1>1
<1> QED
  BY <1>2, <1>3, <1>4

(* A frame goes to the end of the second queue. *)
LEMMA AppendToEnd ==
  ASSUME NEW S, NEW a \in Seq(S), NEW b \in Seq(S), NEW x \in S
  PROVE  a \o Append(b, x) = Append(a \o b, x)
<1>1. Append(b, x) \in Seq(S) /\ a \o b \in Seq(S)
  OBVIOUS
<1>2. DOMAIN (a \o Append(b, x)) = DOMAIN Append(a \o b, x)
  BY <1>1
<1>3. \A i \in DOMAIN (a \o Append(b, x)) : (a \o Append(b, x))[i] = Append(a \o b, x)[i]
  BY <1>1
<1>4. a \o Append(b, x) \in Seq(S) /\ Append(a \o b, x) \in Seq(S)
  BY <1>1
<1> QED
  BY <1>2, <1>3, <1>4

(* Frames are numbers. *)
LEMMA FramesAreNumbers ==
  ASSUME QueuesTypeOK
  PROVE  /\ upstream \in Seq(Nat) /\ Passed \in Seq(Nat) /\ inHand \in Nat
         /\ frames \in Nat
<1>1. Frames \subseteq Nat
  BY DEF Frames
<1>2. upstream \in Seq(Nat) /\ collected \in Seq(Nat) /\ downstream \in Seq(Nat)
  BY <1>1, SeqMonotonic DEF QueuesTypeOK
<1> QED
  BY <1>2 DEF QueuesTypeOK, Passed

-----------------------------------------------------------------------------
(* Both queues are empty at first. *)
LEMMA QueuesStart == QueuesInit => QueuesInv
<1> SUFFICES ASSUME QueuesInit PROVE QueuesInv
  OBVIOUS
<1>1. QueuesTypeOK
  <2>1. <<>> \in Seq(Frames) /\ Len(<<>>) <= QueueSize
    BY QueueAssumption
  <2>2. /\ frames \in 0..MaxFrames /\ inHand \in 0..MaxFrames /\ drops \in Nat
        /\ workerStep \in {"next", "put", "evict", "retry"}
    BY QueueAssumption DEF QueuesInit
  <2>3. dropPolicy \in Policies /\ running \subseteq Loops /\ stopSet \in BOOLEAN
    BY DEF QueuesInit
  <2> QED
    BY <2>1, <2>2, <2>3 DEF QueuesInit, QueuesTypeOK
<1>2. Passed = <<>>
  BY DEF QueuesInit, Passed
<1>3. PassedInLine /\ UpstreamInLine
  BY <1>2 DEF QueuesInit, PassedInLine, UpstreamInLine, Increasing
<1>4. InHandInLine /\ WorkerHasFrame
  BY DEF QueuesInit, InHandInLine, WorkerHasFrame
<1> QED
  BY <1>1, <1>3, <1>4 DEF QueuesInv

(* The worker: a new number is larger than all before it. *)
LEMMA WorkerSteps ==
  ASSUME QueuesInv, CameraWorker
  PROVE  QueuesInv'
<1> USE QueueAssumption
<1>0. /\ upstream \in Seq(Nat) /\ Passed \in Seq(Nat) /\ inHand \in Nat
      /\ frames \in Nat
  BY FramesAreNumbers DEF QueuesInv
<1>1. CASE ProduceFrame
  <2>1. QueuesTypeOK' /\ WorkerHasFrame'
    BY <1>1 DEF ProduceFrame, QueuesInv, QueuesTypeOK, WorkerHasFrame
  <2>2. Passed' = Passed /\ upstream' = upstream /\ inHand' = inHand
    BY <1>1 DEF ProduceFrame, Passed
  <2>3. \A x \in Nat : Before(x) => Before(x)'
    BY <1>0, <1>1 DEF ProduceFrame, Before
  <2> HIDE DEF Before
  <2>4. PassedInLine' /\ InHandInLine' /\ UpstreamInLine'
    BY <1>0, <2>2, <2>3 DEF QueuesInv, PassedInLine, InHandInLine, UpstreamInLine
  <2> QED
    BY <2>1, <2>4 DEF QueuesInv
<1>2. CASE WorkerEnds \/ PutRefused
  <2>1. QueuesTypeOK' /\ WorkerHasFrame'
    BY <1>2 DEF WorkerEnds, PutRefused, QueuesInv, QueuesTypeOK, WorkerHasFrame
  <2>2. Passed' = Passed /\ upstream' = upstream /\ inHand' = inHand
    BY <1>2 DEF WorkerEnds, PutRefused, Passed
  <2>3. \A x \in Nat : Before(x) => Before(x)'
    BY <1>0, <1>2 DEF WorkerEnds, PutRefused, Before
  <2>4. PassedInLine' /\ InHandInLine' /\ UpstreamInLine'
    BY <1>0, <2>2, <2>3 DEF QueuesInv, PassedInLine, InHandInLine, UpstreamInLine
  <2> QED
    BY <2>1, <2>4 DEF QueuesInv
<1>3. CASE PutFrame \/ RetryPut
  <2>1. frames \in Frames
    BY <1>3 DEF PutFrame, RetryPut, QueuesInv, QueuesTypeOK, WorkerHasFrame, Frames
  <2>2. QueuesTypeOK' /\ WorkerHasFrame'
    <3>1. upstream' \in Seq(Frames) /\ Len(upstream') <= QueueSize
      <4>1. upstream \in Seq(Frames) /\ Len(upstream) <= QueueSize /\ Len(upstream) \in Nat
        BY DEF QueuesInv, QueuesTypeOK
      <4>2. \/ upstream' = upstream
            \/ upstream' = Append(upstream, frames) /\ Len(upstream) < QueueSize
        BY <1>3 DEF PutFrame, RetryPut
      <4> QED
        BY <2>1, <4>1, <4>2
    <3>2. drops' \in Nat /\ workerStep' = "next"
      BY <1>3 DEF PutFrame, RetryPut, QueuesInv, QueuesTypeOK
    <3> QED
      BY <1>3, <3>1, <3>2
         DEF PutFrame, RetryPut, QueuesInv, QueuesTypeOK, WorkerHasFrame
  <2>3. /\ Passed' = Passed /\ inHand' = inHand /\ frames' = frames
        /\ workerStep # "next" /\ workerStep' = "next"
        /\ upstream' = Append(upstream, frames) \/ upstream' = upstream
    BY <1>3 DEF PutFrame, RetryPut, Passed
  <2>4. \A x \in Nat : Before(x) => x < frames /\ Before(x)'
    BY <1>0, <2>3 DEF Before
  <2>5. Before(frames)'
    BY <1>0, <2>3 DEF Before
  <2>6. UpstreamInLine'
    <3>1. CASE upstream' = upstream
      BY <1>0, <2>4, <3>1 DEF QueuesInv, UpstreamInLine
    <3>2. CASE upstream' = Append(upstream, frames)
      <4>1. \A j \in DOMAIN upstream : upstream[j] \in Nat /\ upstream[j] < frames
        BY <1>0, <2>4 DEF QueuesInv, UpstreamInLine
      <4>2. Increasing(upstream')
        BY <1>0, <3>2, <4>1, AppendIncreasing DEF QueuesInv, UpstreamInLine
      <4>3. \A j \in DOMAIN upstream' : (j \in DOMAIN upstream /\ upstream'[j] = upstream[j])
                                        \/ upstream'[j] = frames
        BY <1>0, <3>2
      <4>4. \A j \in DOMAIN upstream' : upstream'[j] <= frames'
        BY <1>0, <2>3, <4>1, <4>3
      <4> QED
        BY <2>3, <4>2, <4>4 DEF UpstreamInLine, Before
    <3> QED
      BY <2>3, <3>1, <3>2
  <2>7. \A j \in DOMAIN upstream' : (j \in DOMAIN upstream /\ upstream'[j] = upstream[j])
                                    \/ upstream'[j] = frames
    <3>1. CASE upstream' = upstream
      BY <3>1
    <3>2. CASE upstream' = Append(upstream, frames)
      BY <1>0, <3>2
    <3> QED
      BY <2>3, <3>1, <3>2
  <2>8. InHandInLine'
    BY <1>0, <2>3, <2>4, <2>7 DEF QueuesInv, InHandInLine
  <2>9. PassedInLine'
    BY <1>0, <2>3, <2>4, <2>7 DEF QueuesInv, PassedInLine
  <2> QED
    BY <2>2, <2>6, <2>8, <2>9 DEF QueuesInv
<1>4. CASE EvictOldest
  <2>1. QueuesTypeOK' /\ WorkerHasFrame'
    BY <1>4 DEF EvictOldest, QueuesInv, QueuesTypeOK, WorkerHasFrame
  <2>2. /\ Passed' = Passed /\ inHand' = inHand
        /\ upstream' = upstream \/ (upstream # <<>> /\ upstream' = Tail(upstream))
    BY <1>4 DEF EvictOldest, Passed
  <2>3. \A x \in Nat : Before(x) => Before(x)'
    BY <1>0, <1>4 DEF EvictOldest, Before
  <2>4. CASE upstream' = upstream
    BY <1>0, <2>1, <2>2, <2>3, <2>4
       DEF QueuesInv, PassedInLine, InHandInLine, UpstreamInLine
  <2>5. CASE upstream # <<>> /\ upstream' = Tail(upstream)
    <3>1. /\ Increasing(upstream')
          /\ \A i \in DOMAIN upstream' : i + 1 \in DOMAIN upstream
                                         /\ upstream'[i] = upstream[i + 1]
      BY <1>0, <2>5, TailIncreasing DEF QueuesInv, UpstreamInLine
    <3>2. UpstreamInLine'
      BY <1>0, <2>3, <3>1 DEF QueuesInv, UpstreamInLine
    <3>3. InHandInLine'
      BY <1>0, <2>2, <2>3, <3>1 DEF QueuesInv, InHandInLine
    <3>4. PassedInLine'
      BY <1>0, <2>2, <2>3, <3>1 DEF QueuesInv, PassedInLine
    <3> QED
      BY <2>1, <3>2, <3>3, <3>4 DEF QueuesInv
  <2> QED
    BY <2>2, <2>4, <2>5
<1> QED
  BY <1>1, <1>2, <1>3, <1>4 DEF CameraWorker

(* The drain thread: the frame in its hand is the oldest of those that have not
   passed. *)
LEMMA DrainSteps ==
  ASSUME QueuesInv, Drain
  PROVE  QueuesInv'
<1> USE QueueAssumption
<1>0. /\ upstream \in Seq(Nat) /\ Passed \in Seq(Nat) /\ inHand \in Nat
      /\ frames \in Nat
  BY FramesAreNumbers DEF QueuesInv
<1>1. CASE DrainFrame
  <2>0. upstream # <<>> /\ upstream' = Tail(upstream) /\ inHand' = Head(upstream)
        /\ Passed' = Passed /\ frames' = frames /\ workerStep' = workerStep
    BY <1>1 DEF DrainFrame, Passed
  <2>1. 1 \in DOMAIN upstream /\ Head(upstream) = upstream[1]
    BY <1>0, <2>0
  <2>2. QueuesTypeOK' /\ WorkerHasFrame'
    <3>1. Head(upstream) \in Frames /\ Tail(upstream) \in Seq(Frames)
          /\ Len(Tail(upstream)) <= QueueSize
      BY <2>0, HeadTailProperties, LenProperties DEF QueuesInv, QueuesTypeOK
    <3>2. drained' \in Seq(Frames)
      BY <1>1, <3>1 DEF DrainFrame, QueuesInv, QueuesTypeOK
    <3>3. Head(upstream) \in 0..MaxFrames
      BY <3>1 DEF Frames
    <3> QED
      BY <1>1, <3>1, <3>2, <3>3
         DEF DrainFrame, QueuesInv, QueuesTypeOK, WorkerHasFrame
  <2>3. /\ Increasing(upstream')
        /\ \A i \in DOMAIN upstream' : i + 1 \in DOMAIN upstream
                                       /\ upstream'[i] = upstream[i + 1]
        /\ \A i \in DOMAIN upstream' : inHand' < upstream'[i]
    BY <1>0, <2>0, TailIncreasing DEF QueuesInv, UpstreamInLine
  <2>4. UpstreamInLine'
    BY <1>0, <2>0, <2>3 DEF QueuesInv, UpstreamInLine, Before
  <2>5. InHandInLine'
    BY <1>0, <2>0, <2>1, <2>3 DEF QueuesInv, UpstreamInLine, InHandInLine, Before
  <2>6. PassedInLine'
    BY <1>0, <2>0, <2>1, <2>3 DEF QueuesInv, PassedInLine, Before
  <2> QED
    BY <2>2, <2>4, <2>5, <2>6 DEF QueuesInv
<1>2. CASE PassOn
  <2>0. /\ inHand # 0 /\ inHand' = 0 /\ upstream' = upstream /\ frames' = frames
        /\ workerStep' = workerStep /\ collected' = collected
        /\ \/ downstream' = downstream
           \/ downstream' = Append(downstream, inHand) /\ Len(downstream) < QueueSize
    BY <1>2 DEF PassOn
  <2>1. inHand \in Frames
    BY <2>0 DEF QueuesInv, QueuesTypeOK, Frames
  <2>2. QueuesTypeOK' /\ WorkerHasFrame'
    <3>1. downstream' \in Seq(Frames) /\ Len(downstream') <= QueueSize
      <4>1. /\ downstream \in Seq(Frames) /\ Len(downstream) <= QueueSize
            /\ Len(downstream) \in Nat
        BY DEF QueuesInv, QueuesTypeOK
      <4> QED
        BY <2>0, <2>1, <4>1
    <3> QED
      BY <1>2, <2>0, <3>1 DEF PassOn, QueuesInv, QueuesTypeOK, WorkerHasFrame
  <2>3. Passed' = Passed \/ Passed' = Append(Passed, inHand)
    <3>1. collected \in Seq(Frames) /\ downstream \in Seq(Frames)
      BY DEF QueuesInv, QueuesTypeOK
    <3>2. CASE downstream' = downstream
      BY <2>0, <3>2 DEF Passed
    <3>3. CASE downstream' = Append(downstream, inHand)
      <4>1. collected \o Append(downstream, inHand) = Append(collected \o downstream, inHand)
        BY <2>1, <3>1, AppendToEnd
      <4> QED
        BY <2>0, <3>3, <4>1 DEF Passed
    <3> QED
      BY <2>0, <3>2, <3>3
  <2>4. UpstreamInLine' /\ InHandInLine'
    BY <2>0 DEF QueuesInv, UpstreamInLine, InHandInLine, Before
  <2>5. PassedInLine'
    <3>1. CASE Passed' = Passed
      BY <1>0, <2>0, <3>1 DEF QueuesInv, PassedInLine, Before
    <3>2. CASE Passed' = Append(Passed, inHand)
      <4>1. \A i \in DOMAIN Passed : Passed[i] < inHand
        BY <2>0 DEF QueuesInv, PassedInLine
      <4>2. Increasing(Passed')
        BY <1>0, <3>2, <4>1, AppendIncreasing DEF QueuesInv, PassedInLine
      <4>3. \A i \in DOMAIN Passed' : (i \in DOMAIN Passed /\ Passed'[i] = Passed[i])
                                      \/ Passed'[i] = inHand
        BY <1>0, <3>2
      <4> QED
        BY <1>0, <2>0, <4>2, <4>3 DEF QueuesInv, PassedInLine, InHandInLine, Before
    <3> QED
      BY <2>3, <3>1, <3>2
  <2> QED
    BY <2>2, <2>4, <2>5 DEF QueuesInv
<1>3. CASE DrainEnds
  BY <1>3 DEF DrainEnds, QueuesInv, QueuesTypeOK, WorkerHasFrame, PassedInLine,
              InHandInLine, UpstreamInLine, Before, Passed
<1> QED
  BY <1>1, <1>2, <1>3 DEF Drain

(* stream() and stop(): nothing enters or changes place. *)
LEMMA StreamSteps ==
  ASSUME QueuesInv, Stream \/ StopRunner
  PROVE  QueuesInv'
<1> USE QueueAssumption
<1>1. CASE StreamFrame
  <2>1. collected \in Seq(Frames) /\ downstream \in Seq(Frames) /\ downstream # <<>>
    BY <1>1 DEF StreamFrame, QueuesInv, QueuesTypeOK
  <2>2. Passed' = Passed
    BY <1>1, <2>1, MoveHead DEF StreamFrame, Passed
  <2>3. QueuesTypeOK' /\ WorkerHasFrame'
    <3>1. /\ Head(downstream) \in Frames /\ Tail(downstream) \in Seq(Frames)
          /\ Len(Tail(downstream)) <= QueueSize
      BY <2>1, HeadTailProperties, LenProperties DEF QueuesInv, QueuesTypeOK
    <3>2. collected' \in Seq(Frames)
      BY <1>1, <2>1, <3>1 DEF StreamFrame
    <3> QED
      BY <1>1, <3>1, <3>2 DEF StreamFrame, QueuesInv, QueuesTypeOK, WorkerHasFrame
  <2>4. PassedInLine' /\ InHandInLine' /\ UpstreamInLine'
    BY <1>1, <2>2
       DEF StreamFrame, QueuesInv, PassedInLine, InHandInLine, UpstreamInLine, Before
  <2> QED
    BY <2>3, <2>4 DEF QueuesInv
<1>2. CASE StreamEnds \/ StopRunner
  BY <1>2 DEF StreamEnds, StopRunner, QueuesInv, QueuesTypeOK, WorkerHasFrame,
              PassedInLine, InHandInLine, UpstreamInLine, Before, Passed
<1> QED
  BY <1>1, <1>2 DEF Stream

(* Every step keeps the invariant. *)
LEMMA QueuesStep == QueuesInv /\ [QueuesNext]_queueVars => QueuesInv'
<1> SUFFICES ASSUME QueuesInv, [QueuesNext]_queueVars PROVE QueuesInv'
  OBVIOUS
<1>1. CASE UNCHANGED queueVars
  BY <1>1 DEF queueVars, QueuesInv, QueuesTypeOK, WorkerHasFrame, PassedInLine,
              InHandInLine, UpstreamInLine, Before, Passed
<1>2. CASE QueuesNext
  BY <1>2, WorkerSteps, DrainSteps, StreamSteps DEF QueuesNext
<1> QED
  BY <1>1, <1>2

(* The invariant holds of every reachable state. *)
THEOREM QueuesCorrect == QueuesSpec => []QueuesInv
<1> QED
  BY QueuesStart, QueuesStep, PTL DEF QueuesSpec

(* The variables keep their types: neither queue exceeds its size. *)
THEOREM QueuesTypes == QueuesSpec => []QueuesTypeOK
<1>1. QueuesInv => QueuesTypeOK
  BY DEF QueuesInv
<1> QED
  BY <1>1, QueuesCorrect, PTL

(* The collector receives a camera's frames in order, none of them twice.
   (_run_worker, _drain_to_streamers, stream) *)
THEOREM FramesStayInOrder == QueuesSpec => []FramesInOrder
<1>1. QueuesInv => FramesInOrder
  BY DEF QueuesInv, PassedInLine, Passed, FramesInOrder
<1> QED
  BY <1>1, QueuesCorrect, PTL

(* What the drain thread took is older than what the worker is putting. *)
DrainedInLine == \A i \in DOMAIN drained : Before(drained[i])

(* A refused frame of drop_newest is counted before the eviction makes good for
   it, and the room the eviction makes is there until the put. *)
Counted ==
    /\ IsFiniteSet(LostUpstream)
    /\ workerStep = "evict" => Cardinality(LostUpstream) + 1 <= drops
    /\ workerStep # "evict" => Cardinality(LostUpstream) <= drops
    /\ workerStep = "retry" => Len(upstream) < QueueSize
    /\ dropPolicy # "drop_newest" =>
          drops = Cardinality(LostUpstream) /\ workerStep \in {"next", "put"}

CountInv == DrainedInLine /\ Counted

(* One element more. *)
LEMMA CardinalityAdd ==
  ASSUME NEW A, IsFiniteSet(A), NEW x
  PROVE  /\ IsFiniteSet(A \union {x}) /\ Cardinality(A) \in Nat
         /\ Cardinality(A \union {x}) \in Nat
         /\ Cardinality(A \union {x}) <= Cardinality(A) + 1
         /\ x \notin A => Cardinality(A \union {x}) = Cardinality(A) + 1
<1>1. IsFiniteSet(A \union {x}) /\ Cardinality(A) \in Nat
  BY FS_AddElement, FS_CardinalityType
<1>2. Cardinality(A \union {x}) = IF x \in A THEN Cardinality(A) ELSE Cardinality(A) + 1
  BY FS_AddElement
<1> QED
  BY <1>1, <1>2

(* The frames the worker's queue holds, and those the drain thread took. *)
Elements(s) == {s[i] : i \in DOMAIN s}
Held == Elements(upstream)
Took == Elements(drained)

LEMMA LostIs == LostUpstream = {f \in 1..frames : /\ f \notin Took /\ f \notin Held
                                                  /\ f = frames => workerStep = "next"}
BY DEF LostUpstream, Held, Took, Elements

LEMMA LostNext == LostUpstream' = {f \in 1..frames' : /\ f \notin Took' /\ f \notin Held'
                                                      /\ f = frames' => workerStep' = "next"}
BY DEF LostUpstream, Held, Took, Elements

LEMMA HeldNext == Held' = Elements(upstream') /\ Took' = Elements(drained')
BY DEF Held, Took, Elements

LEMMA ElementsAppend ==
  ASSUME NEW S, NEW s \in Seq(S), NEW e \in S
  PROVE  Elements(Append(s, e)) = Elements(s) \union {e}
<1>1. /\ DOMAIN s = 1..Len(s) /\ Len(s) \in Nat /\ DOMAIN Append(s, e) = 1..(Len(s) + 1)
      /\ \A i \in 1..Len(s) : Append(s, e)[i] = s[i]
      /\ Append(s, e)[Len(s) + 1] = e
  OBVIOUS
<1>2. /\ \A i \in 1..(Len(s) + 1) : i \in 1..Len(s) \/ i = Len(s) + 1
      /\ \A i \in 1..Len(s) : i \in 1..(Len(s) + 1)
      /\ Len(s) + 1 \in 1..(Len(s) + 1)
  BY <1>1
<1>3. Elements(s) \union {e} \subseteq Elements(Append(s, e))
  BY <1>1, <1>2 DEF Elements
<1>4. Elements(Append(s, e)) \subseteq Elements(s) \union {e}
  BY <1>1, <1>2 DEF Elements
<1> QED
  BY <1>3, <1>4

LEMMA ElementsTail ==
  ASSUME NEW S, NEW s \in Seq(S), s # <<>>
  PROVE  Elements(s) = Elements(Tail(s)) \union {Head(s)}
<1>1. /\ DOMAIN s = 1..Len(s) /\ Len(s) \in Nat \ {0} /\ DOMAIN Tail(s) = 1..(Len(s) - 1)
      /\ \A i \in 1..(Len(s) - 1) : Tail(s)[i] = s[i + 1]
      /\ Head(s) = s[1]
  OBVIOUS
<1>2. /\ \A i \in 1..Len(s) : i = 1 \/ (i - 1 \in 1..(Len(s) - 1) /\ (i - 1) + 1 = i)
      /\ \A i \in 1..(Len(s) - 1) : i + 1 \in 1..Len(s)
      /\ 1 \in 1..Len(s)
  BY <1>1
<1>3. \A i \in DOMAIN s : s[i] = Head(s) \/ \E j \in DOMAIN Tail(s) : Tail(s)[j] = s[i]
  <2> SUFFICES ASSUME NEW i \in 1..Len(s), i # 1
               PROVE  i - 1 \in 1..(Len(s) - 1) /\ Tail(s)[i - 1] = s[i]
    BY <1>1
  <2> QED
    BY <1>1, <1>2
<1>4. Elements(s) \subseteq Elements(Tail(s)) \union {Head(s)}
  BY <1>3 DEF Elements
<1>5. Elements(Tail(s)) \union {Head(s)} \subseteq Elements(s)
  BY <1>1, <1>2 DEF Elements
<1> QED
  BY <1>4, <1>5

(* The frame being put is in neither, and all others are older. *)
LEMMA NewestIs ==
  ASSUME QueuesInv, DrainedInLine
  PROVE  /\ frames \in Nat
         /\ \A f \in Held \union Took :
               f \in Nat /\ f <= frames /\ (workerStep # "next" => f # frames)
<1>1. upstream \in Seq(Frames) /\ drained \in Seq(Frames) /\ frames \in Nat /\ Frames \subseteq Nat
  BY DEF QueuesInv, QueuesTypeOK, Frames
<1>2. \A i \in DOMAIN upstream : upstream[i] \in Nat /\ Before(upstream[i])
  BY <1>1, LenProperties, ElementOfSeq DEF QueuesInv, UpstreamInLine
<1>3. \A i \in DOMAIN drained : drained[i] \in Nat /\ Before(drained[i])
  BY <1>1, LenProperties, ElementOfSeq DEF DrainedInLine
<1>4. \A f \in Held \union Took : f \in Nat /\ Before(f)
  BY <1>2, <1>3 DEF Held, Took, Elements
<1> QED
  BY <1>1, <1>4 DEF Before

LEMMA CountStep ==
  ASSUME QueuesInv, CountInv, [QueuesNext]_queueVars
  PROVE  CountInv'
<1> USE QueueAssumption
<1>0. /\ upstream \in Seq(Frames) /\ drained \in Seq(Frames) /\ frames \in Nat /\ drops \in Nat
      /\ Len(upstream) \in Nat /\ Len(upstream) <= QueueSize
      /\ dropPolicy \in Policies
      /\ DrainedInLine /\ Counted
      /\ WorkerHasFrame
  BY DEF QueuesInv, QueuesTypeOK, CountInv
<1>1. \A f \in Held \union Took :
         f \in Nat /\ f <= frames /\ (workerStep # "next" => f # frames)
  BY <1>0, NewestIs
<1>2. IsFiniteSet(LostUpstream) /\ Cardinality(LostUpstream) \in Nat
  BY <1>0, FS_CardinalityType DEF Counted
<1>3. ASSUME LostUpstream' = LostUpstream, UNCHANGED <<drops, dropPolicy>>, drained' = drained,
             \A x \in Nat : Before(x) => Before(x)',
             workerStep' \in {"next", "put"} \/ workerStep' = workerStep,
             workerStep # "evict" \/ workerStep' = "evict",
             workerStep' = "retry" => Len(upstream') <= Len(upstream) /\ Len(upstream') \in Nat
      PROVE  CountInv'
  <2>1. DrainedInLine'
    <3>1. \A i \in DOMAIN drained : drained[i] \in Nat
      BY <1>1 DEF Took, Elements
    <3> QED
      BY <1>0, <1>3, <3>1 DEF DrainedInLine
  <2>2. Counted'
    BY <1>0, <1>2, <1>3 DEF Counted
  <2> QED
    BY <2>1, <2>2 DEF CountInv
<1>4. CASE UNCHANGED queueVars \/ PassOn \/ DrainEnds \/ Stream \/ StopRunner \/ WorkerEnds
  <2>1. UNCHANGED <<frames, upstream, drained, workerStep, drops, dropPolicy>>
    BY <1>4 DEF queueVars, PassOn, DrainEnds, Stream, StreamFrame, StreamEnds, StopRunner, WorkerEnds
  <2>2. LostUpstream' = LostUpstream
    BY <2>1 DEF LostUpstream
  <2>3. \A x \in Nat : Before(x) => Before(x)'
    BY <2>1 DEF Before
  <2> QED
    BY <1>0, <1>3, <2>1, <2>2, <2>3
<1>5. CASE ProduceFrame
  <2>1. /\ frames' = frames + 1 /\ workerStep = "next" /\ workerStep' = "put"
        /\ UNCHANGED <<upstream, drained, drops, dropPolicy>>
    BY <1>5 DEF ProduceFrame
  <2>2. Held' = Held /\ Took' = Took
    BY <2>1 DEF Held, Took
  <2>3. 1..frames' = 1..frames \union {frames'} /\ frames' \notin 1..frames
    BY <1>0, <2>1
  <2>4. LostUpstream = {f \in 1..frames : f \notin Took /\ f \notin Held}
    BY <2>1, LostIs
  <2>5. LostUpstream' = {f \in 1..frames' : f \notin Took /\ f \notin Held /\ f # frames'}
    BY <2>1, <2>2, LostNext
  <2>6. LostUpstream' = LostUpstream
    BY <2>3, <2>4, <2>5
  <2>7. \A x \in Nat : Before(x) => Before(x)'
    BY <1>0, <2>1 DEF Before
  <2> QED
    BY <1>3, <2>1, <2>6, <2>7
<1>6. ASSUME workerStep # "next", workerStep # "evict", upstream' = Append(upstream, frames),
             workerStep' = "next", UNCHANGED <<frames, drained, drops, dropPolicy>>
      PROVE  CountInv'
  <2>1. frames \in Frames
    BY <1>6 DEF QueuesInv, QueuesTypeOK, WorkerHasFrame, Frames
  <2>2. Held' = Held \union {frames} /\ Took' = Took
    BY <1>0, <1>6, <2>1, ElementsAppend, HeldNext DEF Held, Took
  <2>3. LostUpstream = {f \in 1..frames : f \notin Took /\ f \notin Held /\ f # frames}
    BY <1>6, LostIs
  <2>4. LostUpstream' = {f \in 1..frames : f \notin Took /\ f \notin Held \union {frames}}
    BY <1>6, <2>2, LostNext
  <2>5. LostUpstream' = LostUpstream
    BY <2>3, <2>4
  <2>6. \A x \in Nat : Before(x) => Before(x)'
    BY <1>0, <1>6 DEF Before
  <2> QED
    BY <1>3, <1>6, <2>5, <2>6
<1>7. CASE PutFrame
  BY <1>6, <1>7 DEF PutFrame
<1>8. CASE RetryPut
  BY <1>0, <1>6, <1>8 DEF RetryPut, Counted
<1>9. CASE PutRefused
  <2>1. /\ workerStep = "put" /\ drops' = drops + 1
        /\ workerStep' = IF dropPolicy = "drop_newest" THEN "evict" ELSE "next"
        /\ UNCHANGED <<frames, upstream, drained, dropPolicy>>
    BY <1>9 DEF PutRefused
  <2>2. Held' = Held /\ Took' = Took
    BY <2>1 DEF Held, Took
  <2>3. DrainedInLine'
    BY <1>0, <1>1, <2>1 DEF DrainedInLine, Before, Took, Elements
  <2>4. LostUpstream = {f \in 1..frames : f \notin Took /\ f \notin Held /\ f # frames}
    BY <2>1, LostIs
  <2>5. CASE dropPolicy = "drop_newest"
    <3>1. LostUpstream' = {f \in 1..frames : f \notin Took /\ f \notin Held /\ f # frames}
      BY <2>1, <2>2, <2>5, LostNext
    <3> QED
      BY <1>0, <1>2, <2>1, <2>3, <2>4, <2>5, <3>1 DEF CountInv, Counted
  <2>6. CASE dropPolicy # "drop_newest"
    <3>1. LostUpstream' = {f \in 1..frames : f \notin Took /\ f \notin Held}
      BY <2>1, <2>2, <2>6, LostNext
    <3>2. frames \in 1..frames /\ frames \notin Took /\ frames \notin Held
      BY <1>0, <1>1, <2>1 DEF WorkerHasFrame
    <3>3. LostUpstream' = LostUpstream \union {frames} /\ frames \notin LostUpstream
      BY <2>4, <3>1, <3>2
    <3>4. IsFiniteSet(LostUpstream') /\ Cardinality(LostUpstream') = Cardinality(LostUpstream) + 1
      BY <1>2, <3>3, CardinalityAdd
    <3> QED
      BY <1>0, <1>2, <2>1, <2>3, <2>6, <3>4 DEF CountInv, Counted
  <2> QED
    BY <2>5, <2>6
<1>10. CASE EvictOldest
  <2>1. /\ workerStep = "evict" /\ workerStep' = "retry"
        /\ upstream' = IF upstream = <<>> THEN upstream ELSE Tail(upstream)
        /\ UNCHANGED <<frames, drained, drops, dropPolicy>>
    BY <1>10 DEF EvictOldest
  <2>2. DrainedInLine'
    BY <1>0, <2>1 DEF DrainedInLine, Before
  <2>3. PICK h : Held \subseteq Held' \union {h}
    <3>1. CASE upstream = <<>>
      BY <2>1, <3>1 DEF Held
    <3>2. CASE upstream # <<>>
      BY <1>0, <2>1, <3>2, ElementsTail, HeldNext DEF Held
    <3> QED
      BY <3>1, <3>2
  <2>4. Took' = Took
    BY <2>1 DEF Took
  <2>5. LostUpstream = {f \in 1..frames : f \notin Took /\ f \notin Held /\ f # frames}
    BY <2>1, LostIs
  <2>6. LostUpstream' = {f \in 1..frames : f \notin Took /\ f \notin Held' /\ f # frames}
    BY <2>1, <2>4, LostNext
  <2>7. LostUpstream' \subseteq LostUpstream \union {h}
    BY <2>3, <2>5, <2>6
  <2>8. IsFiniteSet(LostUpstream') /\ Cardinality(LostUpstream') <= Cardinality(LostUpstream) + 1
    <3>1. /\ IsFiniteSet(LostUpstream \union {h}) /\ Cardinality(LostUpstream \union {h}) \in Nat
          /\ Cardinality(LostUpstream \union {h}) <= Cardinality(LostUpstream) + 1
      BY <1>2, CardinalityAdd
    <3>2. /\ IsFiniteSet(LostUpstream')
          /\ Cardinality(LostUpstream') <= Cardinality(LostUpstream \union {h})
      BY <2>7, <3>1, FS_Subset
    <3> QED
      BY <1>2, <3>1, <3>2, FS_CardinalityType
  <2>9. Len(upstream') < QueueSize
    <3>1. CASE upstream = <<>>
      BY <2>1, <3>1
    <3>2. CASE upstream # <<>>
      BY <1>0, <2>1, <3>2, HeadTailProperties
    <3> QED
      BY <3>1, <3>2
  <2>10. Cardinality(LostUpstream') <= drops /\ dropPolicy = "drop_newest"
    <3>1. Cardinality(LostUpstream) + 1 <= drops /\ dropPolicy = "drop_newest"
      BY <1>0, <2>1 DEF Counted
    <3> QED
      BY <1>0, <1>2, <2>8, <3>1, FS_CardinalityType
  <2> QED
    BY <2>1, <2>2, <2>8, <2>9, <2>10 DEF CountInv, Counted
<1>11. CASE DrainFrame
  <2>1. /\ upstream # <<>> /\ upstream' = Tail(upstream)
        /\ drained' = Append(drained, Head(upstream))
        /\ UNCHANGED <<frames, workerStep, drops, dropPolicy>>
    BY <1>11 DEF DrainFrame
  <2>2. /\ Head(upstream) \in Frames /\ Len(upstream') \in Nat /\ Len(upstream') <= Len(upstream)
    BY <1>0, <2>1, HeadTailProperties
  <2>3. Held = Held' \union {Head(upstream)}
    BY <1>0, <2>1, ElementsTail, HeldNext DEF Held
  <2>4. Took' = Took \union {Head(upstream)}
    BY <1>0, <2>1, <2>2, ElementsAppend, HeldNext DEF Took
  <2>5. LostUpstream' = {f \in 1..frames : /\ f \notin Took' /\ f \notin Held'
                                           /\ f = frames => workerStep = "next"}
    BY <2>1, LostNext
  <2>6. LostUpstream' = LostUpstream
    BY <2>3, <2>4, <2>5, LostIs
  <2>7. DrainedInLine'
    <3>1. \A f \in Took' : f <= frames' /\ (workerStep' # "next" => f < frames')
      BY <1>0, <1>1, <2>1, <2>3, <2>4
    <3>2. \A i \in DOMAIN drained' : drained'[i] \in Took'
      BY DEF Took, Elements
    <3> QED
      BY <3>1, <3>2 DEF DrainedInLine, Before
  <2>8. Counted'
    BY <1>0, <2>1, <2>2, <2>6 DEF Counted
  <2> QED
    BY <2>7, <2>8 DEF CountInv
<1> QED
  BY <1>4, <1>5, <1>7, <1>8, <1>9, <1>10, <1>11 DEF QueuesNext, CameraWorker, Drain

(* The counter never hides a frame the worker's queue lost, and counts exactly
   those but under drop_newest.  (_put_with_policy) *)
THEOREM LossesAreCounted == QueuesSpec => []DropsAreCounted
<1>1. QueuesInit => CountInv
  <2> SUFFICES ASSUME QueuesInit PROVE CountInv
    OBVIOUS
  <2>1. LostUpstream = {} /\ drops = 0 /\ workerStep = "next" /\ drained = <<>>
    BY DEF QueuesInit, LostUpstream
  <2>2. IsFiniteSet({}) /\ Cardinality({}) = 0
    BY FS_EmptySet
  <2> QED
    BY <2>1, <2>2 DEF CountInv, Counted, DrainedInLine
<1>2. (QueuesInv /\ CountInv) /\ [QueuesNext]_queueVars => (QueuesInv /\ CountInv)'
  BY QueuesStep, CountStep
<1>3. QueuesInv /\ CountInv => DropsAreCounted
  <2> SUFFICES ASSUME QueuesInv, CountInv PROVE DropsAreCounted
    OBVIOUS
  <2>1. Cardinality(LostUpstream) \in Nat /\ drops \in Nat
    BY FS_CardinalityType DEF CountInv, Counted, QueuesInv, QueuesTypeOK
  <2> QED
    BY <2>1 DEF CountInv, Counted, DropsAreCounted
<1> QED
  BY <1>1, <1>2, <1>3, QueuesStart, PTL DEF QueuesSpec

-----------------------------------------------------------------------------
(* The reader of a live stream. *)

(* An opened reader is in its own loop, the only one that reads, and whenever a
   read can still fail no failure is on record: the one it records is new, and
   too young to change the status. *)
ReaderInv ==
    /\ ReaderTypeOK
    /\ opened => /\ status = "online"
                 /\ readerStep \in {"loop", "reconnect"}
                 /\ readerStep = "loop" /\ capture = "lost" => sinceFailure = "unset"
                 /\ capture = "open" => sinceFailure = "unset"
    /\ ~opened => readerStep \in {"open", "dark", "dark_reconnect"}
    /\ readerStep = "open" => sinceFailure = "unset" /\ status = "online"
    /\ yielded = "frame" => opened

(* Every step of the reader and of its camera keeps the invariant. *)
LEMMA ReaderStep == ReaderInv /\ [ReaderNext]_readerVars => ReaderInv'
<1> SUFFICES ASSUME ReaderInv, [ReaderNext]_readerVars PROVE ReaderInv'
  OBVIOUS
<1> USE OutagesAssumption
<1>1. CASE UNCHANGED readerVars
  BY <1>1 DEF readerVars, ReaderInv, ReaderTypeOK
<1>2. CASE CameraGoesDown
  <2>1. cameraUp' \in BOOLEAN /\ opened' \in BOOLEAN
    BY <1>2 DEF CameraGoesDown, ReaderInv, ReaderTypeOK
  <2>2. outages' \in 0..MaxOutages /\ capture' \in {"none", "open", "lost"}
    BY <1>2 DEF CameraGoesDown, ReaderInv, ReaderTypeOK
  <2>3. capture' = "open" => capture = "open"
    BY <1>2 DEF CameraGoesDown
  <2>4. capture' = "lost" => capture \in {"open", "lost"}
    BY <1>2 DEF CameraGoesDown, ReaderInv, ReaderTypeOK
  <2> QED
    BY <1>2, <2>1, <2>2, <2>3, <2>4 DEF CameraGoesDown, ReaderInv, ReaderTypeOK
<1>3. CASE CameraComesUp \/ FailureAges
  <2>1. cameraUp' \in BOOLEAN /\ opened' \in BOOLEAN
    BY <1>3 DEF CameraComesUp, FailureAges, ReaderInv, ReaderTypeOK
  <2>2. sinceFailure' \in Ages /\ (sinceFailure = "unset" => sinceFailure' = "unset")
    BY <1>3 DEF CameraComesUp, FailureAges, ReaderInv, ReaderTypeOK, Ages
  <2> QED
    BY <1>3, <2>1, <2>2 DEF CameraComesUp, FailureAges, ReaderInv, ReaderTypeOK
<1>4. CASE FirstOpen
  <2>1. cameraUp' \in BOOLEAN /\ opened' \in BOOLEAN
    BY <1>4 DEF FirstOpen, ReaderInv, ReaderTypeOK
  <2>2. ~opened /\ yielded # "frame"
    BY <1>4 DEF FirstOpen, ReaderInv
  <2>3. CASE cameraUp
    <3>1. /\ readerStep' = "loop" /\ capture' = "open" /\ opened' /\ yielded' = yielded
          /\ outages' = outages /\ sinceFailure' = sinceFailure /\ status' = status
      BY <1>4, <2>3 DEF FirstOpen
    <3>2. sinceFailure = "unset" /\ status = "online"
      BY <1>4, <2>2 DEF FirstOpen, ReaderInv
    <3> QED
      BY <2>1, <2>2, <3>1, <3>2 DEF ReaderInv, ReaderTypeOK, Ages
  <2>4. CASE ~cameraUp
    BY <1>4, <2>1, <2>2, <2>4 DEF FirstOpen, ReaderInv, ReaderTypeOK, Ages
  <2> QED
    BY <2>3, <2>4
<1>5. CASE DarkYield
  BY <1>5 DEF DarkYield, RecordFailure, ReaderInv, ReaderTypeOK, Ages
<1>6. CASE DarkReconnect
  BY <1>6 DEF DarkReconnect, Reconnected, NotReconnected, ReaderInv, ReaderTypeOK, Ages
<1>7. CASE ReadFrame
  BY <1>7 DEF ReadFrame, ReaderInv, ReaderTypeOK
<1>8. CASE ReadFails
  BY <1>8 DEF ReadFails, RecordFailure, ReaderInv, ReaderTypeOK, Ages
<1>9. CASE ReconnectAfterRead
  BY <1>9 DEF ReconnectAfterRead, Reconnected, NotReconnected, ReaderInv, ReaderTypeOK, Ages
<1>10. CASE ReconnectInLoop
  BY <1>10 DEF ReconnectInLoop, Reconnected, NotReconnected, ReaderInv, ReaderTypeOK, Ages
<1> QED
  BY <1>1, <1>2, <1>3, <1>4, <1>5, <1>6, <1>7, <1>8, <1>9, <1>10 DEF ReaderNext, Reader

(* The invariant holds of every reachable state of the reader. *)
THEOREM ReaderCorrect == ReaderSpec => []ReaderInv
<1>1. ReaderInit => ReaderInv
  <2> SUFFICES ASSUME ReaderInit PROVE ReaderInv
    OBVIOUS
  <2>1. cameraUp \in BOOLEAN /\ opened \in BOOLEAN /\ ~opened
    BY DEF ReaderInit
  <2>2. outages \in 0..MaxOutages
    BY OutagesAssumption DEF ReaderInit
  <2> QED
    BY <2>1, <2>2 DEF ReaderInit, ReaderInv, ReaderTypeOK, Ages
<1> QED
  BY <1>1, ReaderStep, PTL DEF ReaderSpec

(* A reader that was opened shows "online" for good; one that was not never
   yields a frame.  (__iter__, _record_failure) *)
THEOREM FirstOpenIsFinal == ReaderSpec => []FirstOpenDecides
<1>1. ReaderInv => FirstOpenDecides
  BY DEF ReaderInv, FirstOpenDecides
<1> QED
  BY <1>1, ReaderCorrect, PTL

-----------------------------------------------------------------------------
(* The children of the PP-Human manager. *)

DownWhileReplaced == \A c \in Cams : monitor[c] \in {"respawn", "environ"} => child[c] # "up"

RestartsLeft == \A c \in Cams : monitor[c] # "ended" => restarts[c] <= MaxRestarts

OwnEnviron == \A c \in Cams : monitor[c] = "environ" /\ c \notin overlapped => environ = c

QuietAfterStop ==
    \A c \in Cams \ (toStop \union caught) : monitor[c] \in {"watch", "ended"}

(* The invariant: each clause is about one camera and what a monitor, a drain
   thread or stop() may do to it. *)
PipelineInv ==
    /\ PipelineTypeOK
    /\ DownWhileReplaced /\ RestartsLeft /\ OwnEnviron /\ QuietAfterStop
    /\ EndedIsFlagged /\ OwnCamera /\ NoChildLeftBehind

(* start() leaves every camera with a child under its own name. *)
LEMMA PipelineStarts == PipelineInit => PipelineInv
<1> SUFFICES ASSUME PipelineInit PROVE PipelineInv
  OBVIOUS
<1>1. environ \in Cams
  BY PipelineAssumption DEF PipelineInit
<1>2. PipelineTypeOK
  BY <1>1, PipelineAssumption DEF PipelineInit, PipelineTypeOK, PastPoll, Replacing
<1>3. /\ DownWhileReplaced /\ RestartsLeft /\ OwnEnviron /\ QuietAfterStop
  BY PipelineAssumption
     DEF PipelineInit, DownWhileReplaced, RestartsLeft, OwnEnviron, QuietAfterStop
<1>4. EndedIsFlagged /\ OwnCamera /\ NoChildLeftBehind
  BY DEF PipelineInit, EndedIsFlagged, OwnCamera, NoChildLeftBehind
<1> QED
  BY <1>2, <1>3, <1>4 DEF PipelineInv

(* What a child or its drain thread does. *)
LEMMA ChildSteps ==
  ASSUME PipelineInv, NEW c \in Cams, NEW rc \in {"ok", "failed"},
         ChildPrints(c) \/ ChildSilent(c) \/ DrainEof(c) \/ ChildExits(c, rc)
  PROVE  PipelineInv'
<1> USE PipelineAssumption
<1>1. PipelineTypeOK'
  BY DEF PipelineInv, PipelineTypeOK, ChildPrints, ChildSilent, DrainEof, ChildExits,
         ExitBudget, PastPoll, Replacing
<1>2. (DownWhileReplaced /\ RestartsLeft /\ OwnEnviron /\ QuietAfterStop)'
  BY DEF PipelineInv, PipelineTypeOK, DownWhileReplaced, RestartsLeft, OwnEnviron,
         QuietAfterStop, ChildPrints, ChildSilent, DrainEof, ChildExits
<1>3. (EndedIsFlagged /\ OwnCamera /\ NoChildLeftBehind)'
  BY DEF PipelineInv, PipelineTypeOK, EndedIsFlagged, OwnCamera, NoChildLeftBehind,
         ChildPrints, ChildSilent, DrainEof, ChildExits
<1> QED
  BY <1>1, <1>2, <1>3 DEF PipelineInv

(* What a monitor decides after a poll. *)
LEMMA MonitorLooks ==
  ASSUME PipelineInv, NEW c \in Cams,
         SeesExit(c) \/ SeesAlive(c) \/ SeesNoStall(c) \/ SeesStall(c)
  PROVE  PipelineInv'
<1> USE PipelineAssumption
<1> USE DEF SeesExit, SeesAlive, SeesNoStall, SeesStall
<1>1. PipelineTypeOK'
  BY DEF PipelineInv, PipelineTypeOK, PastPoll, Replacing
<1>2. (DownWhileReplaced /\ RestartsLeft /\ OwnEnviron)'
  BY DEF PipelineInv, PipelineTypeOK, DownWhileReplaced, RestartsLeft, OwnEnviron
<1>3. QuietAfterStop'
  BY DEF PipelineInv, PipelineTypeOK, QuietAfterStop, NoChildLeftBehind
<1>4. EndedIsFlagged'
  BY DEF PipelineInv, PipelineTypeOK, EndedIsFlagged
<1>5. (OwnCamera /\ NoChildLeftBehind)'
  BY DEF PipelineInv, PipelineTypeOK, OwnCamera, NoChildLeftBehind
<1> QED
  BY <1>1, <1>2, <1>3, <1>4, <1>5 DEF PipelineInv

(* A stalled child is terminated. *)
LEMMA MonitorTerminates ==
  ASSUME PipelineInv, NEW c \in Cams, TerminateStalled(c)
  PROVE  PipelineInv'
<1> USE PipelineAssumption
<1> USE DEF TerminateStalled, Kill
<1>1. PipelineTypeOK'
  <2>1. restarts' \in [Cams -> 0..(MaxRestarts + 1)]
    BY DEF PipelineInv, PipelineTypeOK, RestartsLeft
  <2>2. /\ child' \in [Cams -> {"up", "ok", "failed"}]
        /\ monitor' \in [Cams -> {"watch", "ended"} \union PastPoll]
        /\ crashed' \subseteq Cams /\ pipeOpen' \subseteq Cams
    BY DEF PipelineInv, PipelineTypeOK, PastPoll, Replacing
  <2> QED
    BY <2>1, <2>2 DEF PipelineInv, PipelineTypeOK
<1>2. (DownWhileReplaced /\ RestartsLeft /\ OwnEnviron)'
  BY DEF PipelineInv, PipelineTypeOK, DownWhileReplaced, RestartsLeft, OwnEnviron
<1>3. QuietAfterStop'
  BY DEF PipelineInv, PipelineTypeOK, QuietAfterStop
<1>4. (EndedIsFlagged /\ OwnCamera /\ NoChildLeftBehind)'
  BY DEF PipelineInv, PipelineTypeOK, EndedIsFlagged, OwnCamera, NoChildLeftBehind
<1> QED
  BY <1>1, <1>2, <1>3, <1>4 DEF PipelineInv

(* A replacement: os.environ is written, and copied later. *)
LEMMA MonitorReplaces ==
  ASSUME PipelineInv, NEW c \in Cams, WriteEnviron(c) \/ Respawn(c) \/ RespawnFails(c)
  PROVE  PipelineInv'
<1> USE PipelineAssumption
<1> USE DEF WriteEnviron, Respawn, RespawnFails, ExitBudget
<1>1. PipelineTypeOK'
  BY DEF PipelineInv, PipelineTypeOK, PastPoll, Replacing
<1>2. (DownWhileReplaced /\ RestartsLeft)'
  BY DEF PipelineInv, PipelineTypeOK, DownWhileReplaced, RestartsLeft
<1>3. OwnEnviron'
  BY DEF PipelineInv, PipelineTypeOK, OwnEnviron
<1>4. (QuietAfterStop /\ NoChildLeftBehind)'
  BY DEF PipelineInv, PipelineTypeOK, QuietAfterStop, NoChildLeftBehind
<1>5. EndedIsFlagged'
  BY DEF PipelineInv, PipelineTypeOK, EndedIsFlagged, DownWhileReplaced
<1>6. OwnCamera'
  BY DEF PipelineInv, PipelineTypeOK, OwnCamera, OwnEnviron, DownWhileReplaced
<1> QED
  BY <1>1, <1>2, <1>3, <1>4, <1>5, <1>6 DEF PipelineInv

(* stop() comes to a camera. *)
LEMMA StopPasses ==
  ASSUME PipelineInv, NEW c \in Cams, StopChild(c)
  PROVE  PipelineInv'
<1> USE PipelineAssumption
<1> USE DEF StopChild, Kill
<1>1. PipelineTypeOK'
  BY DEF PipelineInv, PipelineTypeOK, PastPoll, Replacing
<1>2. (DownWhileReplaced /\ RestartsLeft /\ OwnEnviron)'
  BY DEF PipelineInv, PipelineTypeOK, DownWhileReplaced, RestartsLeft, OwnEnviron
<1>3. QuietAfterStop'
  BY DEF PipelineInv, PipelineTypeOK, QuietAfterStop
<1>4. (EndedIsFlagged /\ OwnCamera /\ NoChildLeftBehind)'
  BY DEF PipelineInv, PipelineTypeOK, EndedIsFlagged, OwnCamera, NoChildLeftBehind
<1> QED
  BY <1>1, <1>2, <1>3, <1>4 DEF PipelineInv

(* Every step keeps the invariant. *)
LEMMA PipelineStep == PipelineInv /\ [PipelineNext]_pipelineVars => PipelineInv'
<1> SUFFICES ASSUME PipelineInv, [PipelineNext]_pipelineVars PROVE PipelineInv'
  OBVIOUS
<1>1. CASE UNCHANGED pipelineVars
  BY <1>1 DEF pipelineVars, PipelineInv, PipelineTypeOK, DownWhileReplaced, RestartsLeft,
              OwnEnviron, QuietAfterStop, EndedIsFlagged, OwnCamera, NoChildLeftBehind
<1>2. CASE PipelineNext
  <2> PICK c \in Cams :
        \/ Monitor(c) \/ StopChild(c)
        \/ ChildPrints(c) \/ ChildSilent(c) \/ DrainEof(c)
        \/ \E rc \in {"ok", "failed"} : ChildExits(c, rc)
    BY <1>2 DEF PipelineNext
  <2>1. CASE Monitor(c)
    BY <2>1, MonitorLooks, MonitorTerminates, MonitorReplaces DEF Monitor
  <2>2. CASE StopChild(c)
    BY <2>2, StopPasses
  <2>3. CASE ChildPrints(c) \/ ChildSilent(c) \/ DrainEof(c)
    <3> DEFINE rc == "ok"
    <3> rc \in {"ok", "failed"}
      OBVIOUS
    <3> QED
      BY <2>3, ChildSteps
  <2>4. CASE \E rc \in {"ok", "failed"} : ChildExits(c, rc)
    BY <2>4, ChildSteps
  <2> QED
    BY <2>1, <2>2, <2>3, <2>4
<1> QED
  BY <1>1, <1>2

(* The invariant holds of every reachable state. *)
THEOREM PipelineCorrect == PipelineSpec => []PipelineInv
<1> QED
  BY PipelineStarts, PipelineStep, PTL DEF PipelineSpec

(* The variables keep their types: in particular no camera is restarted more
   than MaxRestarts times.  (the monitor's cap) *)
THEOREM PipelineTypes == PipelineSpec => []PipelineTypeOK
<1>1. PipelineInv => PipelineTypeOK
  BY DEF PipelineInv
<1> QED
  BY <1>1, PipelineCorrect, PTL

(* A camera without a monitor ended well or is among crashed_cameras. *)
THEOREM EndsAreFlagged == PipelineSpec => []EndedIsFlagged
<1>1. PipelineInv => EndedIsFlagged
  BY DEF PipelineInv
<1> QED
  BY <1>1, PipelineCorrect, PTL

(* A child whose environment was not written over works for its own camera. *)
THEOREM CamerasAreOwn == PipelineSpec => []OwnCamera
<1>1. PipelineInv => OwnCamera
  BY DEF PipelineInv
<1> QED
  BY <1>1, PipelineCorrect, PTL

(* A camera stop() has passed has no child, unless its monitor was past its
   poll. *)
THEOREM NothingLeftBehind == PipelineSpec => []NoChildLeftBehind
<1>1. PipelineInv => NoChildLeftBehind
  BY DEF PipelineInv
<1> QED
  BY <1>1, PipelineCorrect, PTL

-----------------------------------------------------------------------------
(* The streamer. *)

LastChild == process \in {0, spawned} /\ alive \subseteq {spawned}

StopResets == stopStep # "not_called" => ~streaming

(* The child was waited for, unless the push thread replaced it since. *)
WaitedFor ==
    stopStep \in {"clear", "join", "done"} => alive = {} \/ pushStep \in {"loop", "ended"}

NoHandle ==
    process = 0 => \/ alive = {}
                   \/ stopStep \in {"join", "done"} /\ pushStep \in {"loop", "ended"}

MetInLoop ==
    ~inReconnect /\ stopStep # "not_called" =>
        /\ pushStep \in {"loop", "ended"}
        /\ stopStep \in {"clear", "join", "done"} => alive = {}

(* An attempt is counted before the sleep, and set back by the spawn after it. *)
OneAttempt == attempts = 0 \/ (attempts = 1 /\ pushStep \in {"asleep", "ended"})

StreamerInv ==
    /\ StreamerTypeOK
    /\ LastChild /\ StopResets /\ WaitedFor /\ NoHandle /\ MetInLoop
    /\ OneAttempt

(* start() has spawned the first child. *)
LEMMA StreamerStarts == StreamerInit => StreamerInv
<1> SUFFICES ASSUME StreamerInit PROVE StreamerInv
  OBVIOUS
<1>1. 1 \in Children /\ {1} \subseteq Children
  BY StreamerAssumption DEF Children
<1>2. attempts \in 0..(MaxReconnect + 1)
  BY StreamerAssumption DEF StreamerInit
<1>3. StreamerTypeOK
  BY <1>1, <1>2 DEF StreamerInit, StreamerTypeOK
<1>4. LastChild /\ StopResets /\ OneAttempt
  BY DEF StreamerInit, LastChild, StopResets, OneAttempt
<1>5. WaitedFor /\ NoHandle /\ MetInLoop
  BY DEF StreamerInit, WaitedFor, NoHandle, MetInLoop
<1> QED
  BY <1>3, <1>4, <1>5 DEF StreamerInv

(* What ffmpeg does by itself. *)
LEMMA FfmpegSteps ==
  ASSUME StreamerInv, NEW p \in Children, ChildDies(p) \/ ChildHangs(p)
  PROVE  StreamerInv'
<1> USE DEF ChildDies, ChildHangs
<1>1. StreamerTypeOK'
  BY DEF StreamerInv, StreamerTypeOK
<1>2. LastChild' /\ NoHandle'
  BY DEF StreamerInv, LastChild, NoHandle
<1>3. WaitedFor' /\ MetInLoop'
  BY DEF StreamerInv, WaitedFor, MetInLoop
<1>4. StopResets' /\ OneAttempt'
  BY DEF StreamerInv, StopResets, OneAttempt
<1> QED
  BY <1>1, <1>2, <1>3, <1>4 DEF StreamerInv

(* The push thread up to its sleep: no child is spawned or killed. *)
LEMMA PushSteps ==
  ASSUME StreamerInv, FrameDue \/ PushFrame \/ CountAttempt
  PROVE  StreamerInv'
<1> USE StreamerAssumption
<1>1. CASE FrameDue
  BY <1>1 DEF FrameDue, StreamerInv, StreamerTypeOK, LastChild, StopResets, WaitedFor,
              NoHandle, MetInLoop, OneAttempt
<1>2. CASE PushFrame
  BY <1>2 DEF PushFrame, StreamerInv, StreamerTypeOK, LastChild, StopResets, WaitedFor,
              NoHandle, MetInLoop, OneAttempt
<1>3. CASE CountAttempt
  <2>1. attempts = 0 /\ pushStep' = "asleep" /\ attempts' = 1 /\ streaming' = streaming
    BY <1>3 DEF CountAttempt, StreamerInv, OneAttempt
  <2> QED
    BY <1>3, <2>1
       DEF CountAttempt, StreamerInv, StreamerTypeOK, LastChild, StopResets, WaitedFor,
           NoHandle, MetInLoop, OneAttempt
<1> QED
  BY <1>1, <1>2, <1>3

(* The end of the sleep: the old child is killed and the next one spawned, or
   the spawn fails. *)
LEMMA ReconnectSteps ==
  ASSUME StreamerInv, Reconnect \/ ReconnectFails
  PROVE  StreamerInv'
<1> USE StreamerAssumption
<1>1. CASE Reconnect
  <2>1. alive \ {process} = {}
    BY <1>1 DEF Reconnect, StreamerInv, LastChild, NoHandle
  <2>2. alive' = {spawned'} /\ process' = spawned' /\ spawned' \in Children
    <3>1. alive' = {spawned'} /\ process' = spawned'
      BY <1>1, <2>1 DEF Reconnect
    <3>2. spawned' \in Children
      BY <1>1 DEF Reconnect, StreamerInv, StreamerTypeOK, Children
    <3> QED
      BY <3>1, <3>2
  <2>3. StreamerTypeOK'
    BY <1>1, <2>2 DEF Reconnect, StreamerInv, StreamerTypeOK
  <2>4. process' # 0
    BY <2>2 DEF Children
  <2> QED
    BY <1>1, <2>2, <2>3, <2>4
       DEF Reconnect, StreamerInv, LastChild, StopResets, WaitedFor, NoHandle, MetInLoop,
           OneAttempt
<1>2. CASE ReconnectFails
  <2>1. alive' = {}
    BY <1>2 DEF ReconnectFails, StreamerInv, LastChild, NoHandle
  <2> QED
    BY <1>2, <2>1
       DEF ReconnectFails, StreamerInv, StreamerTypeOK, LastChild, StopResets, WaitedFor,
           NoHandle, MetInLoop, OneAttempt
<1> QED
  BY <1>1, <1>2

(* stop(), step by step. *)
LEMMA StopSteps ==
  ASSUME StreamerInv, StopStreamer
  PROVE  StreamerInv'
<1> USE StreamerAssumption
<1>1. CASE StopCalled
  <2>1. StreamerTypeOK'
    <3>1. streaming' \in BOOLEAN
      BY <1>1 DEF StopCalled, StreamerInv, StreamerTypeOK
    <3>3. inReconnect' \in BOOLEAN
      <4>1. inReconnect' = (pushStep \in {"push", "reconnect", "asleep"})
        BY <1>1 DEF StopCalled
      <4> QED
        BY <4>1
    <3>2. stopStep' \in {"not_called", "close", "wait", "clear", "join", "done"}
      BY <1>1 DEF StopCalled
    <3> QED
      BY <1>1, <3>1, <3>2, <3>3 DEF StopCalled, StreamerInv, StreamerTypeOK
  <2>2. LastChild' /\ StopResets' /\ OneAttempt'
    BY <1>1 DEF StopCalled, StreamerInv, LastChild, StopResets, OneAttempt
  <2>3. process = 0 => alive = {}
    BY <1>1 DEF StopCalled, StreamerInv, NoHandle
  <2>4. WaitedFor' /\ NoHandle'
    BY <1>1, <2>3 DEF StopCalled, StreamerInv, WaitedFor, NoHandle
  <2>5. MetInLoop'
    BY <1>1, <2>3 DEF StopCalled, StreamerInv, StreamerTypeOK, MetInLoop
  <2> QED
    BY <2>1, <2>2, <2>4, <2>5 DEF StreamerInv
<1>2. CASE StopCloses
  BY <1>2 DEF StopCloses, StreamerInv, StreamerTypeOK, LastChild, StopResets, WaitedFor,
              NoHandle, MetInLoop, OneAttempt
<1>3. CASE StopWaits
  <2>1. alive' = {}
    BY <1>3 DEF StopWaits, StreamerInv, LastChild, NoHandle
  <2> QED
    BY <1>3, <2>1
       DEF StopWaits, StreamerInv, StreamerTypeOK, LastChild, StopResets, WaitedFor,
           NoHandle, MetInLoop, OneAttempt
<1>4. CASE StopClears
  BY <1>4 DEF StopClears, StreamerInv, StreamerTypeOK, LastChild, StopResets, WaitedFor,
              NoHandle, MetInLoop, OneAttempt
<1>5. CASE StopJoins
  BY <1>5 DEF StopJoins, StreamerInv, StreamerTypeOK, LastChild, StopResets, WaitedFor,
              NoHandle, MetInLoop, OneAttempt
<1> QED
  BY <1>1, <1>2, <1>3, <1>4, <1>5 DEF StopStreamer

(* Every step keeps the invariant. *)
LEMMA StreamerStep == StreamerInv /\ [StreamerNext]_streamerVars => StreamerInv'
<1> SUFFICES ASSUME StreamerInv, [StreamerNext]_streamerVars PROVE StreamerInv'
  OBVIOUS
<1>1. CASE UNCHANGED streamerVars
  BY <1>1 DEF streamerVars, StreamerInv, StreamerTypeOK, LastChild, StopResets, WaitedFor,
              NoHandle, MetInLoop, OneAttempt
<1>2. CASE StreamerNext
  BY <1>2, FfmpegSteps, PushSteps, ReconnectSteps, StopSteps DEF StreamerNext, PushThread
<1> QED
  BY <1>1, <1>2

(* The invariant holds of every reachable state. *)
THEOREM StreamerCorrect == StreamerSpec => []StreamerInv
<1> QED
  BY StreamerStarts, StreamerStep, PTL DEF StreamerSpec

(* The variables keep their types. *)
THEOREM StreamerTypes == StreamerSpec => []StreamerTypeOK
<1>1. StreamerInv => StreamerTypeOK
  BY DEF StreamerInv
<1> QED
  BY <1>1, StreamerCorrect, PTL

(* No reconnection leaves a child behind, and stop() one at most, when it met
   the push thread on its way to a respawn.  (stop, _try_reconnect) *)
THEOREM NoChildStrays == StreamerSpec => []NoStrayChild
<1>1. StreamerInv => NoStrayChild
  BY DEF StreamerInv, LastChild, NoHandle, WaitedFor, MetInLoop, NoStrayChild
<1> QED
  BY <1>1, StreamerCorrect, PTL

(* max_reconnect_attempts is never reached and the delay never grows: a spawn
   that succeeds sets the count back, one that fails ends the thread. *)
THEOREM LimitNeverApplies == StreamerSpec => []AttemptsStayAtOne
<1>1. StreamerInv => AttemptsStayAtOne
  BY DEF StreamerInv, OneAttempt, AttemptsStayAtOne
<1> QED
  BY <1>1, StreamerCorrect, PTL
=============================================================================
