--------------------------- MODULE StreamDelivery ---------------------------
(***************************************************************************)
(* One Redis stream of the pipeline (for example stream:tracklets), the    *)
(* consumer groups that read it, and the PEL sweeper that recovers entries *)
(* whose consumer never acknowledged them.                                 *)
(*                                                                         *)
(* The entries ever appended are the sequence log; an entry's id is its    *)
(* index.  XREADGROUP ">" hands a group the entries above its cursor and   *)
(* puts them on its pending list; XACK takes them off.  A worker handles   *)
(* its batch in order and acknowledges an entry only after its handler     *)
(* returned normally.  A pending entry is never read again by the group:   *)
(* the sweeper claims it when it has been idle for long enough, appends a  *)
(* copy of its payload to the SAME stream, which every group reads, and    *)
(* acknowledges the original for the one group it was claimed from.        *)
(*                                                                         *)
(* Faults are a budget: each exception, lost reply, thread death or late   *)
(* worker spends one.                                                      *)
(***************************************************************************)
EXTENDS Integers, Sequences, FiniteSets

CONSTANTS
    Groups,      \* consumer groups of the stream
    AckGuarded,  \* groups whose loop survives an XACK error (the sidecar)
    Payloads,    \* messages the producer publishes, each once
    MaxLen,      \* MAXLEN of a publish: the newest entries a trim must keep
    Batch,       \* Batch[g]: COUNT of the group's XREADGROUP
    MaxFaults    \* bound on faults

ASSUME GroupsAssumption == AckGuarded \subseteq Groups
ASSUME SizesAssumption ==
    /\ MaxLen \in Nat \ {0}
    /\ Batch \in [Groups -> Nat \ {0}]
    /\ MaxFaults \in Nat

NoGroup == "no group"
ASSUME NoGroupAssumption == NoGroup \notin Groups

VARIABLES
    log,      \* payload of every entry ever appended; the id is the index
    first,    \* ids below first have been trimmed by MAXLEN
    cursor,   \* cursor[g]: the group's last-delivered id
    pel,      \* pel[g]: the group's pending entries
    up,       \* up[g]: the worker thread of the group is running
    hand,     \* hand[g]: entries the worker has read and not finished with
    handled,  \* handled[g]: entries whose handler returned normally
    claim,    \* the sweeper's work: group, entries to requeue, entries requeued
    faults    \* faults so far

workers == <<cursor, up, hand, handled>>
vars == <<log, first, cursor, pel, up, hand, handled, claim, faults>>

NoClaim == [group |-> NoGroup, todo |-> {}, moved |-> {}, upto |-> 0]
Ids == 1..Len(log)
Published == {log[i] : i \in Ids}

TypeOK ==
    /\ log \in Seq(Payloads)
    /\ first \in Nat \ {0}
    /\ cursor \in [Groups -> Nat]
    /\ pel \in [Groups -> SUBSET Nat]
    /\ up \in [Groups -> BOOLEAN]
    /\ hand \in [Groups -> SUBSET Nat]
    /\ handled \in [Groups -> SUBSET Nat]
    /\ claim \in [group : Groups \union {NoGroup}, todo : SUBSET Nat,
                  moved : SUBSET Nat, upto : Nat]
    /\ faults \in 0..MaxFaults

(* ensure_group creates every group at id 0 of the (empty) stream, and the
   worker threads start. *)
Init ==
    /\ log = <<>>
    /\ first = 1
    /\ cursor = [g \in Groups |-> 0]
    /\ pel = [g \in Groups |-> {}]
    /\ up = [g \in Groups |-> TRUE]
    /\ hand = [g \in Groups |-> {}]
    /\ handled = [g \in Groups |-> {}]
    /\ claim = NoClaim
    /\ faults = 0

Fault == faults < MaxFaults /\ faults' = faults + 1

-----------------------------------------------------------------------------
(* RedisState.publish: XADD with MAXLEN ~, which may trim nothing or any
   number of old entries as long as the newest MaxLen stay. *)
Publish(p) ==
    /\ p \notin Published
    /\ log' = Append(log, p)
    /\ first' \in {f \in first..(Len(log) + 1) : f = first \/ f + MaxLen <= Len(log) + 2}
    /\ UNCHANGED <<workers, pel, claim, faults>>

(* RedisState.consume: the next Batch[g] undelivered entries that still exist. *)
Consume(g) ==
    LET low == IF cursor[g] + 1 >= first THEN cursor[g] + 1 ELSE first
        high == IF low + Batch[g] - 1 <= Len(log) THEN low + Batch[g] - 1 ELSE Len(log)
    IN  /\ up[g]
        /\ hand[g] = {}
        /\ low <= Len(log)
        /\ cursor' = [cursor EXCEPT ![g] = high]
        /\ pel' = [pel EXCEPT ![g] = @ \union low..high]
        /\ hand' = [hand EXCEPT ![g] = low..high]
        /\ UNCHANGED <<log, first, up, handled, claim, faults>>

(* The entry the worker's loop is at. *)
IsCurrent(g, i) == i \in hand[g] /\ \A j \in hand[g] : i <= j

(* The handler returns normally (which includes discarding a message it
   recognises as invalid). *)
Handle(g, i) ==
    /\ IsCurrent(g, i)
    /\ i \notin handled[g]
    /\ handled' = [handled EXCEPT ![g] = @ \union {i}]
    /\ UNCHANGED <<log, first, cursor, pel, up, hand, claim, faults>>

(* Mutant: a message whose handler failed is acknowledged all the same. *)
HandleFails_Acks(g, i) ==
    /\ IsCurrent(g, i)
    /\ i \notin handled[g]
    /\ Fault
    /\ pel' = [pel EXCEPT ![g] = @ \ {i}]
    /\ hand' = [hand EXCEPT ![g] = @ \ {i}]
    /\ UNCHANGED <<log, first, cursor, up, handled, claim>>

(* The handler raises, or process_tracklet returns False: the loop goes on to
   the next message and leaves this one pending. *)
HandleFails(g, i) ==
    /\ IsCurrent(g, i)
    /\ i \notin handled[g]
    /\ Fault
    /\ hand' = [hand EXCEPT ![g] = @ \ {i}]
    /\ UNCHANGED <<log, first, cursor, pel, up, handled, claim>>

(* RedisState.ack: XACK names the group, so it also removes an entry that the
   sweeper has claimed meanwhile. *)
Ack(g, i) ==
    /\ IsCurrent(g, i)
    /\ i \in handled[g]
    /\ pel' = [pel EXCEPT ![g] = @ \ {i}]
    /\ hand' = [hand EXCEPT ![g] = @ \ {i}]
    /\ UNCHANGED <<log, first, cursor, up, handled, claim, faults>>

(* XACK raises, before or after the server executed it.  The sidecar logs it;
   in the other loops the exception leaves run() and ends the thread. *)
AckFails(g, i) ==
    /\ IsCurrent(g, i)
    /\ i \in handled[g]
    /\ Fault
    /\ \/ pel' = [pel EXCEPT ![g] = @ \ {i}]
       \/ UNCHANGED pel
    /\ IF g \in AckGuarded
       THEN hand' = [hand EXCEPT ![g] = @ \ {i}] /\ UNCHANGED up
       ELSE hand' = [hand EXCEPT ![g] = {}] /\ up' = [up EXCEPT ![g] = FALSE]
    /\ UNCHANGED <<log, first, cursor, handled, claim>>

(* The process is killed, or XREADGROUP raises and ends the loop. *)
Die(g) ==
    /\ up[g]
    /\ Fault
    /\ up' = [up EXCEPT ![g] = FALSE]
    /\ hand' = [hand EXCEPT ![g] = {}]
    /\ UNCHANGED <<log, first, cursor, pel, handled, claim>>

(* The process is started again: the consumer has the same name, but reads
   only ">" and so never its own pending entries. *)
Restart(g) ==
    /\ ~up[g]
    /\ up' = [up EXCEPT ![g] = TRUE]
    /\ UNCHANGED <<log, first, cursor, pel, hand, handled, claim, faults>>

-----------------------------------------------------------------------------
(* Mutant: entries that XAUTOCLAIM reports as deleted are requeued too. *)
SweepClaim_KeepsTrimmed(g, S) ==
    /\ claim = NoClaim
    /\ S # {} /\ S \subseteq pel[g]
    /\ IF S \intersect hand[g] = {} THEN UNCHANGED faults ELSE Fault
    /\ pel' = [pel EXCEPT ![g] = @ \ {i \in S : i < first}]
    /\ claim' = [group |-> g, todo |-> S, moved |-> {}, upto |-> Len(log)]
    /\ UNCHANGED <<log, first, workers>>

(* XAUTOCLAIM in _sweep_group: takes some pending entries that have been idle
   for min_idle, and drops from the pending list those it finds trimmed.  An
   entry in the hands of a running worker is that idle only when the worker
   is late.  The cursor of XAUTOCLAIM may reach any of the idle entries, hence
   any non-empty set of them. *)
SweepClaim(g, S) ==
    /\ claim = NoClaim
    /\ S # {} /\ S \subseteq pel[g]
    /\ IF S \intersect hand[g] = {} THEN UNCHANGED faults ELSE Fault
    /\ pel' = [pel EXCEPT ![g] = @ \ {i \in S : i < first}]
    /\ LET alive == {i \in S : i >= first}
       IN  claim' = IF alive = {} THEN NoClaim
                    ELSE [group |-> g, todo |-> alive, moved |-> {}, upto |-> Len(log)]
    /\ UNCHANGED <<log, first, workers>>

(* Mutant: claimed entries are not re-appended and stay with the sweeper. *)
SweepRequeue_ClaimOnly(i) ==
    /\ i \in claim.todo /\ \A j \in claim.todo : i <= j
    /\ claim' = [claim EXCEPT !.todo = @ \ {i}]
    /\ UNCHANGED <<log, first, workers, pel, faults>>

(* _requeue_claimed, one XADD: no MAXLEN here, so nothing is trimmed. *)
SweepRequeue(i) ==
    /\ i \in claim.todo /\ \A j \in claim.todo : i <= j
    /\ log' = Append(log, log[i])
    /\ claim' = [claim EXCEPT !.todo = @ \ {i}, !.moved = @ \union {i}]
    /\ UNCHANGED <<first, workers, pel, faults>>

(* Mutant: an entry whose XADD failed is acknowledged with the others. *)
SweepRequeueFails_Moves(i) ==
    /\ i \in claim.todo /\ \A j \in claim.todo : i <= j
    /\ Fault
    /\ claim' = [claim EXCEPT !.todo = @ \ {i}, !.moved = @ \union {i}]
    /\ UNCHANGED <<log, first, workers, pel>>

(* The XADD raises, before or after the server executed it: the entry stays
   pending, under the sweeper's name, for a later sweep. *)
SweepRequeueFails(i) ==
    /\ i \in claim.todo /\ \A j \in claim.todo : i <= j
    /\ Fault
    /\ log' \in {log, Append(log, log[i])}
    /\ LET todo == claim.todo \ {i}
       IN  claim' = IF todo = {} /\ claim.moved = {} THEN NoClaim
                    ELSE [claim EXCEPT !.todo = todo]
    /\ UNCHANGED <<first, workers, pel>>

(* One XACK for everything that was requeued. *)
SweepAck ==
    /\ claim # NoClaim /\ claim.todo = {}
    /\ pel' = [pel EXCEPT ![claim.group] = @ \ claim.moved]
    /\ claim' = NoClaim
    /\ UNCHANGED <<log, first, workers, faults>>

(* The XACK raises before it was executed, or the process of the sweeper dies
   at any point of the sweep. *)
SweepAborts ==
    /\ claim # NoClaim
    /\ Fault
    /\ claim' = NoClaim
    /\ UNCHANGED <<log, first, workers, pel>>

-----------------------------------------------------------------------------
Worker(g) ==
    \/ Consume(g)
    \/ \E i \in hand[g] :
          Handle(g, i) \/ HandleFails(g, i) \/ Ack(g, i) \/ AckFails(g, i)
    \/ Die(g)
    \/ Restart(g)

Sweeper ==
    \/ \E g \in Groups : \E S \in SUBSET pel[g] : SweepClaim(g, S)
    \/ \E i \in claim.todo : SweepRequeue(i) \/ SweepRequeueFails(i)
    \/ SweepAck
    \/ SweepAborts

Next ==
    \/ \E p \in Payloads : Publish(p)
    \/ \E g \in Groups : Worker(g)
    \/ Sweeper

Spec == Init /\ [][Next]_vars

(* A running thread keeps running: its loop and the sweeper's loop, which
   catches every exception and sleeps a fixed interval, make progress.
   Nothing forces a publish, a fault, or the restart of a dead thread. *)
Fairness ==
    /\ \A g \in Groups :
          /\ WF_vars(Consume(g))
          /\ WF_vars(\E i \in hand[g] : Handle(g, i))
          /\ WF_vars(\E i \in hand[g] : Ack(g, i))
          /\ WF_vars(\E S \in SUBSET pel[g] : SweepClaim(g, S))
    /\ WF_vars(\E i \in claim.todo : SweepRequeue(i))
    /\ WF_vars(SweepAck)

FairSpec == Spec /\ Fairness

-----------------------------------------------------------------------------
(* What entry i still promises to group g: not yet delivered, pending,
   handled, or gone from the stream by MAXLEN. *)
Live(g, i) == i > cursor[g] \/ i \in pel[g] \/ i \in handled[g] \/ i < first

(* No message is lost: whatever crashes, fails or is swept, for every group a
   published message has an entry that is still to be delivered, is pending,
   was handled, or was trimmed.  (pel_sweeper.py's order "re-append, then
   XACK" and every worker's order "handle, then XACK".) *)
NoLoss ==
    \A g \in Groups : \A p \in Published :
        \E i \in Ids : log[i] = p /\ Live(g, i)

(* A group's worker is handed an entry at most once, so a message is
   processed again only because a sweep appended a copy of it: no step puts
   an entry into the worker's hands that it has already handled or given up. *)
NoEntryTwice ==
    [][\A g \in Groups : \A i \in hand'[g] \ hand[g] :
          i > cursor[g] /\ i \notin pel[g] \union handled[g]]_vars

(* What the stream still owes group g: messages with an entry that exists and
   is undelivered or pending. *)
Owed(g) ==
    {log[i] : i \in {j \in Ids : j >= first /\ (j > cursor[g] \/ j \in pel[g])}}

(* Recovery comes to an end: a message that no group is owed any more, and that
   the sweeper is not holding, is never delivered to anyone again (an
   acknowledged or trimmed entry is not requeued). *)
Settled(p) ==
    /\ p \in Published
    /\ \A g \in Groups : p \notin Owed(g)
    /\ \A i \in claim.todo : log[i] # p

SettledForGood ==
    [][\A p \in Payloads : Settled(p) => Settled(p)']_vars

(* The stream implements at-least-once delivery to each group. *)
Contract == INSTANCE AtLeastOnce WITH
    published <- Published,
    owed <- [g \in Groups |-> Owed(g)],
    done <- [g \in Groups |-> {log[i] : i \in handled[g]}],
    expired <- {log[i] : i \in {j \in Ids : j < first}}

(* Every step of the workers, the trimming and the sweeper is a step that
   AtLeastOnce allows: a group's claim on a message ends only once the group
   has handled it or MAXLEN removed it. *)
ImplementsAtLeastOnce == Contract!Spec

(* At least once: when the group's worker thread eventually stays up, each
   message published is handled, or was trimmed from the stream. *)
Delivered(g, p) ==
    \E i \in Ids : log[i] = p /\ (i \in handled[g] \/ i < first)

EventuallyDelivered ==
    \A g \in Groups : \A p \in Payloads :
        (<>[]up[g]) => ((p \in Published) ~> Delivered(g, p))
=============================================================================
