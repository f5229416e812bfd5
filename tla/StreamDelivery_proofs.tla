------------------------ MODULE StreamDelivery_proofs ------------------------
(***************************************************************************)
(* Theorems about StreamDelivery for every set of groups and messages,     *)
(* every MAXLEN and batch size and any number of faults.                   *)
(*                                                                         *)
(* NoLoss is not inductive: the sweeper acknowledges originals on the      *)
(* strength of copies it appended earlier, so the invariant has to say     *)
(* that each copy is newer than everything the sweeper is about to         *)
(* acknowledge and is itself still live.                                   *)
(***************************************************************************)
EXTENDS StreamDelivery, TLAPS

(* The entries a group has seen are below its cursor, and the cursor does
   not pass the end of the stream. *)
GroupBounds ==
    \A g \in Groups :
        /\ cursor[g] <= Len(log)
        /\ pel[g] \subseteq 1..cursor[g]
        /\ hand[g] \subseteq 1..cursor[g]
        /\ handled[g] \subseteq 1..cursor[g]

(* A trim has kept MaxLen entries. *)
TrimBound == first = 1 \/ first + MaxLen <= Len(log) + 1

(* What the sweeper claimed existed when it claimed it. *)
ClaimBounds ==
    /\ claim.upto <= Len(log)
    /\ claim.todo \subseteq 1..claim.upto
    /\ claim.moved \subseteq 1..claim.upto
    /\ claim.group = NoGroup => claim = NoClaim

(* Each requeued entry has a live copy younger than the whole claim. *)
MovedCopied ==
    claim.group \in Groups =>
        \A i \in claim.moved : \E j \in Ids :
            j > claim.upto /\ log[j] = log[i] /\ Live(claim.group, j)

IInv == TypeOK /\ GroupBounds /\ TrimBound /\ ClaimBounds /\ MovedCopied /\ NoLoss

USE GroupsAssumption, SizesAssumption, NoGroupAssumption
-----------------------------------------------------------------------------
(* Appending keeps the old entries, publishes the new payload and nothing
   else. *)
LEMMA AppendFacts ==
    ASSUME NEW s \in Seq(Payloads), NEW p \in Payloads
    PROVE  /\ Append(s, p) \in Seq(Payloads)
           /\ Len(Append(s, p)) = Len(s) + 1
           /\ \A i \in 1..Len(s) : Append(s, p)[i] = s[i]
           /\ Append(s, p)[Len(s) + 1] = p
  OBVIOUS

LEMMA InitIInv == Init => IInv
  BY DEF Init, IInv, TypeOK, GroupBounds, TrimBound, ClaimBounds, MovedCopied,
         NoLoss, NoClaim, Published, Ids

(* No step changes or removes an entry of the log; a step appends at most
   one. *)
LEMMA LogGrows ==
    ASSUME TypeOK, ClaimBounds, [Next]_vars
    PROVE  /\ log' \in Seq(Payloads)
           /\ Len(log') \in {Len(log), Len(log) + 1}
           /\ \A i \in Ids : log'[i] = log[i]
           /\ Ids \subseteq Ids'
<1>1. CASE UNCHANGED log
  BY <1>1 DEF TypeOK, Ids
<1>2. ASSUME NEW p \in Payloads, log' = Append(log, p)
      PROVE  /\ log' \in Seq(Payloads)
             /\ Len(log') = Len(log) + 1
             /\ \A i \in Ids : log'[i] = log[i]
             /\ Ids \subseteq Ids'
  BY <1>2, AppendFacts DEF TypeOK, Ids
<1>3. ASSUME NEW i \in claim.todo PROVE log[i] \in Payloads
  BY DEF TypeOK, ClaimBounds
<1>4. \/ UNCHANGED log
      \/ \E p \in Payloads : log' = Append(log, p)
  BY <1>3 DEF Next, Publish, Worker, Consume, Handle, HandleFails, Ack, AckFails,
     Die, Restart, Sweeper, SweepClaim, SweepRequeue, SweepRequeueFails, SweepAck,
     SweepAborts, vars
<1> QED
  BY <1>1, <1>2, <1>4

(* The range that a consume reads is within the stream and above the
   cursor. *)
LEMMA ConsumeFacts ==
    ASSUME TypeOK, GroupBounds, NEW g \in Groups, Consume(g)
    PROVE  \E low, high \in Nat :
             /\ low <= high /\ high <= Len(log)
             /\ cursor[g] < low /\ first <= low
             /\ \A i \in Nat : cursor[g] < i /\ i < low => i < first
             /\ cursor' = [cursor EXCEPT ![g] = high]
             /\ pel' = [pel EXCEPT ![g] = @ \union low..high]
             /\ hand' = [hand EXCEPT ![g] = low..high]
             /\ UNCHANGED <<log, first, up, handled, claim, faults>>
<1> DEFINE low == IF cursor[g] + 1 >= first THEN cursor[g] + 1 ELSE first
           high == IF low + Batch[g] - 1 <= Len(log)
                   THEN low + Batch[g] - 1 ELSE Len(log)
<1>1. /\ Len(log) \in Nat
      /\ Batch[g] \in Nat \ {0}
      /\ cursor[g] \in Nat
      /\ first \in Nat
  BY DEF TypeOK
<1>2. low <= Len(log)
  BY DEF Consume
<1>3. low \in Nat /\ high \in Nat
  BY <1>1
<1>4. low <= high /\ high <= Len(log) /\ cursor[g] < low /\ first <= low
  BY <1>1, <1>2
<1>5. \A i \in Nat : cursor[g] < i /\ i < low => i < first
  BY <1>1
<1>6. /\ cursor' = [cursor EXCEPT ![g] = high]
      /\ pel' = [pel EXCEPT ![g] = @ \union low..high]
      /\ hand' = [hand EXCEPT ![g] = low..high]
      /\ UNCHANGED <<log, first, up, handled, claim, faults>>
  BY DEF Consume
<1> HIDE DEF low, high
<1>7. \E l, h \in Nat :
         /\ l <= h /\ h <= Len(log)
         /\ cursor[g] < l /\ first <= l
         /\ \A i \in Nat : cursor[g] < i /\ i < l => i < first
         /\ cursor' = [cursor EXCEPT ![g] = h]
         /\ pel' = [pel EXCEPT ![g] = @ \union l..h]
         /\ hand' = [hand EXCEPT ![g] = l..h]
         /\ UNCHANGED <<log, first, up, handled, claim, faults>>
  BY <1>3, <1>4, <1>5, <1>6
<1> QED
  BY <1>7

-----------------------------------------------------------------------------
(* Type correctness of a step: it needs the bounds, because the sweeper reads
   the log at the ids it claimed. *)
LEMMA TypeStep ==
    ASSUME TypeOK, GroupBounds, ClaimBounds, [Next]_vars
    PROVE  TypeOK'
<1>0. Fault => faults' \in 0..MaxFaults
  BY DEF Fault, TypeOK
<1>1. log' \in Seq(Payloads)
  BY LogGrows
<1>2. CASE \E p \in Payloads : Publish(p)
  BY <1>1, <1>2 DEF Publish, TypeOK, workers
<1>3. ASSUME NEW g \in Groups, Consume(g) PROVE TypeOK'
  <2>1. PICK low \in Nat, high \in Nat :
             /\ cursor' = [cursor EXCEPT ![g] = high]
             /\ pel' = [pel EXCEPT ![g] = @ \union low..high]
             /\ hand' = [hand EXCEPT ![g] = low..high]
             /\ UNCHANGED <<log, first, up, handled, claim, faults>>
    BY <1>3, ConsumeFacts
  <2>2. low..high \in SUBSET Nat /\ pel[g] \union low..high \in SUBSET Nat
    BY DEF TypeOK
  <2> QED
    BY <2>1, <2>2 DEF TypeOK
<1>4. ASSUME NEW g \in Groups, NEW i \in hand[g],
             Handle(g, i) \/ HandleFails(g, i) \/ Ack(g, i) \/ AckFails(g, i)
      PROVE  TypeOK'
  <2>1. i \in Nat
    BY DEF TypeOK
  <2>2. CASE Handle(g, i)
    BY <2>1, <2>2 DEF Handle, TypeOK
  <2>3. CASE HandleFails(g, i)
    BY <1>0, <2>3 DEF HandleFails, TypeOK
  <2>4. CASE Ack(g, i)
    BY <2>4 DEF Ack, TypeOK
  <2>5. CASE AckFails(g, i)
    <3>1. pel' \in [Groups -> SUBSET Nat]
      <4>1. CASE UNCHANGED pel
        BY <4>1 DEF TypeOK
      <4>2. CASE pel' = [pel EXCEPT ![g] = @ \ {i}]
        <5>1. pel[g] \ {i} \in SUBSET Nat
          BY DEF TypeOK
        <5> QED
          BY <4>2, <5>1 DEF TypeOK
      <4> QED
        BY <2>5, <4>1, <4>2 DEF AckFails
    <3>2. hand' \in [Groups -> SUBSET Nat] /\ up' \in [Groups -> BOOLEAN]
      <4>0. hand[g] \ {i} \in SUBSET Nat
        BY DEF TypeOK
      <4>1. CASE g \in AckGuarded
        <5>1. hand' = [hand EXCEPT ![g] = @ \ {i}] /\ up' = up
          BY <2>5, <4>1 DEF AckFails
        <5> QED
          BY <4>0, <5>1 DEF TypeOK
      <4>2. CASE g \notin AckGuarded
        <5>1. hand' = [hand EXCEPT ![g] = {}] /\ up' = [up EXCEPT ![g] = FALSE]
          BY <2>5, <4>2 DEF AckFails
        <5> QED
          BY <5>1 DEF TypeOK
      <4> QED
        BY <4>1, <4>2
    <3> QED
      BY <1>0, <2>5, <3>1, <3>2 DEF AckFails, TypeOK
  <2> QED
    BY <1>4, <2>2, <2>3, <2>4, <2>5
<1>5. ASSUME NEW g \in Groups, Die(g) \/ Restart(g) PROVE TypeOK'
  BY <1>0, <1>5 DEF Die, Restart, TypeOK
<1>6. ASSUME NEW g \in Groups, NEW S \in SUBSET pel[g], SweepClaim(g, S)
      PROVE  TypeOK'
  <2>1. pel' \in [Groups -> SUBSET Nat] /\ faults' \in 0..MaxFaults
    BY <1>0, <1>6 DEF SweepClaim, TypeOK
  <2>2. S \in SUBSET Nat /\ Len(log) \in Nat
    BY DEF TypeOK
  <2>3. claim' \in [group : Groups \union {NoGroup}, todo : SUBSET Nat,
                    moved : SUBSET Nat, upto : Nat]
    BY <1>6, <2>2 DEF SweepClaim, NoClaim
  <2> QED
    BY <1>6, <2>1, <2>3 DEF SweepClaim, TypeOK, workers
<1>7. ASSUME NEW i \in claim.todo, SweepRequeue(i) \/ SweepRequeueFails(i)
      PROVE  TypeOK'
  <2>1. i \in Nat
    BY DEF TypeOK
  <2>2. CASE SweepRequeue(i)
    BY <1>1, <2>1, <2>2 DEF SweepRequeue, TypeOK, workers
  <2>3. CASE SweepRequeueFails(i)
    <3>1. claim' \in [group : Groups \union {NoGroup}, todo : SUBSET Nat,
                      moved : SUBSET Nat, upto : Nat]
      BY <2>3 DEF SweepRequeueFails, TypeOK, NoClaim
    <3> QED
      BY <1>0, <1>1, <2>3, <3>1 DEF SweepRequeueFails, TypeOK, workers
  <2> QED
    BY <1>7, <2>2, <2>3
<1>8. CASE SweepAck
  <2>1. pel' \in [Groups -> SUBSET Nat]
    BY <1>8 DEF SweepAck, TypeOK
  <2> QED
    BY <1>8, <2>1 DEF SweepAck, TypeOK, workers, NoClaim
<1>9. CASE SweepAborts
  BY <1>0, <1>9 DEF SweepAborts, TypeOK, workers, NoClaim
<1>10. CASE UNCHANGED vars
  BY <1>10 DEF vars, TypeOK
<1> QED
  BY <1>2, <1>3, <1>4, <1>5, <1>6, <1>7, <1>8, <1>9, <1>10 DEF Next, Worker, Sweeper

-----------------------------------------------------------------------------
(* The bounds are inductive together with the types. *)
LEMMA BoundsStep ==
    ASSUME TypeOK, GroupBounds, TrimBound, ClaimBounds, [Next]_vars
    PROVE  GroupBounds' /\ TrimBound' /\ ClaimBounds'
<1>0. Len(log) \in Nat /\ Len(log') \in Nat /\ Len(log) <= Len(log')
  BY LogGrows DEF TypeOK
<1>1. ASSUME NEW p \in Payloads, Publish(p)
      PROVE  GroupBounds' /\ TrimBound' /\ ClaimBounds'
  <2>1. Len(log') = Len(log) + 1
    BY <1>1, AppendFacts DEF Publish, TypeOK
  <2> QED
    BY <1>0, <1>1, <2>1
       DEF Publish, workers, TypeOK, GroupBounds, TrimBound, ClaimBounds
<1>2. ASSUME NEW g \in Groups, Consume(g)
      PROVE  GroupBounds' /\ TrimBound' /\ ClaimBounds'
  <2>1. PICK low \in Nat, high \in Nat :
             /\ low <= high /\ high <= Len(log) /\ cursor[g] < low
             /\ cursor' = [cursor EXCEPT ![g] = high]
             /\ pel' = [pel EXCEPT ![g] = @ \union low..high]
             /\ hand' = [hand EXCEPT ![g] = low..high]
             /\ UNCHANGED <<log, first, up, handled, claim, faults>>
    BY <1>2, ConsumeFacts
  <2>2. ASSUME NEW h \in Groups
        PROVE  /\ cursor'[h] <= Len(log')
               /\ pel'[h] \subseteq 1..cursor'[h]
               /\ hand'[h] \subseteq 1..cursor'[h]
               /\ handled'[h] \subseteq 1..cursor'[h]
    <3>1. CASE h = g
      BY <1>0, <2>1, <3>1 DEF TypeOK, GroupBounds
    <3>2. CASE h # g
      BY <2>1, <3>2 DEF TypeOK, GroupBounds
    <3> QED
      BY <3>1, <3>2
  <2>3. TrimBound' /\ ClaimBounds'
    BY <2>1 DEF TrimBound, ClaimBounds, NoClaim
  <2> QED
    BY <2>2, <2>3 DEF GroupBounds
<1>3. ASSUME NEW g \in Groups, NEW i \in hand[g],
             Handle(g, i) \/ HandleFails(g, i) \/ Ack(g, i) \/ AckFails(g, i)
      PROVE  GroupBounds' /\ TrimBound' /\ ClaimBounds'
  <2>1. UNCHANGED <<log, first, cursor, claim>>
    BY <1>3 DEF Handle, HandleFails, Ack, AckFails
  <2>2. \A h \in Groups : /\ pel'[h] \subseteq pel[h]
                          /\ hand'[h] \subseteq hand[h]
                          /\ handled'[h] \subseteq handled[h] \union hand[h]
    <3>1. CASE Handle(g, i)
      BY <3>1 DEF Handle, TypeOK
    <3>2. CASE HandleFails(g, i)
      BY <3>2 DEF HandleFails, TypeOK
    <3>3. CASE Ack(g, i)
      BY <3>3 DEF Ack, TypeOK
    <3>4. CASE AckFails(g, i)
      <4>1. \A h \in Groups : pel'[h] \subseteq pel[h]
        <5>1. CASE UNCHANGED pel
          BY <5>1
        <5>2. CASE pel' = [pel EXCEPT ![g] = @ \ {i}]
          BY <5>2 DEF TypeOK
        <5> QED
          BY <3>4, <5>1, <5>2 DEF AckFails
      <4>2. \A h \in Groups : hand'[h] \subseteq hand[h]
        <5>1. CASE hand' = [hand EXCEPT ![g] = @ \ {i}]
          BY <5>1 DEF TypeOK
        <5>2. CASE hand' = [hand EXCEPT ![g] = {}]
          BY <5>2 DEF TypeOK
        <5> QED
          BY <3>4, <5>1, <5>2 DEF AckFails
      <4> QED
        BY <3>4, <4>1, <4>2 DEF AckFails
    <3> QED
      BY <1>3, <3>1, <3>2, <3>3, <3>4
  <2> QED
    BY <2>1, <2>2 DEF GroupBounds, TrimBound, ClaimBounds, NoClaim
<1>4. ASSUME NEW g \in Groups, Die(g) \/ Restart(g)
      PROVE  GroupBounds' /\ TrimBound' /\ ClaimBounds'
  BY <1>4 DEF Die, Restart, TypeOK, GroupBounds, TrimBound, ClaimBounds, NoClaim
<1>5. ASSUME NEW g \in Groups, NEW S \in SUBSET pel[g], SweepClaim(g, S)
      PROVE  GroupBounds' /\ TrimBound' /\ ClaimBounds'
  <2>1. \A h \in Groups : pel'[h] \subseteq pel[h]
    BY <1>5 DEF SweepClaim, TypeOK
  <2>2. S \subseteq 1..Len(log)
    BY <1>0 DEF GroupBounds, TypeOK
  <2>3. ClaimBounds'
    BY <1>0, <1>5, <2>2 DEF SweepClaim, ClaimBounds, NoClaim
  <2> QED
    BY <1>5, <2>1, <2>3 DEF SweepClaim, workers, GroupBounds, TrimBound
<1>6. ASSUME NEW i \in claim.todo, SweepRequeue(i) \/ SweepRequeueFails(i)
      PROVE  GroupBounds' /\ TrimBound' /\ ClaimBounds'
  <2>1. UNCHANGED <<first, cursor, pel, hand, handled>>
    BY <1>6 DEF SweepRequeue, SweepRequeueFails, workers
  <2>2. GroupBounds' /\ TrimBound'
    BY <1>0, <2>1 DEF GroupBounds, TrimBound, TypeOK
  <2>3. \/ claim' = NoClaim
        \/ /\ claim'.group = claim.group /\ claim'.upto = claim.upto
           /\ claim'.todo \subseteq claim.todo
           /\ claim'.moved \subseteq claim.moved \union claim.todo
    <3>1. CASE SweepRequeue(i)
      BY <3>1 DEF SweepRequeue, TypeOK
    <3>2. CASE SweepRequeueFails(i)
      <4>1. CASE claim' = NoClaim
        BY <4>1
      <4>2. CASE claim' = [claim EXCEPT !.todo = @ \ {i}]
        BY <4>2 DEF TypeOK
      <4> QED
        BY <3>2, <4>1, <4>2 DEF SweepRequeueFails
    <3> QED
      BY <1>6, <3>1, <3>2
  <2>4. claim.group # NoGroup
    BY DEF ClaimBounds, NoClaim
  <2>5. claim.upto \in Nat
    BY DEF TypeOK
  <2>6. CASE claim' = NoClaim
    BY <1>0, <2>2, <2>6 DEF ClaimBounds, NoClaim
  <2>7. CASE claim' # NoClaim
    <3>1. claim'.todo \union claim'.moved \subseteq 1..claim.upto
      BY <2>3, <2>7 DEF ClaimBounds
    <3> QED
      BY <1>0, <2>2, <2>3, <2>4, <2>5, <2>7, <3>1 DEF ClaimBounds
  <2> QED
    BY <2>2, <2>6, <2>7
<1>7. CASE SweepAck
  <2>1. \A h \in Groups : pel'[h] \subseteq pel[h]
    BY <1>7 DEF SweepAck, TypeOK
  <2> QED
    BY <1>0, <1>7, <2>1
       DEF SweepAck, workers, GroupBounds, TrimBound, ClaimBounds, NoClaim
<1>8. CASE SweepAborts
  BY <1>0, <1>8 DEF SweepAborts, workers, GroupBounds, TrimBound, ClaimBounds, NoClaim
<1>9. CASE UNCHANGED vars
  BY <1>9 DEF vars, GroupBounds, TrimBound, ClaimBounds, NoClaim
<1> QED
  BY <1>1, <1>2, <1>3, <1>4, <1>5, <1>6, <1>7, <1>8, <1>9 DEF Next, Worker, Sweeper

-----------------------------------------------------------------------------
(* The cursor and an append never move in the same step. *)
LEMMA CursorOrLog ==
    ASSUME [Next]_vars
    PROVE  UNCHANGED cursor \/ UNCHANGED log
  BY DEF Next, Publish, Worker, Consume, Handle, HandleFails, Ack, AckFails,
     Die, Restart, Sweeper, SweepClaim, SweepRequeue, SweepRequeueFails, SweepAck,
     SweepAborts, vars, workers

(* An entry stays live for a group in every step but one: the sweeper's XACK
   for that group of entries it has requeued. *)
LEMMA LiveStep ==
    ASSUME TypeOK, GroupBounds, ClaimBounds, [Next]_vars,
           NEW g \in Groups, NEW i \in Ids, Live(g, i),
           ~ (SweepAck /\ g = claim.group /\ i \in claim.moved)
    PROVE  Live(g, i)'
<1>0. i \in Nat /\ first \in Nat /\ cursor[g] \in Nat
  BY DEF TypeOK, Ids
<1>1. ASSUME NEW p \in Payloads, Publish(p) PROVE Live(g, i)'
  <2>1. first' \in Nat /\ first <= first' /\ UNCHANGED <<cursor, pel, handled>>
    BY <1>0, <1>1 DEF Publish, workers, TypeOK
  <2> QED
    BY <1>0, <2>1 DEF Live
<1>2. ASSUME NEW h \in Groups, Consume(h) PROVE Live(g, i)'
  <2>1. PICK low \in Nat, high \in Nat :
             /\ low <= high /\ high <= Len(log) /\ cursor[h] < low
             /\ \A k \in Nat : cursor[h] < k /\ k < low => k < first
             /\ cursor' = [cursor EXCEPT ![h] = high]
             /\ pel' = [pel EXCEPT ![h] = @ \union low..high]
             /\ hand' = [hand EXCEPT ![h] = low..high]
             /\ UNCHANGED <<log, first, up, handled, claim, faults>>
    BY <1>2, ConsumeFacts
  <2>2. CASE h = g
    <3>1. cursor'[g] = high /\ pel'[g] = pel[g] \union low..high
      BY <2>1, <2>2 DEF TypeOK
    <3> QED
      BY <1>0, <2>1, <2>2, <3>1 DEF Live
  <2>3. CASE h # g
    <3>1. cursor'[g] = cursor[g] /\ pel'[g] = pel[g]
      BY <2>1, <2>3 DEF TypeOK
    <3> QED
      BY <2>1, <3>1 DEF Live
  <2> QED
    BY <2>2, <2>3
<1>3. ASSUME NEW h \in Groups, NEW k \in hand[h], Handle(h, k) PROVE Live(g, i)'
  <2>1. handled[g] \subseteq handled'[g]
    BY <1>3 DEF Handle, TypeOK
  <2> QED
    BY <1>3, <2>1 DEF Handle, Live
<1>4. ASSUME NEW h \in Groups, NEW k \in hand[h], Ack(h, k) \/ AckFails(h, k)
      PROVE  Live(g, i)'
  <2>1. /\ k \in handled[h]
        /\ pel' = [pel EXCEPT ![h] = @ \ {k}] \/ pel' = pel
        /\ UNCHANGED <<log, first, cursor, handled>>
    BY <1>4 DEF Ack, AckFails
  <2>2. i \in pel[g] => i \in pel'[g] \/ i \in handled[g]
    <3>1. CASE pel' = pel
      BY <3>1
    <3>2. CASE pel' = [pel EXCEPT ![h] = @ \ {k}]
      BY <2>1, <3>2 DEF TypeOK
    <3> QED
      BY <2>1, <3>1, <3>2
  <2> QED
    BY <2>1, <2>2 DEF Live
<1>5. ASSUME NEW h \in Groups, NEW S \in SUBSET pel[h], SweepClaim(h, S)
      PROVE  Live(g, i)'
  <2>1. i \in pel[g] => i \in pel'[g] \/ i < first
    BY <1>5 DEF SweepClaim, TypeOK
  <2> QED
    BY <1>5, <2>1 DEF SweepClaim, workers, Live
<1>6. CASE SweepAck
  <2>1. i \in pel[g] => i \in pel'[g]
    BY <1>6 DEF SweepAck, TypeOK
  <2> QED
    BY <1>6, <2>1 DEF SweepAck, workers, Live
<1>7. CASE UNCHANGED <<first, cursor, pel, handled>>
  BY <1>7 DEF Live
<1> QED
  BY <1>1, <1>2, <1>3, <1>4, <1>5, <1>6, <1>7
     DEF Next, Worker, Sweeper, HandleFails, Die, Restart, SweepRequeue,
         SweepRequeueFails, SweepAborts, workers, vars

(* An appended entry is live for every group. *)
LEMMA NewIsLive ==
    ASSUME TypeOK, GroupBounds, ClaimBounds, [Next]_vars, Len(log') = Len(log) + 1,
           NEW j \in Nat, j = Len(log) + 1, NEW g \in Groups
    PROVE  Live(g, j)'
<1>1. Len(log) \in Nat /\ cursor[g] \in Nat /\ cursor[g] <= Len(log)
  BY DEF TypeOK, GroupBounds
<1>2. cursor' = cursor
  BY <1>1, CursorOrLog
<1> QED
  BY <1>1, <1>2 DEF Live

(* The sweeper's copies stay live, and stay younger than its claim, until it
   has acknowledged the originals. *)
LEMMA MovedStep ==
    ASSUME TypeOK, GroupBounds, ClaimBounds, MovedCopied, [Next]_vars
    PROVE  MovedCopied'
<1>1. CASE claim'.group \notin Groups \/ claim'.moved = {}
  BY <1>1 DEF MovedCopied
<1>2. CASE UNCHANGED <<claim.group, claim.upto>> /\ claim.group \in Groups /\ ~ SweepAck
  <2>1. ASSUME NEW i \in claim'.moved, i \in claim.moved
        PROVE  \E j \in Ids' : j > claim'.upto /\ log'[j] = log'[i]
                               /\ Live(claim.group, j)'
    <3>1. PICK j \in Ids : j > claim.upto /\ log[j] = log[i] /\ Live(claim.group, j)
      BY <1>2, <2>1 DEF MovedCopied
    <3>2. i \in Ids
      BY <2>1 DEF ClaimBounds, TypeOK, Ids
    <3>3. j \in Ids' /\ log'[j] = log[j] /\ log'[i] = log[i]
      BY <3>2, LogGrows
    <3>4. ASSUME NEW g \in Groups, g = claim.group PROVE Live(g, j)'
      BY <1>2, <3>1, <3>4, LiveStep
    <3>5. Live(claim.group, j)'
      BY <1>2, <3>4
    <3> QED
      BY <1>2, <3>1, <3>3, <3>5
  <2>2. ASSUME NEW i \in claim'.moved, i \notin claim.moved
        PROVE  \E j \in Ids' : j > claim'.upto /\ log'[j] = log'[i]
                               /\ Live(claim.group, j)'
    <3>1. i \in claim.todo /\ SweepRequeue(i)
      <4>1. ASSUME NEW k \in claim.todo, SweepRequeueFails(k)
            PROVE  claim' = NoClaim \/ claim'.moved = claim.moved
        BY <4>1 DEF SweepRequeueFails, TypeOK
      <4>2. ASSUME NEW k \in claim.todo, SweepRequeue(k)
            PROVE  claim'.moved = claim.moved \union {k}
        BY <4>2 DEF SweepRequeue, TypeOK
      <4>3. ASSUME NEW g \in Groups, NEW S \in SUBSET pel[g], SweepClaim(g, S)
            PROVE  claim'.moved = {}
        BY <4>3 DEF SweepClaim, NoClaim
      <4>4. SweepAborts => claim'.moved = {}
        BY DEF SweepAborts, NoClaim
      <4>5. claim' # claim
        BY <2>2
      <4> QED
        BY <1>2, <2>2, <4>1, <4>2, <4>3, <4>4, <4>5
           DEF Next, Worker, Publish, Consume, Handle, HandleFails, Ack, AckFails,
               Die, Restart, Sweeper, NoClaim, vars
    <3>2. i \in Ids /\ log[i] \in Payloads
      BY <3>1 DEF ClaimBounds, TypeOK, Ids
    <3>3. /\ Len(log) \in Nat /\ Len(log') = Len(log) + 1
          /\ log'[Len(log) + 1] = log[i]
      BY <3>1, <3>2, AppendFacts DEF SweepRequeue, TypeOK
    <3>4. PICK j \in Nat : j = Len(log) + 1
      BY <3>3
    <3>5. j \in Ids' /\ log'[j] = log'[i] /\ j > claim'.upto
      BY <1>2, <3>2, <3>3, <3>4, LogGrows DEF Ids, ClaimBounds, TypeOK
    <3>6. ASSUME NEW g \in Groups, g = claim.group PROVE Live(g, j)'
      BY <3>3, <3>4, NewIsLive
    <3>7. Live(claim.group, j)'
      BY <1>2, <3>6
    <3> QED
      BY <3>5, <3>7
  <2> QED
    BY <1>2, <2>1, <2>2 DEF MovedCopied
<1>3. \/ claim'.group \notin Groups \/ claim'.moved = {}
      \/ UNCHANGED <<claim.group, claim.upto>> /\ claim.group \in Groups /\ ~ SweepAck
  <2>1. CASE SweepAck
    BY <2>1 DEF SweepAck, NoClaim
  <2>2. CASE UNCHANGED claim /\ ~ SweepAck
    BY <2>2 DEF TypeOK
  <2>3. ASSUME NEW g \in Groups, NEW S \in SUBSET pel[g], SweepClaim(g, S)
        PROVE  claim'.moved = {}
    BY <2>3 DEF SweepClaim, NoClaim
  <2>4. ASSUME NEW k \in claim.todo, SweepRequeue(k) \/ SweepRequeueFails(k)
        PROVE  \/ claim'.moved = {}
               \/ /\ UNCHANGED <<claim.group, claim.upto>>
                  /\ claim.group \in Groups /\ ~ SweepAck
    <3>1. claim.group \in Groups
      BY DEF ClaimBounds, NoClaim, TypeOK
    <3>2. ~ SweepAck
      BY DEF SweepAck
    <3>3. CASE SweepRequeue(k)
      BY <3>1, <3>2, <3>3 DEF SweepRequeue, TypeOK
    <3>4. CASE SweepRequeueFails(k)
      <4>1. CASE claim' = NoClaim
        BY <4>1 DEF NoClaim
      <4>2. CASE claim' = [claim EXCEPT !.todo = @ \ {k}]
        BY <3>1, <3>2, <4>2 DEF TypeOK
      <4> QED
        BY <3>4, <4>1, <4>2 DEF SweepRequeueFails
    <3> QED
      BY <2>4, <3>3, <3>4
  <2>5. SweepAborts => claim'.moved = {}
    BY DEF SweepAborts, NoClaim
  <2> QED
    BY <2>1, <2>2, <2>3, <2>4, <2>5
       DEF Next, Worker, Publish, Consume, Handle, HandleFails, Ack, AckFails,
           Die, Restart, Sweeper, vars
<1> QED
  BY <1>1, <1>2, <1>3

(* No step loses a message. *)
LEMMA NoLossStep ==
    ASSUME TypeOK, GroupBounds, ClaimBounds, MovedCopied, NoLoss, [Next]_vars
    PROVE  NoLoss'
<1> SUFFICES ASSUME NEW g \in Groups, NEW k \in Ids'
             PROVE  \E i \in Ids' : log'[i] = log'[k] /\ Live(g, i)'
  BY DEF NoLoss, Published
<1>0. Len(log) \in Nat /\ Len(log') \in {Len(log), Len(log) + 1}
  BY LogGrows DEF TypeOK
<1>1. CASE k \in Ids
  <2>1. PICK i \in Ids : log[i] = log[k] /\ Live(g, i)
    BY <1>1 DEF NoLoss, Published
  <2>2. ASSUME NEW j \in Ids, log[j] = log[k], Live(g, j)'
        PROVE  \E l \in Ids' : log'[l] = log'[k] /\ Live(g, l)'
    BY <1>1, <2>2, LogGrows
  <2>3. CASE ~ (SweepAck /\ g = claim.group /\ i \in claim.moved)
    BY <2>1, <2>2, <2>3, LiveStep
  <2>4. CASE SweepAck /\ g = claim.group /\ i \in claim.moved
    (* The copy takes over from the original. *)
    <3>1. PICK j \in Ids : j > claim.upto /\ log[j] = log[i] /\ Live(g, j)
      BY <2>4 DEF MovedCopied
    <3>2. j \notin claim.moved
      BY <3>1 DEF ClaimBounds, TypeOK, Ids
    <3>3. Live(g, j)'
      BY <3>1, <3>2, LiveStep
    <3> QED
      BY <2>1, <2>2, <3>1, <3>3
  <2> QED
    BY <2>3, <2>4
<1>2. CASE k \notin Ids
  <2>1. k \in Nat /\ k = Len(log) + 1 /\ Len(log') = Len(log) + 1
    BY <1>0, <1>2 DEF Ids
  <2>2. Live(g, k)'
    BY <2>1, NewIsLive
  <2> QED
    BY <2>2
<1> QED
  BY <1>1, <1>2

-----------------------------------------------------------------------------
(* The inductive invariant. *)
LEMMA Invariance == Spec => []IInv
<1>1. Init => IInv
  BY InitIInv
<1>2. IInv /\ [Next]_vars => IInv'
  BY TypeStep, BoundsStep, MovedStep, NoLossStep DEF IInv
<1> QED
  BY <1>1, <1>2, PTL DEF Spec

(* The state of the stream, its groups and the sweeper keeps its type: the
   sweeper never re-appends an entry that does not exist. *)
THEOREM TypeCorrect == Spec => []TypeOK
<1>1. IInv => TypeOK
  BY DEF IInv
<1> QED
  BY <1>1, Invariance, PTL

(* For any number of groups, messages and faults, no published message is
   ever lost to a group short of a MAXLEN trim. *)
THEOREM NothingLost == Spec => []NoLoss
<1>1. IInv => NoLoss
  BY DEF IInv
<1> QED
  BY <1>1, Invariance, PTL

(* A worker never receives the same entry a second time: only a copy appended
   by the sweeper brings a message back. *)
THEOREM DeliveredOnce == Spec => NoEntryTwice
<1>1. IInv /\ [Next]_vars =>
        [\A g \in Groups : \A i \in hand'[g] \ hand[g] :
             i > cursor[g] /\ i \notin pel[g] \union handled[g]]_vars
  <2> SUFFICES ASSUME IInv, [Next]_vars, NEW g \in Groups,
                      NEW i \in hand'[g], i \notin hand[g]
               PROVE  i > cursor[g] /\ i \notin pel[g] \union handled[g]
    OBVIOUS
  <2>1. Consume(g)
    <3>1. ASSUME NEW h \in Groups, h # g, Consume(h) PROVE hand'[g] = hand[g]
      BY <3>1 DEF Consume, IInv, TypeOK
    <3>2. ASSUME NEW h \in Groups, NEW k \in hand[h],
                 Handle(h, k) \/ HandleFails(h, k) \/ Ack(h, k)
          PROVE  hand'[g] \subseteq hand[g]
      <4>1. CASE Handle(h, k)
        BY <4>1 DEF Handle
      <4>2. CASE HandleFails(h, k)
        BY <4>2 DEF HandleFails, IInv, TypeOK
      <4>3. CASE Ack(h, k)
        BY <4>3 DEF Ack, IInv, TypeOK
      <4> QED
        BY <3>2, <4>1, <4>2, <4>3
    <3>3. ASSUME NEW h \in Groups, NEW k \in hand[h], AckFails(h, k)
          PROVE  hand'[g] \subseteq hand[g]
      <4>1. CASE hand' = [hand EXCEPT ![h] = @ \ {k}]
        BY <4>1 DEF IInv, TypeOK
      <4>2. CASE hand' = [hand EXCEPT ![h] = {}]
        BY <4>2 DEF IInv, TypeOK
      <4> QED
        BY <3>3, <4>1, <4>2 DEF AckFails
    <3>4. ASSUME NEW h \in Groups, Die(h) \/ Restart(h)
          PROVE  hand'[g] \subseteq hand[g]
      BY <3>4 DEF Die, Restart, IInv, TypeOK
    <3>5. ~ UNCHANGED hand
      OBVIOUS
    <3> QED
      BY <3>1, <3>2, <3>3, <3>4, <3>5
         DEF Next, Worker, Publish, Sweeper, SweepClaim, SweepRequeue,
             SweepRequeueFails, SweepAck, SweepAborts, vars, workers
  <2>2. PICK low \in Nat, high \in Nat :
             cursor[g] < low /\ hand' = [hand EXCEPT ![g] = low..high]
    BY <2>1, ConsumeFacts DEF IInv
  <2>3. i \in low..high
    BY <2>2 DEF IInv, TypeOK
  <2>4. cursor[g] \in Nat /\ i > cursor[g]
    BY <2>2, <2>3 DEF IInv, TypeOK
  <2> QED
    BY <2>4 DEF IInv, GroupBounds
<1> QED
  BY <1>1, Invariance, PTL DEF Spec, NoEntryTwice

-----------------------------------------------------------------------------
(* What an undelivered or pending entry carries is owed to the group. *)
LEMMA OwedMember ==
    ASSUME NEW g \in Groups, NEW j \in Ids, j >= first, j > cursor[g] \/ j \in pel[g]
    PROVE  log[j] \in Owed(g)
  BY DEF Owed

(* A message nobody is owed, and that the sweeper is not holding, has no
   entry left from which a step could bring it back. *)
THEOREM SettledStays == Spec => SettledForGood
<1>1. IInv /\ [Next]_vars =>
        [\A p \in Payloads : Settled(p) => Settled(p)']_vars
  <2> SUFFICES ASSUME IInv, [Next]_vars, NEW p \in Payloads, Settled(p)
               PROVE  Settled(p)'
    OBVIOUS
  <2> USE DEF IInv
  <2>0. Len(log) \in Nat /\ first \in Nat /\ first' \in Nat /\ first <= first'
    <3>1. Len(log) \in Nat /\ first \in Nat /\ first' \in Nat
      BY TypeStep DEF TypeOK
    <3>2. first' = first \/ first' \in first..(Len(log) + 1)
      BY DEF Next, Publish, Worker, Consume, Handle, HandleFails, Ack, AckFails, Die,
         Restart, Sweeper, SweepClaim, SweepRequeue, SweepRequeueFails, SweepAck,
         SweepAborts, vars
    <3> QED
      BY <3>1, <3>2
  <2>1. p \in Published'
    BY LogGrows DEF Settled, Published
  <2>2. ASSUME NEW j \in Ids', j \notin Ids PROVE log'[j] # p
    <3>1. ASSUME NEW q, log' = Append(log, q) PROVE log'[j] = q
      BY <2>0, <2>2, <3>1, LogGrows DEF Ids, TypeOK
    <3>2. CASE \E q \in Payloads : Publish(q)
      BY <3>1, <3>2 DEF Publish, Settled
    <3>3. CASE \E i \in claim.todo : SweepRequeue(i) \/ SweepRequeueFails(i)
      BY <2>2, <3>1, <3>3 DEF SweepRequeue, SweepRequeueFails, Settled, Ids
    <3> QED
      BY <2>2, <3>2, <3>3 DEF Next, Worker, Consume, Handle, HandleFails, Ack, AckFails,
         Die, Restart, Sweeper, SweepClaim, SweepAck, SweepAborts, vars, workers, Ids
  <2>3. ASSUME NEW g \in Groups, NEW j \in Ids, j >= first',
               j > cursor'[g] \/ j \in pel'[g]
        PROVE  j >= first /\ (j > cursor[g] \/ j \in pel[g])
    <3>1. j >= first
      BY <2>0, <2>3 DEF Ids
    <3>2. CASE \E h \in Groups : Consume(h)
      <4>1. PICK h \in Groups : Consume(h)
        BY <3>2
      <4>2. cursor[g] \in Nat /\ cursor'[g] \in Nat /\ cursor[g] <= cursor'[g]
        BY <4>1, ConsumeFacts DEF TypeOK
      <4>3. CASE j > cursor'[g]
        BY <3>1, <4>2, <4>3 DEF Ids
      <4>4. CASE j \in pel'[g]
        BY <3>1, <4>1, <4>4 DEF Consume, TypeOK, Ids
      <4> QED
        BY <2>3, <4>3, <4>4
    <3>3. CASE ~ \E h \in Groups : Consume(h)
      <4>1. cursor' = cursor
        BY <3>3 DEF Next, Worker, Publish, Handle, HandleFails, Ack, AckFails, Die,
           Restart, Sweeper, SweepClaim, SweepRequeue, SweepRequeueFails, SweepAck,
           SweepAborts, vars, workers
      <4>2. pel'[g] \subseteq pel[g]
        <5>1. ASSUME NEW h \in Groups, NEW D, pel' = [pel EXCEPT ![h] = @ \ D]
              PROVE  pel'[g] \subseteq pel[g]
          BY <5>1 DEF TypeOK
        <5>2. \/ UNCHANGED pel
              \/ \E h \in Groups : \E D : pel' = [pel EXCEPT ![h] = @ \ D]
          <6>1. CASE SweepAck
            <7>1. claim.group \in Groups
              BY <6>1 DEF SweepAck, ClaimBounds, TypeOK
            <7> QED
              BY <6>1, <7>1 DEF SweepAck
          <6>2. ASSUME NEW h \in Groups, NEW S \in SUBSET pel[h], SweepClaim(h, S)
                PROVE  \E D : pel' = [pel EXCEPT ![h] = @ \ D]
            BY <6>2 DEF SweepClaim
          <6>3. ASSUME NEW h \in Groups, Worker(h)
                PROVE  UNCHANGED pel \/ \E D : pel' = [pel EXCEPT ![h] = @ \ D]
            BY <3>3, <6>3 DEF Worker, Handle, HandleFails, Ack, AckFails, Die, Restart
          <6> QED
            BY <6>1, <6>2, <6>3 DEF Next, Publish, Sweeper, SweepRequeue,
               SweepRequeueFails, SweepAborts, vars
        <5> QED
          BY <5>1, <5>2
      <4> QED
        BY <2>3, <3>1, <4>1, <4>2
    <3> QED
      BY <3>2, <3>3
  <2>4. ASSUME NEW g \in Groups PROVE p \notin Owed(g)'
    <3> SUFFICES ASSUME NEW j \in Ids', log'[j] = p, j >= first',
                        j > cursor'[g] \/ j \in pel'[g]
                 PROVE  FALSE
      BY DEF Owed
    <3>1. j \in Ids /\ log[j] = p
      BY <2>2, LogGrows
    <3> QED
      BY <2>3, <3>1, OwedMember DEF Settled
  <2>5. ASSUME NEW i \in claim'.todo PROVE log'[i] # p
    <3>1. CASE i \in claim.todo
      <4>1. claim.upto \in Nat /\ i \in 1..claim.upto /\ claim.upto <= Len(log)
        BY <3>1 DEF ClaimBounds, TypeOK
      <4>2. i \in Ids
        BY <2>0, <4>1 DEF Ids
      <4>3. log[i] # p
        BY <3>1 DEF Settled
      <4> QED
        BY <4>2, <4>3, LogGrows
    <3>2. CASE i \notin claim.todo
      <4>1. PICK g \in Groups : \E S \in SUBSET pel[g] : SweepClaim(g, S)
        <5>1. claim' # claim
          BY <2>5, <3>2
        <5>2. ASSUME NEW D, claim'.todo = claim.todo \ D PROVE FALSE
          BY <2>5, <3>2, <5>2
        <5>3. ASSUME NEW k \in claim.todo, SweepRequeue(k) PROVE FALSE
          <6>1. claim'.todo = claim.todo \ {k}
            BY <5>3 DEF SweepRequeue, TypeOK
          <6> QED
            BY <6>1, <5>2
        <5>4. ASSUME NEW k \in claim.todo, SweepRequeueFails(k) PROVE FALSE
          <6>1. claim' # NoClaim
            BY <2>5 DEF NoClaim
          <6>2. claim'.todo = claim.todo \ {k}
            BY <5>4, <6>1 DEF SweepRequeueFails, TypeOK
          <6> QED
            BY <6>2, <5>2
        <5>5. claim' # NoClaim
          BY <2>5 DEF NoClaim
        <5> QED
          BY <5>1, <5>3, <5>4, <5>5 DEF Next, Worker, Publish, Consume, Handle,
             HandleFails, Ack, AckFails, Die, Restart, Sweeper, SweepAck, SweepAborts, vars
      <4>2. i \in pel[g] /\ i >= first /\ log' = log
        BY <2>5, <4>1 DEF SweepClaim, NoClaim
      <4>3. i \in Ids
        BY <2>0, <4>2 DEF GroupBounds, TypeOK, Ids
      <4> QED
        BY <4>2, <4>3, OwedMember DEF Settled
    <3> QED
      BY <3>1, <3>2
  <2> QED
    BY <2>1, <2>4, <2>5 DEF Settled
<1> QED
  BY <1>1, Invariance, PTL DEF Spec, SettledForGood

-----------------------------------------------------------------------------
(* The refinement.  The abstract state is read off the log: the steps of the
   contract follow from what happens to the entries a group is still owed. *)
Outstanding(g) == {j \in Ids : j >= first /\ (j > cursor[g] \/ j \in pel[g])}
Done(g) == {log[i] : i \in handled[g]}
Expired == {log[i] : i \in {j \in Ids : j < first}}

(* A step that leaves the stream, what was handled and every group's
   outstanding entries alone is a stutter. *)
LEMMA StutterStep ==
    ASSUME UNCHANGED <<log, first, handled>>,
           \A h \in Groups : Outstanding(h)' = Outstanding(h)
    PROVE  UNCHANGED Contract!vars
<1>1. Published' = Published /\ Expired' = Expired
  BY DEF Published, Expired, Ids
<1>2. ASSUME NEW h \in Groups PROVE Owed(h)' = Owed(h) /\ Done(h)' = Done(h)
  <2>1. Owed(h) = {log[j] : j \in Outstanding(h)}
    BY DEF Owed, Outstanding
  <2>2. Owed(h)' = {log'[j] : j \in Outstanding(h)'}
    BY DEF Owed, Outstanding
  <2> QED
    BY <2>1, <2>2 DEF Done
<1> QED
  BY <1>1, <1>2 DEF Contract!vars, Expired, Done

(* A group gives up entries whose messages it has handled, or that expired. *)
LEMMA SettleStep ==
    ASSUME IInv, UNCHANGED <<log, first, handled>>, NEW g \in Groups,
           \A h \in Groups \ {g} : Outstanding(h)' = Outstanding(h),
           Outstanding(g)' \subseteq Outstanding(g),
           \A j \in Outstanding(g) \ Outstanding(g)' :
               log[j] \in Owed(g)' \union Done(g) \union Expired
    PROVE  [Contract!Next]_(Contract!vars)
<1> DEFINE P == Owed(g) \ Owed(g)'
<1>1. Published' = Published /\ Expired' = Expired /\ \A h \in Groups : Done(h)' = Done(h)
  BY DEF Published, Expired, Ids, Done
<1>2. ASSUME NEW h \in Groups
      PROVE  /\ Owed(h) = {log[j] : j \in Outstanding(h)}
             /\ Owed(h)' = {log'[j] : j \in Outstanding(h)'}
  BY DEF Owed, Outstanding
<1>3. ASSUME NEW h \in Groups \ {g} PROVE Owed(h)' = Owed(h)
  <2>1. Outstanding(h)' = Outstanding(h) /\ log' = log
    OBVIOUS
  <2>2. /\ Owed(h) = {log[j] : j \in Outstanding(h)}
        /\ Owed(h)' = {log'[j] : j \in Outstanding(h)'}
    BY DEF Owed, Outstanding
  <2> QED
    BY <2>1, <2>2
<1>4. Owed(g)' = Owed(g) \ P
  BY <1>2
<1>5. P \subseteq Done(g) \union Expired
  BY <1>2
<1>6. P \in SUBSET Payloads
  <2>1. \A j \in Outstanding(g) : log[j] \in Payloads
    BY DEF IInv, TypeOK, Outstanding, Ids
  <2> QED
    BY <1>2, <2>1
<1> HIDE DEF P
<1>7. Contract!Settle(g, P)
  <2>1. P \subseteq [h \in Groups |-> Done(h)][g] \union Expired
    BY <1>5
  <2>2. [h \in Groups |-> Owed(h)'] = [[h \in Groups |-> Owed(h)] EXCEPT ![g] = @ \ P]
    BY <1>3, <1>4
  <2> QED
    BY <1>1, <2>1, <2>2 DEF Contract!Settle, Expired, Done
<1> QED
  BY <1>6, <1>7 DEF Contract!Next

(* A requeued entry is owed to every group. *)
LEMMA RedeliverStep ==
    ASSUME IInv, NEW i \in Ids, log' = Append(log, log[i]),
           UNCHANGED <<first, cursor, pel, handled>>
    PROVE  [Contract!Next]_(Contract!vars)
<1>0. Len(log) \in Nat /\ log[i] \in Payloads
  BY DEF IInv, TypeOK, Ids
<1>1. /\ Len(log') = Len(log) + 1
      /\ \A j \in Ids : log'[j] = log[j]
      /\ log'[Len(log) + 1] = log[i]
      /\ Ids' = Ids \union {Len(log) + 1}
  <2>1. ASSUME NEW q \in Payloads, log' = Append(log, q)
        PROVE  /\ Len(log') = Len(log) + 1
               /\ \A j \in Ids : log'[j] = log[j]
               /\ log'[Len(log) + 1] = q
    BY <2>1, AppendFacts DEF IInv, TypeOK, Ids
  <2>2. /\ Len(log') = Len(log) + 1
        /\ \A j \in Ids : log'[j] = log[j]
        /\ log'[Len(log) + 1] = log[i]
    BY <1>0, <2>1
  <2>3. Ids' = Ids \union {Len(log) + 1}
    BY <1>0, <2>2 DEF Ids
  <2> QED
    BY <2>2, <2>3
<1>2. log[i] \in Published /\ Published' = Published
  BY <1>1 DEF Published
<1>3. first <= Len(log) + 1
  BY <1>0 DEF IInv, TypeOK, TrimBound
<1>4. Expired' = Expired
  BY <1>0, <1>1, <1>3 DEF Expired, Ids, IInv, TypeOK
<1>5. ASSUME NEW h \in Groups
      PROVE  Done(h)' = Done(h) /\ Owed(h)' = Owed(h) \union {log[i]}
  <2>0. handled[h] \subseteq Ids /\ cursor[h] \in Nat /\ cursor[h] <= Len(log)
    BY <1>0 DEF IInv, TypeOK, GroupBounds, Ids
  <2>1. Done(h)' = Done(h)
    BY <1>1, <2>0 DEF Done
  <2>2. Outstanding(h)' = Outstanding(h) \union {Len(log) + 1}
    BY <1>0, <1>1, <1>3, <2>0 DEF Outstanding, Ids
  <2>3. /\ Owed(h) = {log[j] : j \in Outstanding(h)}
        /\ Owed(h)' = {log'[j] : j \in Outstanding(h)'}
    BY DEF Owed, Outstanding
  <2>4. \A j \in Outstanding(h) : j \in Ids
    BY DEF Outstanding
  <2>5. Owed(h)' = Owed(h) \union {log[i]}
    <3>1. \A j \in Outstanding(h) : log'[j] = log[j]
      BY <1>1, <2>4
    <3>2. ASSUME NEW m \in Owed(h) PROVE m \in Owed(h)'
      <4>1. PICK j \in Outstanding(h) : m = log[j]
        BY <2>3, <3>2
      <4>2. m = log'[j] /\ j \in Outstanding(h)'
        BY <2>2, <3>1, <4>1
      <4> QED
        BY <2>3, <4>2
    <3>3. log[i] \in Owed(h)'
      <4>1. Len(log) + 1 \in Outstanding(h)'
        BY <2>2
      <4> QED
        BY <1>1, <2>3, <4>1
    <3>4. ASSUME NEW m \in Owed(h)' PROVE m \in Owed(h) \union {log[i]}
      <4>1. PICK j \in Outstanding(h)' : m = log'[j]
        BY <2>3, <3>4
      <4>2. CASE j \in Outstanding(h)
        <5>1. m = log[j]
          BY <3>1, <4>1, <4>2
        <5> QED
          BY <2>3, <4>2, <5>1
      <4>3. CASE j \notin Outstanding(h)
        BY <1>1, <2>2, <4>1, <4>3
      <4> QED
        BY <4>2, <4>3
    <3> QED
      BY <3>2, <3>3, <3>4
  <2> QED
    BY <2>1, <2>5
<1>6. Contract!Redeliver(log[i])
  BY <1>2, <1>4, <1>5 DEF Contract!Redeliver, Expired, Done
<1> QED
  BY <1>0, <1>6 DEF Contract!Next

(* A publish, with whatever it trims. *)
LEMMA PublishStep ==
    ASSUME IInv, NEW p \in Payloads, Publish(p)
    PROVE  Contract!Publish(p)
<1> DEFINE X == Expired'
           kept == [g \in Groups |-> Owed(g)' \intersect X]
<1>0. Len(log) \in Nat /\ first \in Nat \ {0} /\ first' \in Nat \ {0} /\ first <= first'
  BY DEF IInv, TypeOK, Publish
<1>1. /\ Len(log') = Len(log) + 1
      /\ \A j \in Ids : log'[j] = log[j]
      /\ log'[Len(log) + 1] = p
      /\ Ids' = Ids \union {Len(log) + 1}
  BY <1>0, AppendFacts DEF IInv, TypeOK, Ids, Publish
<1>2. p \notin Published /\ Published' = Published \union {p}
  BY <1>1 DEF Published, Publish
<1>3. X \in SUBSET Published' /\ Expired' = Expired \union X
  <2>1. X \subseteq Published'
    BY DEF Expired, Published
  <2>2. ASSUME NEW j \in Ids, j < first PROVE log[j] \in X
    BY <1>0, <1>1, <2>2 DEF Expired, Ids
  <2>3. Expired \subseteq X
    BY <2>2 DEF Expired
  <2> QED
    BY <2>1, <2>3
<1>4. ASSUME NEW h \in Groups
      PROVE  /\ Done(h)' = Done(h)
             /\ Owed(h)' \subseteq Owed(h) \union {p}
             /\ (Owed(h) \union {p}) \ X \subseteq Owed(h)'
  <2>0. /\ handled[h] \subseteq Ids /\ cursor[h] \in Nat /\ cursor[h] <= Len(log)
        /\ handled'[h] = handled[h] /\ cursor'[h] = cursor[h] /\ pel'[h] = pel[h]
    BY <1>0 DEF IInv, TypeOK, GroupBounds, Ids, Publish, workers
  <2>1. Done(h)' = Done(h)
    BY <1>1, <2>0 DEF Done
  <2>2. ASSUME NEW j \in Ids', j >= first', j > cursor'[h] \/ j \in pel'[h]
        PROVE  log'[j] \in Owed(h) \union {p}
    BY <1>0, <1>1, <2>0, <2>2 DEF Owed, Ids
  <2>3. Owed(h)' \subseteq Owed(h) \union {p}
    BY <2>2 DEF Owed
  <2>4. ASSUME NEW j \in Ids', j > cursor'[h] \/ j \in pel'[h], log'[j] \notin X
        PROVE  log'[j] \in Owed(h)'
    <3>1. j >= first'
      BY <1>0, <2>4 DEF Expired, Ids
    <3> QED
      BY <2>4, <3>1 DEF Owed
  <2>5. \A j \in Ids : j \in Ids' /\ log'[j] = log[j]
    BY <1>1
  <2>6. Owed(h) \ X \subseteq Owed(h)'
    BY <2>0, <2>4, <2>5 DEF Owed
  <2>7. p \in X \/ p \in Owed(h)'
    BY <1>0, <1>1, <2>0, <2>4 DEF Ids
  <2> QED
    BY <2>1, <2>3, <2>6, <2>7
<1>5. kept \in [Groups -> SUBSET X]
  OBVIOUS
<1> HIDE DEF X
<1>6. [g \in Groups |-> Owed(g)'] =
        [g \in Groups |-> (([h \in Groups |-> Owed(h)][g] \union {p}) \ X) \union
                          (kept[g] \intersect ([h \in Groups |-> Owed(h)][g] \union {p}))]
  BY <1>4
<1> HIDE DEF kept
<1>7. [g \in Groups |-> Done(g)'] = [g \in Groups |-> Done(g)]
  BY <1>4
<1> QED
  BY <1>2, <1>3, <1>5, <1>6, <1>7 DEF Contract!Publish, Expired, Done

(* Every step of the stream is a step of the contract or a stutter. *)
LEMMA ContractStep ==
    ASSUME IInv, [Next]_vars
    PROVE  [Contract!Next]_(Contract!vars)
<1> USE DEF IInv
<1>0. Len(log) \in Nat /\ first \in Nat
  BY DEF TypeOK
<1>1. ASSUME UNCHANGED <<log, first, handled>>,
             \A h \in Groups : Outstanding(h)' = Outstanding(h)
      PROVE  [Contract!Next]_(Contract!vars)
  BY <1>1, StutterStep
<1>2. ASSUME UNCHANGED <<log, first, cursor, pel, handled>>
      PROVE  [Contract!Next]_(Contract!vars)
  BY <1>1, <1>2 DEF Outstanding, Ids
<1>3. ASSUME NEW g \in Groups, NEW D, pel' = [pel EXCEPT ![g] = @ \ D],
             UNCHANGED <<log, first, cursor, handled>>,
             \A j \in D \intersect pel[g] :
                 j < first \/ log[j] \in Owed(g)' \union Done(g) \union Expired
      PROVE  [Contract!Next]_(Contract!vars)
  <2>1. \A h \in Groups \ {g} : Outstanding(h)' = Outstanding(h)
    BY <1>3 DEF Outstanding, Ids, TypeOK
  <2>2. pel'[g] = pel[g] \ D
    BY <1>3 DEF TypeOK
  <2>3. Outstanding(g)' \subseteq Outstanding(g)
    BY <1>3, <2>2 DEF Outstanding, Ids
  <2>4. ASSUME NEW j \in Outstanding(g) \ Outstanding(g)'
        PROVE  log[j] \in Owed(g)' \union Done(g) \union Expired
    <3>1. j \in Ids /\ j >= first /\ j \in pel[g] /\ j \in D
      BY <1>3, <2>2, <2>4 DEF Outstanding, Ids
    <3> QED
      BY <1>0, <1>3, <3>1 DEF Ids
  <2> QED
    BY <1>3, <2>1, <2>3, <2>4, SettleStep
<1>4. ASSUME NEW p \in Payloads, Publish(p) PROVE [Contract!Next]_(Contract!vars)
  BY <1>4, PublishStep DEF Contract!Next
<1>5. ASSUME NEW g \in Groups, Consume(g) PROVE [Contract!Next]_(Contract!vars)
  <2>1. PICK low \in Nat, high \in Nat :
             /\ low <= high /\ high <= Len(log)
             /\ cursor[g] < low /\ first <= low
             /\ \A i \in Nat : cursor[g] < i /\ i < low => i < first
             /\ cursor' = [cursor EXCEPT ![g] = high]
             /\ pel' = [pel EXCEPT ![g] = @ \union low..high]
    BY <1>5, ConsumeFacts
  <2>2. \A h \in Groups \ {g} : Outstanding(h)' = Outstanding(h)
    BY <1>5, <2>1 DEF Outstanding, Ids, TypeOK, Consume
  <2>3. cursor'[g] = high /\ pel'[g] = pel[g] \union low..high /\ cursor[g] \in Nat
    BY <2>1 DEF TypeOK
  <2>4. ASSUME NEW j \in Ids, j >= first
        PROVE  (j > cursor'[g] \/ j \in pel'[g]) <=> (j > cursor[g] \/ j \in pel[g])
    BY <1>0, <2>1, <2>3, <2>4 DEF Ids
  <2>5. Outstanding(g)' = Outstanding(g)
    BY <1>5, <2>4 DEF Outstanding, Ids, Consume
  <2> QED
    BY <1>1, <1>5, <2>2, <2>5 DEF Consume
<1>6. ASSUME NEW g \in Groups, NEW i \in hand[g], Handle(g, i)
      PROVE  [Contract!Next]_(Contract!vars)
  <2>1. i \in Ids /\ log[i] \in Payloads
    BY <1>0 DEF TypeOK, GroupBounds, Ids
  <2>2. Published' = Published /\ log[i] \in Published /\ Expired' = Expired
    BY <1>6, <2>1 DEF Published, Expired, Ids, Handle
  <2>3. \A h \in Groups : Owed(h)' = Owed(h)
    BY <1>6 DEF Owed, Ids, Handle
  <2>4. Done(g)' = Done(g) \union {log[i]} /\ \A h \in Groups \ {g} : Done(h)' = Done(h)
    BY <1>6 DEF Done, Handle, TypeOK
  <2>5. [h \in Groups |-> Done(h)'] =
          [[h \in Groups |-> Done(h)] EXCEPT ![g] = @ \union {log[i]}]
    BY <2>4
  <2>6. PICK p \in Payloads : p = log[i]
    BY <2>1
  <2>7. Contract!Complete(g, p)
    BY <2>2, <2>3, <2>5, <2>6 DEF Contract!Complete, Expired, Done
  <2> QED
    BY <2>7 DEF Contract!Next
<1>7. ASSUME NEW g \in Groups, NEW i \in hand[g], i \in handled[g],
             pel' = [pel EXCEPT ![g] = @ \ {i}],
             UNCHANGED <<log, first, cursor, handled>>
      PROVE  [Contract!Next]_(Contract!vars)
  <2>1. log[i] \in Done(g)
    BY <1>7 DEF Done
  <2>2. \A j \in {i} \intersect pel[g] :
            j < first \/ log[j] \in Owed(g)' \union Done(g) \union Expired
    BY <2>1
  <2> QED
    BY <1>3, <1>7, <2>2
<1>8. ASSUME NEW g \in Groups, NEW S \in SUBSET pel[g], SweepClaim(g, S)
      PROVE  [Contract!Next]_(Contract!vars)
  <2> DEFINE D == {i \in S : i < first}
  <2>1. \A j \in D \intersect pel[g] :
            j < first \/ log[j] \in Owed(g)' \union Done(g) \union Expired
    OBVIOUS
  <2>2. pel' = [pel EXCEPT ![g] = @ \ D] /\ UNCHANGED <<log, first, cursor, handled>>
    BY <1>8 DEF SweepClaim, workers
  <2> HIDE DEF D
  <2> QED
    BY <1>3, <2>1, <2>2
<1>9. ASSUME NEW i \in claim.todo, SweepRequeue(i) \/ SweepRequeueFails(i)
      PROVE  [Contract!Next]_(Contract!vars)
  <2>1. i \in Ids
    BY <1>0 DEF ClaimBounds, TypeOK, Ids
  <2>2. CASE UNCHANGED log
    BY <1>2, <1>9, <2>1, <2>2 DEF SweepRequeue, SweepRequeueFails, workers
  <2>3. CASE log' = Append(log, log[i])
    BY <1>9, <2>1, <2>3, RedeliverStep DEF SweepRequeue, SweepRequeueFails, workers
  <2> QED
    BY <1>9, <2>2, <2>3 DEF SweepRequeue, SweepRequeueFails
<1>10. CASE SweepAck
  <2>1. PICK g \in Groups : g = claim.group
    BY <1>10 DEF SweepAck, ClaimBounds, TypeOK
  <2>2. PICK D : D = claim.moved
    OBVIOUS
  <2>3. ASSUME NEW i \in D
        PROVE  log[i] \in Owed(g)' \union Done(g) \union Expired
    <3>1. PICK j \in Ids : j > claim.upto /\ log[j] = log[i] /\ Live(g, j)
      BY <2>1, <2>2 DEF MovedCopied
    <3>2. j \notin claim.moved
      BY <3>1 DEF ClaimBounds, TypeOK, Ids
    <3>3. CASE j < first
      BY <3>1, <3>3 DEF Expired
    <3>4. CASE j \in handled[g]
      BY <3>1, <3>4 DEF Done
    <3>5. CASE j >= first /\ (j > cursor[g] \/ j \in pel[g])
      <4>1. j \in Ids' /\ log'[j] = log[i] /\ first' = first /\ cursor' = cursor
        BY <1>10, <3>1 DEF SweepAck, Ids, workers
      <4>2. j > cursor'[g] \/ j \in pel'[g]
        BY <1>10, <2>1, <3>2, <3>5 DEF SweepAck, TypeOK, workers
      <4>3. log'[j] \in {log'[k] : k \in {l \in Ids' :
                 l >= first' /\ (l > cursor'[g] \/ l \in pel'[g])}}
        BY <3>5, <4>1, <4>2
      <4> QED
        BY <4>1, <4>3 DEF Owed
    <3> QED
      BY <1>0, <3>1, <3>3, <3>4, <3>5 DEF Live, Ids
  <2>4. pel' = [pel EXCEPT ![g] = @ \ D] /\ UNCHANGED <<log, first, cursor, handled>>
    BY <1>10, <2>1, <2>2 DEF SweepAck, workers
  <2> QED
    BY <1>3, <2>3, <2>4
<1> QED
  <2>1. CASE UNCHANGED vars
    BY <1>2, <2>1 DEF vars, workers
  <2>2. ASSUME NEW g \in Groups, Worker(g) PROVE [Contract!Next]_(Contract!vars)
    BY <1>2, <1>5, <1>6, <1>7, <2>2
       DEF Worker, HandleFails, Ack, AckFails, Die, Restart
  <2>3. CASE Sweeper
    BY <1>2, <1>8, <1>9, <1>10, <2>3 DEF Sweeper, SweepAborts, workers
  <2> QED
    BY <1>4, <2>1, <2>2, <2>3 DEF Next

(* The stream, its workers and the sweeper implement at-least-once delivery to
   every group, for any number of groups, messages and faults. *)
THEOREM AtLeastOnceHolds == Spec => ImplementsAtLeastOnce
<1>1. Init => Contract!Init
  BY DEF Init, Contract!Init, Published, Owed, Ids
<1>2. IInv /\ [Next]_vars => [Contract!Next]_(Contract!vars)
  BY ContractStep
<1> QED
  BY <1>1, <1>2, Invariance, PTL DEF Spec, ImplementsAtLeastOnce, Contract!Spec
=============================================================================
