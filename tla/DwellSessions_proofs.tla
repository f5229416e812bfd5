------------------------- MODULE DwellSessions_proofs -------------------------
(***************************************************************************)
(* For any pairs, bounds, batches and number of faults: a session in       *)
(* memory lacks its row, an event has a second row, and a pair a second    *)
(* open row, only as often as there were faults.                           *)
(*                                                                         *)
(* Deliveries says where messages are: in the mailbox or unacknowledged,   *)
(* once each; a message of the batch is among the latter, or back in the   *)
(* mailbox if it was swept from under the thread.  EventRows and OpenRows  *)
(* say who may still add a row: each delivery a message has to come or has *)
(* not inserted yet, and a pair without a session, are a row not used up;  *)
(* a fault is what puts a message, or a pair, back there.                  *)
(***************************************************************************)
EXTENDS DwellSessions, FiniteSetTheorems, SequenceTheorems, TLAPS

(* The messages consumed and still to be handled. *)
Busy == dwellStep \in {"insert", "dwell", "ack"}

Mailed == {mailbox[i] : i \in 1..Len(mailbox)}
Read == {batch[i] : i \in 1..Len(batch)}
Once(s) == \A i, j \in 1..Len(s) : s[i] = s[j] => i = j

Deliveries ==
    /\ Busy <=> batch # <<>>
    /\ Once(mailbox) /\ Once(batch)
    /\ Read \subseteq Mailed \union unacked /\ Mailed \intersect unacked = {}
    /\ \A m \in Mailed \union unacked : m <= Len(zoneEvents)

(* The event whose row this delivery has written. *)
Written(m) == dwellStep \in {"dwell", "ack"} /\ m = Head(batch)

(* The rows a message may still get: one if it will be delivered (again), one
   if it is in the batch and this delivery has not written its row. *)
Expected(m) == m \in Mailed \union (unacked \ Read)
Awaits(m) == m \in Read /\ ~Written(m)
Due(m) == (IF Expected(m) THEN 1 ELSE 0) + (IF Awaits(m) THEN 1 ELSE 0)

EventRows ==
    \A m \in Messages :
        /\ zoneRows[m] + Due(m) <= 1 + dwellFaults
        /\ m > Len(zoneEvents) => zoneRows[m] = 0

(* The sessions that are being closed are not in memory any more. *)
Closing ==
    /\ stale # {} => dwellStep = "close"
    /\ \A p \in stale : sessions[p] = Never
    /\ dwellStep = "close" => closeAt \in Nat
    /\ \A i \in 1..Len(zoneEvents) : zoneEvents[i].ts # Never

OpenOf(p) == {i \in DOMAIN dwellRows : dwellRows[i].pair = p /\ dwellRows[i].exited = Never}

OpenRows ==
    \A p \in Pairs :
        /\ Cardinality(OpenOf(p)) <= 1 + dwellFaults
        /\ dwellStep = "down" \/ (sessions[p] = Never /\ p \notin stale)
              => Cardinality(OpenOf(p)) <= dwellFaults

Rowless == {p \in Pairs : sessions[p] # Never /\ OpenOf(p) = {}}
Unwritten == IsFiniteSet(Rowless) /\ Cardinality(Rowless) <= dwellFaults

DwellInv == DwellTypeOK /\ Deliveries /\ EventRows /\ Closing /\ OpenRows /\ Unwritten

-----------------------------------------------------------------------------
(* Splitting a queue. *)
LEMMA SplitIs ==
  ASSUME NEW S, NEW s \in Seq(S), NEW n \in 0..Len(s)
  PROVE  /\ SubSeq(s, 1, n) \in Seq(S) /\ Len(SubSeq(s, 1, n)) = n
         /\ \A i \in 1..n : SubSeq(s, 1, n)[i] = s[i]
         /\ SubSeq(s, n + 1, Len(s)) \in Seq(S)
         /\ Len(SubSeq(s, n + 1, Len(s))) = Len(s) - n
         /\ \A i \in 1..(Len(s) - n) : SubSeq(s, n + 1, Len(s))[i] = s[n + i]
         /\ Len(s) \in Nat /\ n \in Nat /\ n <= Len(s)
OBVIOUS

LEMMA AppendIs ==
  ASSUME NEW S, NEW s \in Seq(S), NEW e \in S
  PROVE  /\ Append(s, e) \in Seq(S) /\ Len(s) \in Nat /\ Len(Append(s, e)) = Len(s) + 1
         /\ \A i \in 1..Len(s) : Append(s, e)[i] = s[i] /\ i \in 1..Len(Append(s, e))
         /\ Append(s, e)[Len(s) + 1] = e /\ Len(s) + 1 \in 1..Len(Append(s, e))
         /\ \A i \in 1..Len(Append(s, e)) : i \in 1..Len(s) \/ i = Len(s) + 1
OBVIOUS

LEMMA TailIs ==
  ASSUME NEW S, NEW s \in Seq(S), s # <<>>
  PROVE  /\ Tail(s) \in Seq(S) /\ Len(s) \in Nat \ {0} /\ Len(Tail(s)) = Len(s) - 1
         /\ Head(s) = s[1] /\ 1 \in 1..Len(s) /\ Head(s) \in S
         /\ \A i \in 1..Len(Tail(s)) : Tail(s)[i] = s[i + 1] /\ i + 1 \in 1..Len(s) /\ i + 1 # 1
         /\ Tail(s) = <<>> <=> Len(s) = 1
<1>1. /\ Tail(s) \in Seq(S) /\ Len(s) \in Nat \ {0} /\ Len(Tail(s)) = Len(s) - 1
      /\ Head(s) = s[1] /\ 1 \in 1..Len(s) /\ Head(s) \in S
      /\ \A i \in 1..Len(Tail(s)) : Tail(s)[i] = s[i + 1] /\ i + 1 \in 1..Len(s) /\ i + 1 # 1
  OBVIOUS
<1>2. Tail(s) = <<>> <=> Len(Tail(s)) = 0
  BY <1>1, EmptySeq
<1> QED
  BY <1>1, <1>2

LEMMA ElementsTyped ==
  ASSUME NEW S, NEW s \in Seq(S) PROVE \A i \in 1..Len(s) : s[i] \in S
OBVIOUS

LEMMA StampsAre ==
  /\ Never \in Stamps /\ 0..DwellHorizon \subseteq Stamps /\ Stamps \subseteq Int
  /\ Never \in Int /\ \A c \in Nat : c # Never
  /\ \A c \in 0..DwellHorizon, lag \in 0..MaxZoneLag : c - lag \in Stamps /\ c - lag # Never
BY DwellAssumption DEF Stamps, Never

Row == [pair : Pairs, entered : Stamps, exited : Stamps]

(* The message in hand, and its event. *)
LEMMA InHand ==
  ASSUME DwellTypeOK, Deliveries, Busy
  PROVE  /\ batch # <<>> /\ Head(batch) \in Messages /\ Head(batch) \in Read
         /\ Head(batch) \in 1..Len(zoneEvents)
         /\ Event \in [pair : Pairs, ts : Stamps]
<1>1. batch # <<>> /\ batch \in Seq(Messages) /\ unacked \subseteq Messages
      /\ zoneEvents \in Seq([pair : Pairs, ts : Stamps])
  BY DEF DwellTypeOK, Deliveries
<1>2. Head(batch) \in Messages /\ Head(batch) \in Read
  BY <1>1, TailIs DEF Read
<1>3. Head(batch) <= Len(zoneEvents)
  BY <1>2 DEF Deliveries
<1>4. Head(batch) \in 1..Len(zoneEvents)
  BY <1>1, <1>2, <1>3, DwellAssumption DEF Messages
<1>5. Event \in [pair : Pairs, ts : Stamps]
  BY <1>1, <1>4, ElementsTyped DEF Event
<1> QED
  BY <1>1, <1>2, <1>3, <1>4, <1>5

LEMMA DwellTypesStep ==
  ASSUME DwellTypeOK, Deliveries, [DwellNext]_dwellVars
  PROVE  DwellTypeOK'
<1> USE DEF DwellTypeOK, streamVars, rowVars
<1>1. ASSUME DwellFault PROVE dwellFaults' \in 0..MaxDwellFaults
  BY <1>1, DwellAssumption DEF DwellFault
<1>2. ASSUME NextMessage, batch # <<>>
      PROVE  batch' \in Seq(Messages) /\ dwellStep' \in {"top", "insert"}
  BY <1>2, TailIs DEF NextMessage
<1>3. CASE UNCHANGED dwellVars
  BY <1>3 DEF dwellVars
<1>4. CASE Minute
  BY <1>4, DwellAssumption DEF Minute
<1>5. ASSUME NEW p \in Pairs, NEW lag \in 0..MaxZoneLag, EnterZone(p, lag) PROVE DwellTypeOK'
  <2>1. [pair |-> p, ts |-> dwellClock - lag] \in [pair : Pairs, ts : Stamps]
    BY StampsAre
  <2>2. zoneEvents' \in Seq([pair : Pairs, ts : Stamps])
    BY <1>5, <2>1, AppendIs DEF EnterZone
  <2>3. Len(zoneEvents) \in Nat /\ Len(zoneEvents) < MaxZoneEvents
    BY <1>5 DEF EnterZone
  <2>4. Len(zoneEvents) + 1 \in Messages
    BY <2>3, DwellAssumption DEF Messages
  <2>5. mailbox' \in Seq(Messages)
    BY <1>5, <2>4, AppendIs DEF EnterZone
  <2> QED
    BY <1>5, <2>2, <2>5 DEF EnterZone
<1>6. ASSUME NEW m \in Messages, Requeue(m) PROVE DwellTypeOK'
  <2>1. mailbox' \in Seq(Messages) /\ unacked' \subseteq Messages
    BY <1>6, AppendIs DEF Requeue
  <2>2. dwellFaults' \in 0..MaxDwellFaults
    BY <1>1, <1>6 DEF Requeue
  <2> QED
    BY <1>6, <2>1, <2>2 DEF Requeue
<1>7. CASE ForceCloseStale
  <2>1. closeAt' \in Stamps
    BY <1>7, StampsAre DEF ForceCloseStale
  <2>2. sessions' \in [Pairs -> Stamps] /\ stale' \subseteq Pairs
    BY <1>7, StampsAre DEF ForceCloseStale
  <2> QED
    BY <1>7, <2>1, <2>2 DEF ForceCloseStale
<1>8. ASSUME NEW p \in Pairs, CloseRow(p) PROVE DwellTypeOK'
  <2>1. dwellRows \in Seq(Row) /\ closeAt \in Stamps
    BY DEF Row
  <2>2. \A i \in 1..Len(dwellRows) : dwellRows[i] \in Row
    BY <2>1, ElementsTyped
  <2>3. \A r \in Row : [r EXCEPT !.exited = closeAt] \in Row
    BY <2>1 DEF Row
  <2>4. /\ DOMAIN dwellRows = 1..Len(dwellRows) /\ Len(dwellRows) \in Nat
        /\ dwellRows' = [i \in 1..Len(dwellRows) |-> dwellRows'[i]]
        /\ \A i \in 1..Len(dwellRows) :
              dwellRows'[i] = dwellRows[i] \/ dwellRows'[i] = [dwellRows[i] EXCEPT !.exited = closeAt]
    <3>1. DOMAIN dwellRows = 1..Len(dwellRows) /\ Len(dwellRows) \in Nat
      BY <2>1, LenProperties
    <3>2. dwellRows' = [i \in DOMAIN dwellRows |->
                          IF dwellRows[i].pair = p /\ dwellRows[i].exited = Never
                          THEN [dwellRows[i] EXCEPT !.exited = closeAt] ELSE dwellRows[i]]
      BY <1>8 DEF CloseRow
    <3> QED
      BY ONLY <3>1, <3>2
  <2>5. \A i \in 1..Len(dwellRows) : dwellRows'[i] \in Row
    BY <2>2, <2>3, <2>4
  <2>6. dwellRows' \in Seq(Row)
    BY ONLY <2>4, <2>5, SeqDef
  <2>7. dwellRows' \in Seq([pair : Pairs, entered : Stamps, exited : Stamps])
    BY <2>6 DEF Row
  <2> QED
    BY <1>8, <2>7 DEF CloseRow
<1>9. CASE ForceCloseDone
  BY <1>9 DEF ForceCloseDone
<1>10. CASE ReadZoneEvents
  <2>1. PICK n : n = IF Len(mailbox) < DwellBatch THEN Len(mailbox) ELSE DwellBatch
    OBVIOUS
  <2>2. n \in 0..Len(mailbox)
    BY <2>1, DwellAssumption
  <2>3. batch' \in Seq(Messages) /\ mailbox' \in Seq(Messages)
    BY <1>10, <2>1, <2>2, SplitIs DEF ReadZoneEvents
  <2>4. unacked' = unacked \union {mailbox[i] : i \in 1..n}
    BY <1>10, <2>1 DEF ReadZoneEvents
  <2>5. unacked' \subseteq Messages
    BY <2>2, <2>4, ElementsTyped
  <2> QED
    BY <1>10, <2>1, <2>3, <2>5 DEF ReadZoneEvents
<1>11. CASE InsertZoneEvent
  BY <1>11, InHand DEF InsertZoneEvent, Busy
<1>12. CASE InsertFails
  BY <1>1, <1>2, <1>12, InHand DEF InsertFails, Busy
<1>13. CASE OpenSession
  <2>1. Event \in [pair : Pairs, ts : Stamps]
    BY <1>13, InHand DEF OpenSession, Busy
  <2>2. OpenRow(Event) \in Row /\ dwellRows \in Seq(Row)
    BY <2>1, StampsAre DEF OpenRow, Row
  <2>5. dwellRows' \in Seq(Row)
    <3>1. Append(dwellRows, OpenRow(Event)) \in Seq(Row)
      BY <2>2, AppendIs
    <3> QED
      BY <1>13, <2>2, <3>1 DEF OpenSession
  <2>3. dwellRows' \in Seq([pair : Pairs, entered : Stamps, exited : Stamps])
    BY <2>5 DEF Row
  <2>4. sessions' \in [Pairs -> Stamps]
    BY <1>13, <2>1 DEF OpenSession
  <2> QED
    BY <1>13, <2>3, <2>4 DEF OpenSession
<1>14. CASE OpenSessionFails
  <2>1. Event \in [pair : Pairs, ts : Stamps] /\ batch # <<>>
    BY <1>14, InHand DEF OpenSessionFails, Busy
  <2>2. sessions' \in [Pairs -> Stamps]
    BY <1>14, <2>1 DEF OpenSessionFails
  <2> QED
    BY <1>1, <1>2, <1>14, <2>1, <2>2 DEF OpenSessionFails
<1>15. CASE AckZoneEvent
  BY <1>2, <1>15, InHand DEF AckZoneEvent, Busy
<1>16. CASE DwellStops
  BY <1>1, <1>16 DEF DwellStops
<1>17. CASE DwellRestarts
  BY <1>17, StampsAre DEF DwellRestarts
<1> QED
  BY <1>3, <1>4, <1>5, <1>6, <1>7, <1>8, <1>9, <1>10, <1>11, <1>12, <1>13, <1>14, <1>15,
     <1>16, <1>17 DEF DwellNext, DwellThread

-----------------------------------------------------------------------------
(* The messages. *)

(* One message more in the mailbox. *)
LEMMA MailedAppend ==
  ASSUME NEW S, mailbox \in Seq(S), NEW m \in S, m \notin Mailed, Once(mailbox),
         mailbox' = Append(mailbox, m)
  PROVE  Once(mailbox)' /\ Mailed' = Mailed \union {m}
<1>1. /\ Len(mailbox) \in Nat /\ Len(mailbox') = Len(mailbox) + 1
      /\ \A i \in 1..Len(mailbox) : mailbox'[i] = mailbox[i] /\ i \in 1..Len(mailbox')
      /\ mailbox'[Len(mailbox) + 1] = m /\ Len(mailbox) + 1 \in 1..Len(mailbox')
      /\ \A i \in 1..Len(mailbox') : i \in 1..Len(mailbox) \/ i = Len(mailbox) + 1
  BY AppendIs
<1>2. \A i \in 1..Len(mailbox) : mailbox[i] # m
  BY DEF Mailed
<1>3. Once(mailbox)'
  BY <1>1, <1>2 DEF Once
<1>4. Mailed \union {m} \subseteq Mailed'
  BY <1>1 DEF Mailed
<1>5. Mailed' \subseteq Mailed \union {m}
  BY <1>1 DEF Mailed
<1> QED
  BY <1>3, <1>4, <1>5

(* The thread is through with its message. *)
LEMMA NextIs ==
  ASSUME DwellTypeOK, Deliveries, Busy, NextMessage
  PROVE  /\ (Busy <=> batch # <<>>)' /\ Once(batch)' /\ Read' = Read \ {Head(batch)}
         /\ dwellStep' \in {"top", "insert"}
<1>1. batch \in Seq(Messages) /\ batch # <<>> /\ batch' = Tail(batch) /\ Once(batch)
      /\ dwellStep' = IF Len(batch) = 1 THEN "top" ELSE "insert"
  BY DEF DwellTypeOK, Deliveries, NextMessage
<1>2. /\ Len(batch) \in Nat /\ Head(batch) = batch[1] /\ 1 \in 1..Len(batch)
      /\ \A i \in 1..Len(batch') : /\ batch'[i] = batch[i + 1] /\ i + 1 \in 1..Len(batch)
                                   /\ i + 1 # 1 /\ i \in Int
      /\ batch' = <<>> <=> Len(batch) = 1
  BY <1>1, TailIs
<1>3. Once(batch)'
  <2> SUFFICES ASSUME NEW i \in 1..Len(batch'), NEW j \in 1..Len(batch'), batch'[i] = batch'[j]
               PROVE  i = j
    BY DEF Once
  <2>1. i + 1 = j + 1
    BY <1>1, <1>2 DEF Once
  <2> QED
    BY <1>2, <2>1
<1>4. Read' \subseteq Read
  BY <1>2 DEF Read
<1>5. Head(batch) \notin Read'
  BY <1>1, <1>2 DEF Read, Once
<1>6. Read \subseteq Read' \union {Head(batch)}
  <2> SUFFICES ASSUME NEW i \in 1..Len(batch), i # 1
               PROVE  batch[i] \in Read'
    BY <1>2 DEF Read
  <2>1. i - 1 \in 1..Len(batch') /\ (i - 1) + 1 = i
    BY <1>1, <1>2, TailIs
  <2>2. batch'[i - 1] = batch[i]
    BY <1>2, <2>1
  <2> QED
    BY <2>1, <2>2 DEF Read
<1> QED
  BY <1>1, <1>2, <1>3, <1>4, <1>5, <1>6 DEF Busy

(* What a consume takes from the mailbox. *)
LEMMA ReadIs ==
  ASSUME DwellTypeOK, Deliveries, ReadZoneEvents
  PROVE  /\ Once(mailbox)' /\ Once(batch)' /\ unacked' = unacked \union Read'
         /\ Mailed' \intersect Read' = {} /\ Mailed' \union Read' = Mailed
         /\ (Busy <=> batch # <<>>)' /\ batch = <<>>
<1>1. PICK n : n = IF Len(mailbox) < DwellBatch THEN Len(mailbox) ELSE DwellBatch
  OBVIOUS
<1>2. n \in 0..Len(mailbox) /\ mailbox \in Seq(Messages) /\ Once(mailbox)
  BY <1>1, DwellAssumption DEF DwellTypeOK, Deliveries
<1>3. /\ batch' = SubSeq(mailbox, 1, n) /\ mailbox' = SubSeq(mailbox, n + 1, Len(mailbox))
      /\ unacked' = unacked \union {mailbox[i] : i \in 1..n}
      /\ dwellStep' = IF n = 0 THEN "top" ELSE "insert"
  BY <1>1 DEF ReadZoneEvents
<1>4. /\ Len(batch') = n /\ \A i \in 1..n : batch'[i] = mailbox[i] /\ i \in 1..Len(mailbox)
      /\ Len(mailbox') = Len(mailbox) - n
      /\ \A i \in 1..Len(mailbox') : /\ mailbox'[i] = mailbox[n + i] /\ n + i \in 1..Len(mailbox)
                                     /\ n + i \notin 1..n
      /\ Len(mailbox) \in Nat /\ n \in Nat /\ batch' \in Seq(Messages)
  BY <1>2, <1>3, SplitIs
<1>5. Once(mailbox)'
  <2> SUFFICES ASSUME NEW i \in 1..Len(mailbox'), NEW j \in 1..Len(mailbox'),
                      mailbox'[i] = mailbox'[j]
               PROVE  i = j
    BY DEF Once
  <2>1. n + i = n + j
    BY <1>2, <1>4 DEF Once
  <2> QED
    BY <1>4, <2>1
<1>6. Once(batch)' /\ Read' = {mailbox[i] : i \in 1..n}
  BY <1>2, <1>4 DEF Once, Read
<1>7. Mailed' \intersect Read' = {}
  BY <1>2, <1>4, <1>6 DEF Once, Mailed
<1>8. Mailed' \union Read' \subseteq Mailed
  BY <1>4, <1>6 DEF Mailed
<1>9. Mailed \subseteq Mailed' \union Read'
  <2> SUFFICES ASSUME NEW i \in 1..Len(mailbox)
               PROVE  mailbox[i] \in Mailed' \union Read'
    BY DEF Mailed
  <2>1. CASE i \in 1..n
    BY <1>6, <2>1
  <2>2. CASE i \notin 1..n
    <3>1. i - n \in 1..Len(mailbox') /\ n + (i - n) = i
      BY <1>4, <2>2
    <3>2. mailbox'[i - n] = mailbox[i]
      BY <1>4, <3>1
    <3> QED
      BY <3>1, <3>2 DEF Mailed
  <2> QED
    BY <2>1, <2>2
<1>10. (Busy <=> batch # <<>>)'
  <2>1. batch' = <<>> <=> n = 0
    BY <1>4, EmptySeq
  <2> QED
    BY <1>3, <2>1 DEF Busy
<1>11. batch = <<>>
  BY DEF Deliveries, Busy, ReadZoneEvents
<1> QED
  BY <1>3, <1>5, <1>6, <1>7, <1>8, <1>9, <1>10, <1>11

LEMMA DeliveriesStep ==
  ASSUME DwellTypeOK, Deliveries, [DwellNext]_dwellVars
  PROVE  Deliveries'
<1>1. ASSUME UNCHANGED <<mailbox, unacked, zoneEvents, batch>>, Busy' <=> Busy
      PROVE  Deliveries'
  BY <1>1 DEF Deliveries, Once, Read, Mailed
<1>2. CASE UNCHANGED dwellVars \/ Minute
  BY <1>1, <1>2 DEF dwellVars, Minute, streamVars, Busy
<1>3. CASE \/ ForceCloseStale \/ (\E p \in Pairs : CloseRow(p)) \/ ForceCloseDone
           \/ InsertZoneEvent \/ OpenSession \/ DwellRestarts
  BY <1>1, <1>3 DEF ForceCloseStale, CloseRow, ForceCloseDone, InsertZoneEvent, OpenSession,
                    DwellRestarts, streamVars, Busy
<1>4. ASSUME NEW p \in Pairs, NEW lag \in 0..MaxZoneLag, EnterZone(p, lag)
      PROVE  Deliveries'
  <2>1. /\ zoneEvents' = Append(zoneEvents, [pair |-> p, ts |-> dwellClock - lag])
        /\ mailbox' = Append(mailbox, Len(zoneEvents) + 1)
        /\ UNCHANGED <<unacked, batch, dwellStep>>
    BY <1>4 DEF EnterZone
  <2>2. /\ Len(zoneEvents) \in Nat /\ Len(zoneEvents') = Len(zoneEvents) + 1
        /\ mailbox \in Seq(Nat) /\ unacked \subseteq Nat /\ Mailed \subseteq Nat
    <3>1. Messages \subseteq Nat /\ mailbox \in Seq(Messages) /\ unacked \subseteq Messages
          /\ zoneEvents \in Seq([pair : Pairs, ts : Stamps])
      BY DwellAssumption DEF Messages, DwellTypeOK
    <3>2. Mailed \subseteq Messages
      BY <3>1, ElementsTyped DEF Mailed
    <3>3. [pair |-> p, ts |-> dwellClock - lag] \in [pair : Pairs, ts : Stamps]
      BY StampsAre DEF DwellTypeOK
    <3>4. mailbox \in Seq(Nat)
      BY <3>1, SeqMonotonic
    <3>5. Len(zoneEvents) \in Nat /\ Len(zoneEvents') = Len(zoneEvents) + 1
      BY <2>1, <3>1, <3>3, AppendIs
    <3> QED
      BY <3>1, <3>2, <3>4, <3>5
  <2>3. \A m \in Mailed \union unacked : m <= Len(zoneEvents) /\ m # Len(zoneEvents) + 1
    BY <2>2 DEF Deliveries
  <2>4. Once(mailbox)' /\ Mailed' = Mailed \union {Len(zoneEvents) + 1}
    BY <2>1, <2>2, <2>3, MailedAppend DEF Deliveries
  <2>5. Mailed' \intersect unacked' = {}
    BY <2>1, <2>3, <2>4 DEF Deliveries
  <2>6. \A m \in Mailed' \union unacked' : m <= Len(zoneEvents')
    BY <2>1, <2>2, <2>3, <2>4
  <2>7. (Busy <=> batch # <<>>)' /\ Once(batch)' /\ Read' \subseteq Mailed' \union unacked'
    BY <2>1, <2>4 DEF Deliveries, Busy, Once, Read
  <2> QED
    BY <2>4, <2>5, <2>6, <2>7 DEF Deliveries
<1>5. ASSUME NEW m \in Messages, Requeue(m)
      PROVE  Deliveries'
  <2>1. /\ m \in unacked /\ unacked' = unacked \ {m}
        /\ mailbox' = Append(mailbox, m) /\ UNCHANGED <<batch, dwellStep, zoneEvents>>
    BY <1>5 DEF Requeue
  <2>2. Once(mailbox)' /\ Mailed' = Mailed \union {m}
    BY <2>1, MailedAppend DEF Deliveries, DwellTypeOK
  <2>3. (Busy <=> batch # <<>>)' /\ Once(batch)' /\ Read' = Read
    BY <2>1 DEF Deliveries, Busy, Once, Read
  <2> QED
    BY <2>1, <2>2, <2>3 DEF Deliveries
<1>6. CASE ReadZoneEvents
  <2>1. UNCHANGED zoneEvents
    BY <1>6 DEF ReadZoneEvents
  <2> QED
    BY <1>6, <2>1, ReadIs DEF Deliveries
<1>7. ASSUME NextMessage, Busy, UNCHANGED <<mailbox, zoneEvents>>,
             unacked' = unacked \/ unacked' = unacked \ {Head(batch)}
      PROVE  Deliveries'
  <2>1. Once(mailbox)' /\ Mailed' = Mailed /\ Read \subseteq Mailed \union unacked
    BY <1>7 DEF Deliveries, Once, Mailed
  <2>2. Read' \subseteq Mailed' \union unacked'
    BY <1>7, <2>1, NextIs
  <2> QED
    BY <1>7, <2>1, <2>2, NextIs DEF Deliveries
<1>8. CASE InsertFails \/ OpenSessionFails \/ AckZoneEvent
  BY <1>7, <1>8 DEF InsertFails, OpenSessionFails, AckZoneEvent, streamVars, Busy
<1>9. CASE DwellStops
  <2>1. batch' = <<>> /\ dwellStep' = "down" /\ UNCHANGED <<mailbox, unacked, zoneEvents>>
    BY <1>9 DEF DwellStops, streamVars
  <2>2. Once(batch)' /\ Read' = {}
    BY <2>1 DEF Once, Read
  <2>3. Once(mailbox)' /\ Mailed' = Mailed
    BY <2>1 DEF Deliveries, Once, Mailed
  <2> QED
    BY <2>1, <2>2, <2>3 DEF Deliveries, Busy
<1> QED
  BY <1>2, <1>3, <1>4, <1>5, <1>6, <1>8, <1>9 DEF DwellNext, DwellThread

LEMMA DueFalls ==
  ASSUME NEW m, Expected(m)' => Expected(m), Awaits(m)' => Awaits(m)
  PROVE  Due(m)' <= Due(m)
BY DEF Due

(* One delivery is one row at most. *)
LEMMA DueRises ==
  ASSUME NEW m, Expected(m)' /\ Awaits(m)' => Expected(m) \/ Awaits(m)
  PROVE  Due(m)' <= Due(m) + 1
BY DEF Due

(* No event gets a row. *)
LEMMA EventRowsStays ==
  ASSUME DwellTypeOK, EventRows, zoneRows' = zoneRows, Len(zoneEvents') = Len(zoneEvents),
         \/ dwellFaults' = dwellFaults /\ \A m \in Messages : Due(m)' <= Due(m)
         \/ dwellFaults' = dwellFaults + 1 /\ \A m \in Messages : Due(m)' <= Due(m) + 1
  PROVE  EventRows'
<1>1. dwellFaults \in Nat /\ \A m \in Messages : zoneRows[m] \in Nat
  BY DwellAssumption DEF DwellTypeOK
<1> SUFFICES ASSUME NEW m \in Messages
             PROVE  /\ zoneRows'[m] + Due(m)' <= 1 + dwellFaults'
                    /\ m > Len(zoneEvents') => zoneRows'[m] = 0
  BY DEF EventRows
<1>2. Due(m) \in Int /\ Due(m)' \in Int
  BY DEF Due
<1>3. /\ zoneRows[m] + Due(m) <= 1 + dwellFaults
      /\ m > Len(zoneEvents) => zoneRows[m] = 0
  BY DEF EventRows
<1> QED
  BY <1>1, <1>2, <1>3

(* No delivery is begun. *)
LEMMA SameDeliveries ==
  ASSUME UNCHANGED <<mailbox, unacked, batch>>, \A m : Written(m) => Written(m)'
  PROVE  \A m : Due(m)' <= Due(m)
<1>1. Mailed' = Mailed /\ Read' = Read
  BY DEF Mailed, Read
<1>2. \A m : (Expected(m)' => Expected(m)) /\ (Awaits(m)' => Awaits(m))
  BY <1>1 DEF Expected, Awaits
<1> QED
  BY <1>2, DueFalls

(* The thread goes on from message h to its next. *)
LEMMA NextDue ==
  ASSUME DwellTypeOK, Deliveries, Busy, NextMessage, mailbox' = mailbox,
         NEW h, h = Head(batch), unacked' = unacked \/ unacked' = unacked \ {h}
  PROVE  /\ \A m : m # h => Due(m)' <= Due(m)
         /\ Due(h)' <= Due(h) + 1
         /\ unacked' = unacked \ {h} => Due(h)' <= Due(h)
<1>1. Read' = Read \ {h} /\ h \in Read /\ Mailed' = Mailed
  BY NextIs, InHand DEF Mailed
<1>2. ASSUME NEW m, m # h PROVE Due(m)' <= Due(m)
  <2>1. ~Written(m)
    BY <1>2 DEF Written
  <2>2. (Expected(m)' => Expected(m)) /\ (Awaits(m)' => Awaits(m))
    BY <1>1, <1>2, <2>1 DEF Expected, Awaits
  <2> QED
    BY <2>2, DueFalls
<1>3. ~Awaits(h)'
  BY <1>1 DEF Awaits
<1>4. Due(h)' <= Due(h) + 1
  BY <1>3, DueRises
<1>5. ASSUME unacked' = unacked \ {h} PROVE Due(h)' <= Due(h)
  <2>1. Expected(h)' => Expected(h)
    BY <1>1, <1>5 DEF Expected
  <2> QED
    BY <1>3, <2>1, DueFalls
<1> QED
  BY <1>2, <1>4, <1>5

LEMMA EventRowsStep ==
  ASSUME DwellTypeOK, Deliveries, EventRows, [DwellNext]_dwellVars
  PROVE  EventRows'
<1>0. /\ dwellFaults \in Nat /\ zoneRows \in [Messages -> Nat]
      /\ mailbox \in Seq(Messages) /\ unacked \subseteq Messages /\ Messages \subseteq Nat
      /\ zoneEvents \in Seq([pair : Pairs, ts : Stamps]) /\ Len(zoneEvents) \in Nat
  BY DwellAssumption DEF DwellTypeOK, Messages
<1>1. ASSUME UNCHANGED <<zoneRows, zoneEvents, mailbox, unacked, batch, dwellFaults>>,
             \A m : Written(m) => Written(m)'
      PROVE  EventRows'
  BY <1>1, SameDeliveries, EventRowsStays
<1>2. CASE UNCHANGED dwellVars \/ Minute
  BY <1>1, <1>2 DEF dwellVars, Minute, streamVars, rowVars, Written
<1>3. CASE ForceCloseStale \/ (\E p \in Pairs : CloseRow(p)) \/ ForceCloseDone
           \/ OpenSession \/ DwellRestarts
  BY <1>1, <1>3 DEF ForceCloseStale, CloseRow, ForceCloseDone, OpenSession,
                    DwellRestarts, streamVars, rowVars, Written
<1>4. ASSUME NEW p \in Pairs, NEW lag \in 0..MaxZoneLag, EnterZone(p, lag)
      PROVE  EventRows'
  <2>0. PICK n : n = Len(zoneEvents) + 1
    OBVIOUS
  <2>1. /\ zoneEvents' = Append(zoneEvents, [pair |-> p, ts |-> dwellClock - lag])
        /\ mailbox' = Append(mailbox, n)
        /\ UNCHANGED <<unacked, batch, dwellStep, zoneRows, dwellFaults>>
    BY <1>4, <2>0 DEF EnterZone, rowVars
  <2>2. [pair |-> p, ts |-> dwellClock - lag] \in [pair : Pairs, ts : Stamps]
    BY StampsAre DEF DwellTypeOK
  <2>3. Len(zoneEvents') = n /\ n \in Nat
    BY <1>0, <2>0, <2>1, <2>2, AppendIs
  <2>4. n \notin Mailed \union unacked /\ n \notin Read
    BY <1>0, <2>0 DEF Deliveries
  <2>5. Mailed' = Mailed \union {n}
    <3>1. mailbox \in Seq(Nat)
      BY <1>0, SeqMonotonic
    <3> QED
      BY <2>1, <2>3, <2>4, <3>1, MailedAppend DEF Deliveries
  <2>6. Read' = Read /\ \A m : Written(m)' <=> Written(m)
    BY <2>1 DEF Read, Written
  <2>7. ASSUME NEW m \in Messages
        PROVE  /\ zoneRows[m] + Due(m)' <= 1 + dwellFaults
               /\ m > Len(zoneEvents') => zoneRows[m] = 0
    <3>1. /\ zoneRows[m] + Due(m) <= 1 + dwellFaults /\ Due(m) \in Int /\ Due(m)' \in Int
          /\ m > Len(zoneEvents) => zoneRows[m] = 0
          /\ m \in Nat /\ zoneRows[m] \in Nat
      BY <1>0 DEF EventRows, Due
    <3>2. m > Len(zoneEvents') => zoneRows[m] = 0
      BY <1>0, <2>0, <2>3, <3>1
    <3>3. CASE m = n
      <4>1. zoneRows[m] = 0
        BY <1>0, <2>0, <3>1, <3>3
      <4>2. ~Awaits(m)'
        BY <2>4, <2>6, <3>3 DEF Awaits
      <4>3. Due(m)' <= 1
        BY <4>2 DEF Due
      <4> QED
        BY <1>0, <3>1, <3>2, <4>1, <4>3
    <3>4. CASE m # n
      <4>1. (Expected(m)' => Expected(m)) /\ (Awaits(m)' => Awaits(m))
        BY <2>1, <2>5, <2>6, <3>4 DEF Expected, Awaits
      <4>2. Due(m)' <= Due(m)
        BY <4>1, DueFalls
      <4> QED
        BY <1>0, <3>1, <3>2, <4>2
    <3> QED
      BY <3>3, <3>4
  <2> QED
    BY <2>1, <2>7 DEF EventRows
<1>5. ASSUME NEW m \in Messages, Requeue(m)
      PROVE  EventRows'
  <2>1. /\ m \in unacked /\ unacked' = unacked \ {m}
        /\ mailbox' = Append(mailbox, m)
        /\ UNCHANGED <<batch, dwellStep, zoneEvents, zoneRows>>
    BY <1>5 DEF Requeue, rowVars
  <2>2. Mailed' = Mailed \union {m}
    BY <1>0, <2>1, MailedAppend DEF Deliveries
  <2>3. Read' = Read /\ \A k : Written(k)' <=> Written(k)
    BY <2>1 DEF Read, Written
  <2>4. \A k : Awaits(k)' => Awaits(k)
    BY <2>3 DEF Awaits
  <2>5. \A k : k # m => (Expected(k)' => Expected(k))
    BY <2>1, <2>2, <2>3 DEF Expected
  <2>6. CASE m \in Read
    <3>1. dwellFaults' = dwellFaults + 1
      BY <1>5, <2>6 DEF Requeue, DwellFault, Read
    <3>2. \A k : Expected(k)' /\ Awaits(k)' => Expected(k) \/ Awaits(k)
      BY <2>4
    <3>3. \A k : Due(k)' <= Due(k) + 1
      BY <3>2, DueRises
    <3> QED
      BY <2>1, <3>1, <3>3, EventRowsStays
  <2>7. CASE m \notin Read
    <3>1. dwellFaults' = dwellFaults
      BY <1>5, <2>7 DEF Requeue, Read
    <3>2. Expected(m)
      BY <2>1, <2>7 DEF Expected
    <3>3. \A k : Due(k)' <= Due(k)
      BY <2>4, <2>5, <3>2, DueFalls
    <3> QED
      BY <2>1, <3>1, <3>3, EventRowsStays
  <2> QED
    BY <2>6, <2>7
<1>6. CASE ReadZoneEvents
  <2>1. /\ UNCHANGED <<zoneEvents, zoneRows, dwellFaults>>
    BY <1>6 DEF ReadZoneEvents, rowVars
  <2>2. Mailed' \intersect Read' = {} /\ Mailed' \union Read' = Mailed
        /\ unacked' = unacked \union Read'
    BY <1>6, ReadIs
  <2>3. Read = {}
    BY <1>6, ReadIs DEF Read
  <2>4. ASSUME NEW m PROVE Due(m)' <= Due(m)
    <3>1. CASE m \in Read'
      <4>1. Expected(m) /\ ~Expected(m)'
        BY <2>2, <3>1 DEF Expected
      <4> QED
        BY <4>1 DEF Due
    <3>2. CASE m \notin Read'
      <4>1. (Expected(m)' => Expected(m)) /\ ~Awaits(m)'
        BY <2>2, <2>3, <3>2 DEF Expected, Awaits
      <4> QED
        BY <4>1, DueFalls
    <3> QED
      BY <3>1, <3>2
  <2> QED
    BY <2>1, <2>4, EventRowsStays
<1>7. CASE InsertZoneEvent
  <2>0. PICK h : h = Head(batch)
    OBVIOUS
  <2>1. /\ h \in Messages /\ h \in Read /\ h <= Len(zoneEvents)
        /\ dwellStep = "insert" /\ dwellStep' = "dwell"
        /\ zoneRows' = [zoneRows EXCEPT ![h] = @ + 1]
        /\ UNCHANGED <<zoneEvents, mailbox, unacked, batch, dwellFaults>>
    BY <1>7, <2>0, InHand DEF InsertZoneEvent, Busy, streamVars
  <2>2. Mailed' = Mailed /\ Read' = Read /\ \A m : ~Written(m) /\ (Written(m)' <=> m = h)
    BY <2>0, <2>1 DEF Mailed, Read, Written
  <2>3. \A m : (Expected(m)' <=> Expected(m)) /\ (Awaits(m)' <=> Awaits(m) /\ m # h) /\ Awaits(h)
    BY <2>1, <2>2 DEF Expected, Awaits
  <2>4. Due(h)' = Due(h) - 1 /\ \A m : m # h => Due(m)' = Due(m)
    BY <2>3 DEF Due
  <2> SUFFICES ASSUME NEW m \in Messages
               PROVE  /\ zoneRows'[m] + Due(m)' <= 1 + dwellFaults
                      /\ m > Len(zoneEvents) => zoneRows'[m] = 0
    BY <2>1 DEF EventRows
  <2>5. /\ zoneRows[m] + Due(m) <= 1 + dwellFaults /\ Due(m) \in Int
        /\ m > Len(zoneEvents) => zoneRows[m] = 0
        /\ zoneRows[m] \in Nat /\ m \in Nat
    BY <1>0 DEF EventRows, Due
  <2>6. CASE m = h
    <3>1. zoneRows'[m] = zoneRows[m] + 1
      BY <1>0, <2>1, <2>6
    <3> QED
      BY <1>0, <2>1, <2>4, <2>5, <2>6, <3>1
  <2>7. CASE m # h
    <3>1. zoneRows'[m] = zoneRows[m]
      BY <1>0, <2>1, <2>7
    <3> QED
      BY <2>4, <2>5, <2>7, <3>1
  <2> QED
    BY <2>6, <2>7
<1>8. CASE InsertFails \/ OpenSessionFails \/ AckZoneEvent
  <2>0. PICK h : h = Head(batch)
    OBVIOUS
  <2>1. /\ UNCHANGED <<zoneEvents, zoneRows, mailbox>> /\ NextMessage /\ Busy
        /\ \/ dwellFaults' = dwellFaults + 1 /\ unacked' = unacked
           \/ dwellFaults' = dwellFaults /\ unacked' = unacked \ {h}
    BY <1>8, <2>0 DEF InsertFails, OpenSessionFails, AckZoneEvent, streamVars, rowVars,
                      DwellFault, Busy
  <2>2. /\ \A m : m # h => Due(m)' <= Due(m)
        /\ Due(h)' <= Due(h) + 1
        /\ unacked' = unacked \ {h} => Due(h)' <= Due(h)
    BY <2>0, <2>1, NextDue
  <2>3. \A m : Due(m) \in Int /\ Due(m)' \in Int
    BY DEF Due
  <2>4. \A m : Due(m)' <= Due(m) + 1
    BY <2>2, <2>3
  <2>5. unacked' = unacked \ {h} => \A m : Due(m)' <= Due(m)
    BY <2>2
  <2> QED
    BY <2>1, <2>4, <2>5, EventRowsStays
<1>9. CASE DwellStops
  <2>1. UNCHANGED <<zoneEvents, zoneRows>> /\ dwellFaults' = dwellFaults + 1 /\ batch' = <<>>
    BY <1>9 DEF DwellStops, streamVars, rowVars, DwellFault
  <2>2. \A m : ~Awaits(m)'
    BY <2>1 DEF Awaits, Read
  <2>3. \A m : Due(m)' <= Due(m) + 1
    BY <2>2, DueRises
  <2> QED
    BY <2>1, <2>3, EventRowsStays
<1> QED
  BY <1>2, <1>3, <1>4, <1>5, <1>6, <1>7, <1>8, <1>9 DEF DwellNext, DwellThread

-----------------------------------------------------------------------------
(* The sessions and their rows. *)

LEMMA CardinalityAdd ==
  ASSUME NEW A, IsFiniteSet(A), NEW x
  PROVE  /\ IsFiniteSet(A \union {x}) /\ Cardinality(A) \in Nat
         /\ Cardinality(A \union {x}) \in Nat
         /\ Cardinality(A \union {x}) <= Cardinality(A) + 1
<1>1. IsFiniteSet(A \union {x}) /\ Cardinality(A) \in Nat
  BY FS_AddElement, FS_CardinalityType
<1>2. Cardinality(A \union {x}) = IF x \in A THEN Cardinality(A) ELSE Cardinality(A) + 1
  BY FS_AddElement
<1> QED
  BY <1>1, <1>2

LEMMA OpenFinite ==
  ASSUME DwellTypeOK
  PROVE  \A p : IsFiniteSet(OpenOf(p)) /\ Cardinality(OpenOf(p)) \in Nat
<1>1. DOMAIN dwellRows = 1..Len(dwellRows) /\ Len(dwellRows) \in Nat
  BY LenProperties DEF DwellTypeOK
<1>2. IsFiniteSet(DOMAIN dwellRows)
  BY <1>1, FS_Interval
<1>3. \A p : OpenOf(p) \subseteq DOMAIN dwellRows
  BY DEF OpenOf
<1> QED
  BY <1>2, <1>3, FS_Subset, FS_CardinalityType

(* An opened session adds a row of its pair. *)
LEMMA OpenedIs ==
  ASSUME DwellTypeOK, NEW e \in [pair : Pairs, ts : Stamps],
         dwellRows' = Append(dwellRows, OpenRow(e))
  PROVE  /\ \E x : OpenOf(e.pair)' = OpenOf(e.pair) \union {x}
         /\ \A q \in Pairs : q # e.pair => OpenOf(q)' = OpenOf(q)
<1> DEFINE n == Len(dwellRows)
<1>1. dwellRows \in Seq(Row) /\ OpenRow(e) \in Row /\ OpenRow(e).pair = e.pair
      /\ OpenRow(e).exited = Never
  BY StampsAre DEF DwellTypeOK, OpenRow, Row
<1>2. /\ n \in Nat /\ Len(dwellRows') = n + 1 /\ dwellRows' \in Seq(Row)
      /\ \A i \in 1..n : dwellRows'[i] = dwellRows[i] /\ i \in 1..Len(dwellRows')
      /\ dwellRows'[n + 1] = OpenRow(e) /\ n + 1 \in 1..Len(dwellRows')
      /\ \A i \in 1..Len(dwellRows') : i \in 1..n \/ i = n + 1
  BY <1>1, AppendIs
<1>3. DOMAIN dwellRows = 1..n /\ DOMAIN dwellRows' = 1..Len(dwellRows')
  BY <1>1, <1>2, LenProperties
<1> HIDE DEF n
<1>4. OpenOf(e.pair)' = OpenOf(e.pair) \union {n + 1}
  BY <1>1, <1>2, <1>3 DEF OpenOf
<1>5. \A q \in Pairs : q # e.pair => OpenOf(q)' = OpenOf(q)
  BY <1>1, <1>2, <1>3 DEF OpenOf
<1> QED
  BY <1>4, <1>5

(* Closing a pair closes its rows, and no other. *)
LEMMA ClosedIs ==
  ASSUME DwellTypeOK, Closing, NEW p \in Pairs, CloseRow(p)
  PROVE  OpenOf(p)' = {} /\ \A q : q # p => OpenOf(q)' = OpenOf(q)
<1>1. closeAt # Never
  BY StampsAre DEF Closing, CloseRow
<1>2. dwellRows \in Seq(Row)
  BY DEF DwellTypeOK, Row
<1>3. \A i \in DOMAIN dwellRows : dwellRows[i] \in Row
  BY <1>2, LenProperties, ElementOfSeq
<1>4. dwellRows' = [i \in DOMAIN dwellRows |->
                        IF dwellRows[i].pair = p /\ dwellRows[i].exited = Never
                        THEN [dwellRows[i] EXCEPT !.exited = closeAt]
                        ELSE dwellRows[i]]
  BY DEF CloseRow
<1>5. \A r \in Row : /\ [r EXCEPT !.exited = closeAt].exited = closeAt
                     /\ [r EXCEPT !.exited = closeAt].pair = r.pair
  BY DEF Row
<1>6. /\ DOMAIN dwellRows' = DOMAIN dwellRows
      /\ \A i \in DOMAIN dwellRows :
            dwellRows'[i] = IF dwellRows[i].pair = p /\ dwellRows[i].exited = Never
                            THEN [dwellRows[i] EXCEPT !.exited = closeAt]
                            ELSE dwellRows[i]
  BY ONLY <1>4
<1>7. \A i \in DOMAIN dwellRows :
         /\ dwellRows'[i].pair = dwellRows[i].pair
         /\ dwellRows'[i].exited = IF dwellRows[i].pair = p /\ dwellRows[i].exited = Never
                                   THEN closeAt ELSE dwellRows[i].exited
  <2>1. ASSUME NEW i \in DOMAIN dwellRows
        PROVE  /\ dwellRows'[i].pair = dwellRows[i].pair
               /\ dwellRows'[i].exited = IF dwellRows[i].pair = p /\ dwellRows[i].exited = Never
                                         THEN closeAt ELSE dwellRows[i].exited
    <3>1. CASE dwellRows[i].pair = p /\ dwellRows[i].exited = Never
      <4>1. dwellRows'[i] = [dwellRows[i] EXCEPT !.exited = closeAt]
        BY <1>6, <3>1
      <4>2. dwellRows[i] \in Row
        BY <1>3
      <4> QED
        BY ONLY <1>5, <3>1, <4>1, <4>2
    <3>2. CASE ~(dwellRows[i].pair = p /\ dwellRows[i].exited = Never)
      <4>1. dwellRows'[i] = dwellRows[i]
        BY <1>6, <3>2
      <4> QED
        BY ONLY <3>2, <4>1
    <3> QED
      BY <3>1, <3>2
  <2> QED
    BY <2>1
<1> QED
  BY <1>1, <1>6, <1>7 DEF OpenOf

LEMMA ClosingStep ==
  ASSUME DwellTypeOK, Deliveries, Closing, [DwellNext]_dwellVars
  PROVE  Closing'
<1> USE DEF Closing
<1>1. CASE UNCHANGED dwellVars \/ Minute
  BY <1>1 DEF dwellVars, Minute, streamVars
<1>2. ASSUME NEW p \in Pairs, NEW lag \in 0..MaxZoneLag, EnterZone(p, lag)
      PROVE  Closing'
  <2> DEFINE e == [pair |-> p, ts |-> dwellClock - lag]
  <2>1. zoneEvents' = Append(zoneEvents, e) /\ UNCHANGED <<dwellStep, sessions, stale, closeAt>>
    BY <1>2 DEF EnterZone
  <2>2. e \in [pair : Pairs, ts : Stamps] /\ e.ts # Never
    BY StampsAre DEF DwellTypeOK
  <2>3. zoneEvents \in Seq([pair : Pairs, ts : Stamps])
    BY DEF DwellTypeOK
  <2> HIDE DEF e
  <2>4. \A i \in 1..Len(zoneEvents') : zoneEvents'[i].ts # Never
    BY <2>1, <2>2, <2>3, AppendIs
  <2> QED
    BY <2>1, <2>4
<1>3. ASSUME NEW m \in Messages, Requeue(m) PROVE Closing'
  BY <1>3 DEF Requeue
<1>4. CASE ForceCloseStale
  <2>1. /\ dwellStep' = "close" /\ closeAt' \in Nat /\ UNCHANGED zoneEvents
        /\ stale' = {p \in Pairs : IsStale(p)}
        /\ sessions' = [p \in Pairs |-> IF IsStale(p) THEN Never ELSE sessions[p]]
    BY <1>4, DwellAssumption DEF ForceCloseStale, streamVars, DwellTypeOK
  <2> QED
    BY <2>1
<1>5. ASSUME NEW p \in Pairs, CloseRow(p) PROVE Closing'
  BY <1>5 DEF CloseRow, streamVars
<1>6. CASE ForceCloseDone \/ InsertZoneEvent \/ AckZoneEvent \/ DwellStops \/ InsertFails
  BY <1>6 DEF ForceCloseDone, InsertZoneEvent, AckZoneEvent, DwellStops, InsertFails, NextMessage,
              streamVars
<1>7. CASE ReadZoneEvents
  <2>1. /\ UNCHANGED <<stale, sessions, zoneEvents, closeAt>> /\ dwellStep # "close"
        /\ dwellStep' \in {"top", "insert"}
    BY <1>7 DEF ReadZoneEvents
  <2> QED
    BY <2>1
<1>8. CASE OpenSession \/ OpenSessionFails
  <2>1. stale = {} /\ stale' = {} /\ dwellStep' # "close" /\ UNCHANGED zoneEvents
    BY <1>8 DEF OpenSession, OpenSessionFails, NextMessage, streamVars
  <2> QED
    BY <2>1
<1>9. CASE DwellRestarts
  BY <1>9 DEF DwellRestarts, streamVars
<1> QED
  BY <1>1, <1>2, <1>3, <1>4, <1>5, <1>6, <1>7, <1>8, <1>9 DEF DwellNext, DwellThread

(* The rows of a pair, when the step adds none. *)
LEMMA OpenRowsStays ==
  ASSUME DwellTypeOK, OpenRows, \A p \in Pairs : OpenOf(p)' = OpenOf(p),
         \/ dwellFaults' = dwellFaults + 1
         \/ /\ dwellFaults' = dwellFaults
            /\ \A p \in Pairs :
                  dwellStep' = "down" \/ (sessions'[p] = Never /\ p \notin stale')
                    => dwellStep = "down" \/ (sessions[p] = Never /\ p \notin stale)
  PROVE  OpenRows'
<1>1. dwellFaults \in Nat /\ \A p : Cardinality(OpenOf(p)) \in Nat
  BY OpenFinite, DwellAssumption DEF DwellTypeOK
<1> SUFFICES ASSUME NEW p \in Pairs
             PROVE  /\ Cardinality(OpenOf(p)) <= 1 + dwellFaults'
                    /\ dwellStep' = "down" \/ (sessions'[p] = Never /\ p \notin stale')
                         => Cardinality(OpenOf(p)) <= dwellFaults'
  BY DEF OpenRows
<1>2. /\ Cardinality(OpenOf(p)) <= 1 + dwellFaults
      /\ dwellStep = "down" \/ (sessions[p] = Never /\ p \notin stale)
            => Cardinality(OpenOf(p)) <= dwellFaults
  BY DEF OpenRows
<1> QED
  BY <1>1, <1>2

(* The sessions without a row, when none is added. *)
LEMMA UnwrittenStays ==
  ASSUME DwellTypeOK, Unwritten, dwellFaults' \in {dwellFaults, dwellFaults + 1},
         Rowless' \subseteq Rowless
  PROVE  Unwritten'
<1>1. IsFiniteSet(Rowless') /\ Cardinality(Rowless') <= Cardinality(Rowless)
  BY FS_Subset DEF Unwritten
<1>2. Cardinality(Rowless') \in Nat /\ Cardinality(Rowless) \in Nat /\ dwellFaults \in Nat
  BY <1>1, FS_CardinalityType, DwellAssumption DEF Unwritten, DwellTypeOK
<1>3. Cardinality(Rowless) <= dwellFaults
  BY DEF Unwritten
<1>4. Cardinality(Rowless') <= dwellFaults'
  BY <1>1, <1>2, <1>3
<1> QED
  BY <1>1, <1>4 DEF Unwritten

LEMMA SessionRowsStep ==
  ASSUME DwellInv, [DwellNext]_dwellVars
  PROVE  OpenRows' /\ Unwritten'
<1>0. /\ DwellTypeOK /\ Deliveries /\ Closing /\ OpenRows /\ Unwritten
      /\ dwellFaults \in Nat /\ sessions \in [Pairs -> Stamps]
  BY DwellAssumption DEF DwellInv, DwellTypeOK
<1>1. ASSUME UNCHANGED <<dwellRows, sessions, stale>>,
             \/ dwellFaults' = dwellFaults + 1
             \/ dwellFaults' = dwellFaults /\ (dwellStep' = "down" => dwellStep = "down")
      PROVE  OpenRows' /\ Unwritten'
  <2>1. \A p : OpenOf(p)' = OpenOf(p)
    BY <1>1 DEF OpenOf
  <2>2. Rowless' \subseteq Rowless
    BY <1>1, <2>1 DEF Rowless
  <2> QED
    BY <1>0, <1>1, <2>1, <2>2, OpenRowsStays, UnwrittenStays
<1>2. CASE UNCHANGED dwellVars \/ Minute
  BY <1>1, <1>2 DEF dwellVars, Minute, rowVars
<1>3. CASE \/ \E p \in Pairs, lag \in 0..MaxZoneLag : EnterZone(p, lag)
           \/ \E m \in Messages : Requeue(m)
  BY <1>1, <1>3 DEF EnterZone, Requeue, DwellFault, rowVars
<1>4. CASE ForceCloseDone \/ ReadZoneEvents \/ InsertZoneEvent \/ AckZoneEvent
  BY <1>1, <1>4 DEF ForceCloseDone, ReadZoneEvents, InsertZoneEvent, AckZoneEvent, NextMessage,
                    rowVars
<1>5. CASE InsertFails
  BY <1>1, <1>5 DEF InsertFails, DwellFault, rowVars
<1>6. CASE ForceCloseStale
  <2>1. /\ dwellStep = "top" /\ dwellStep' = "close" /\ dwellFaults' = dwellFaults
        /\ stale = {} /\ stale' = {p \in Pairs : IsStale(p)}
        /\ sessions' = [p \in Pairs |-> IF IsStale(p) THEN Never ELSE sessions[p]]
        /\ dwellRows' = dwellRows
    BY <1>0, <1>6 DEF ForceCloseStale, rowVars, Closing
  <2>2. \A p : OpenOf(p)' = OpenOf(p)
    BY <2>1 DEF OpenOf
  <2>3. \A p \in Pairs : sessions'[p] = Never /\ p \notin stale' => sessions[p] = Never
    BY <2>1
  <2>4. Rowless' \subseteq Rowless
    BY <2>1, <2>2 DEF Rowless
  <2> QED
    BY <1>0, <2>1, <2>2, <2>3, <2>4, OpenRowsStays, UnwrittenStays
<1>7. ASSUME NEW p \in Pairs, CloseRow(p)
      PROVE  OpenRows' /\ Unwritten'
  <2>1. /\ p \in stale /\ stale' = stale \ {p} /\ sessions[p] = Never /\ dwellStep = "close"
        /\ UNCHANGED <<dwellStep, sessions, dwellFaults>>
    BY <1>0, <1>7 DEF CloseRow, Closing
  <2>2. OpenOf(p)' = {} /\ \A q : q # p => OpenOf(q)' = OpenOf(q)
    BY <1>0, <1>7, ClosedIs
  <2>3. Rowless' \subseteq Rowless
    BY <2>1, <2>2 DEF Rowless
  <2>4. ASSUME NEW q \in Pairs
        PROVE  /\ Cardinality(OpenOf(q)') <= 1 + dwellFaults
               /\ sessions[q] = Never /\ q \notin stale' => Cardinality(OpenOf(q)') <= dwellFaults
    <3>1. CASE q = p
      <4>1. Cardinality(OpenOf(q)') = 0
        BY <2>2, <3>1, FS_EmptySet
      <4> QED
        BY <1>0, <4>1
    <3>2. CASE q # p
      BY <1>0, <2>1, <2>2, <3>2 DEF OpenRows
    <3> QED
      BY <3>1, <3>2
  <2>5. OpenRows'
    BY <2>1, <2>4 DEF OpenRows
  <2> QED
    BY <1>0, <2>1, <2>3, <2>5, UnwrittenStays
<1>8. CASE OpenSession
  <2>0. PICK e : e = Event
    OBVIOUS
  <2>1. /\ e \in [pair : Pairs, ts : Stamps] /\ e.pair \in Pairs /\ e.ts \in Stamps /\ e.ts # Never
        /\ stale = {} /\ dwellStep = "dwell"
        /\ dwellStep' = "ack" /\ UNCHANGED <<stale, dwellFaults>>
    <3>1. Busy
      BY <1>8 DEF OpenSession, Busy
    <3>2. e \in [pair : Pairs, ts : Stamps]
      BY <1>0, <2>0, <3>1, InHand
    <3>3. e.ts # Never
      BY <1>0, <2>0, <3>1, InHand DEF Closing, Event
    <3> QED
      BY <1>0, <1>8, <3>2, <3>3 DEF OpenSession, Closing
  <2>2. CASE UNCHANGED <<sessions, dwellRows>>
    BY <1>1, <2>1, <2>2
  <2>3. CASE /\ sessions[e.pair] = Never
             /\ sessions' = [sessions EXCEPT ![e.pair] = e.ts]
             /\ dwellRows' = Append(dwellRows, OpenRow(e))
    <3>1. /\ \E x : OpenOf(e.pair)' = OpenOf(e.pair) \union {x}
          /\ \A q \in Pairs : q # e.pair => OpenOf(q)' = OpenOf(q)
      BY <1>0, <2>1, <2>3, OpenedIs
    <3>2. PICK x : OpenOf(e.pair)' = OpenOf(e.pair) \union {x}
      BY <3>1
    <3>3. sessions'[e.pair] # Never /\ \A q \in Pairs : q # e.pair => sessions'[q] = sessions[q]
      BY <1>0, <2>1, <2>3
    <3>4. Rowless' \subseteq Rowless
      BY <3>1, <3>2, <3>3 DEF Rowless
    <3>5. Cardinality(OpenOf(e.pair)) <= dwellFaults
      BY <1>0, <2>1, <2>3 DEF OpenRows
    <3>6. Cardinality(OpenOf(e.pair)') <= 1 + dwellFaults
      <4>1. /\ IsFiniteSet(OpenOf(e.pair)) /\ Cardinality(OpenOf(e.pair)) \in Nat
        BY <1>0, OpenFinite
      <4>2. /\ Cardinality(OpenOf(e.pair)') \in Nat
            /\ Cardinality(OpenOf(e.pair)') <= Cardinality(OpenOf(e.pair)) + 1
        BY <3>2, <4>1, CardinalityAdd
      <4> QED
        BY <1>0, <3>5, <4>1, <4>2
    <3>7. OpenRows'
      <4> SUFFICES ASSUME NEW q \in Pairs
                   PROVE  /\ Cardinality(OpenOf(q)') <= 1 + dwellFaults
                          /\ sessions'[q] = Never => Cardinality(OpenOf(q)') <= dwellFaults
        BY <2>1 DEF OpenRows
      <4>1. CASE q = e.pair
        BY <3>3, <3>6, <4>1
      <4>2. CASE q # e.pair
        BY <1>0, <2>1, <3>1, <3>3, <4>2 DEF OpenRows
      <4> QED
        BY <4>1, <4>2
    <3> QED
      BY <1>0, <2>1, <3>4, <3>7, UnwrittenStays
  <2> QED
    BY <1>8, <2>0, <2>2, <2>3 DEF OpenSession
<1>9. CASE OpenSessionFails
  <2>0. PICK e : e = Event
    OBVIOUS
  <2>1. /\ dwellFaults' = dwellFaults + 1 /\ dwellRows' = dwellRows
        /\ sessions' = [sessions EXCEPT ![e.pair] = e.ts]
    BY <1>9, <2>0 DEF OpenSessionFails, DwellFault, rowVars
  <2>2. \A p : OpenOf(p)' = OpenOf(p)
    BY <2>1 DEF OpenOf
  <2>3. OpenRows'
    BY <1>0, <2>1, <2>2, OpenRowsStays
  <2>4. Rowless' \subseteq Rowless \union {e.pair}
    BY <1>0, <2>1, <2>2 DEF Rowless
  <2>5. /\ IsFiniteSet(Rowless \union {e.pair}) /\ Cardinality(Rowless) \in Nat
        /\ Cardinality(Rowless \union {e.pair}) \in Nat
        /\ Cardinality(Rowless \union {e.pair}) <= Cardinality(Rowless) + 1
    BY <1>0, CardinalityAdd DEF Unwritten
  <2>6. IsFiniteSet(Rowless') /\ Cardinality(Rowless') <= Cardinality(Rowless \union {e.pair})
    BY <2>4, <2>5, FS_Subset
  <2>7. Cardinality(Rowless') \in Nat /\ Cardinality(Rowless) <= dwellFaults
    BY <1>0, <2>6, FS_CardinalityType DEF Unwritten
  <2>8. Cardinality(Rowless') <= dwellFaults'
    BY <1>0, <2>1, <2>5, <2>6, <2>7
  <2> QED
    BY <2>3, <2>6, <2>8 DEF Unwritten
<1>10. CASE DwellStops
  <2>1. UNCHANGED <<dwellRows, sessions>> /\ dwellFaults' = dwellFaults + 1
    BY <1>10 DEF DwellStops, DwellFault, rowVars
  <2>2. \A p : OpenOf(p)' = OpenOf(p)
    BY <2>1 DEF OpenOf
  <2>3. Rowless' \subseteq Rowless
    BY <2>1, <2>2 DEF Rowless
  <2> QED
    BY <1>0, <2>1, <2>2, <2>3, OpenRowsStays, UnwrittenStays
<1>11. CASE DwellRestarts
  <2>1. /\ dwellStep = "down" /\ UNCHANGED <<dwellRows, dwellFaults>>
        /\ sessions' = [p \in Pairs |-> Never]
    BY <1>11 DEF DwellRestarts, rowVars
  <2>2. \A p : OpenOf(p)' = OpenOf(p)
    BY <2>1 DEF OpenOf
  <2>3. Rowless' \subseteq Rowless
    BY <2>1 DEF Rowless
  <2> QED
    BY <1>0, <2>1, <2>2, <2>3, OpenRowsStays, UnwrittenStays
<1> QED
  BY <1>2, <1>3, <1>4, <1>5, <1>6, <1>7, <1>8, <1>9, <1>10, <1>11 DEF DwellNext, DwellThread

-----------------------------------------------------------------------------
LEMMA DwellInitially == DwellInit => DwellInv
<1> SUFFICES ASSUME DwellInit PROVE DwellInv
  OBVIOUS
<1>1. /\ zoneEvents = <<>> /\ mailbox = <<>> /\ unacked = {} /\ batch = <<>> /\ dwellStep = "top"
      /\ sessions = [p \in Pairs |-> Never] /\ stale = {} /\ dwellRows = <<>> /\ dwellFaults = 0
      /\ zoneRows = [m \in Messages |-> 0] /\ dwellClock = 0
      /\ closeAt = Never /\ lastClose = Never
  BY DEF DwellInit
<1>2. DwellTypeOK
  <2>1. /\ dwellClock \in 0..DwellHorizon /\ dwellFaults \in 0..MaxDwellFaults
        /\ sessions \in [Pairs -> Stamps] /\ closeAt \in Stamps /\ lastClose \in Stamps
        /\ zoneRows \in [Messages -> Nat]
    BY <1>1, StampsAre, DwellAssumption
  <2>2. \A S : <<>> \in Seq(S)
    BY EmptySeq
  <2> QED
    BY <1>1, <2>1, <2>2 DEF DwellTypeOK
<1>3. Mailed = {} /\ Read = {} /\ Once(mailbox) /\ Once(batch)
  BY <1>1 DEF Mailed, Read, Once
<1>4. Deliveries
  BY <1>1, <1>3 DEF Deliveries, Busy
<1>5. EventRows
  <2>1. \A m : Due(m) = 0
    BY <1>1, <1>3 DEF Due, Expected, Awaits
  <2> QED
    BY <1>1, <2>1 DEF EventRows
<1>6. Closing
  BY <1>1 DEF Closing
<1>7. \A p : OpenOf(p) = {}
  BY <1>1 DEF OpenOf
<1>8. OpenRows
  <2>1. \A p : Cardinality(OpenOf(p)) = 0
    BY <1>7, FS_EmptySet
  <2>2. 0 <= dwellFaults /\ 0 <= 1 + dwellFaults
    BY <1>1
  <2> QED
    BY <2>1, <2>2 DEF OpenRows
<1>9. Rowless = {}
  BY <1>1 DEF Rowless
<1>10. Unwritten
  BY <1>1, <1>9, FS_EmptySet DEF Unwritten
<1> QED
  BY <1>2, <1>4, <1>5, <1>6, <1>8, <1>10 DEF DwellInv

THEOREM DwellInvariant == DwellSpec => []DwellInv
<1>1. DwellInit => DwellInv
  BY DwellInitially
<1>2. DwellInv /\ [DwellNext]_dwellVars => DwellInv'
  BY DwellTypesStep, DeliveriesStep, EventRowsStep, ClosingStep, SessionRowsStep DEF DwellInv
<1> QED
  BY <1>1, <1>2, PTL DEF DwellSpec

(* The types of the dwell sessions' state, among them the bound on the faults. *)
THEOREM DwellTypes == DwellSpec => []DwellTypeOK
<1>1. DwellInv => DwellTypeOK
  BY DEF DwellInv
<1> QED
  BY <1>1, DwellInvariant, PTL

(* A session in memory lacks its open row only if its upsert failed. *)
THEOREM RowlessSessionsAreFaults == DwellSpec => []SessionsHaveRows
<1>1. Rowless = {p \in Pairs :
         /\ sessions[p] # Never
         /\ ~\E i \in DOMAIN dwellRows :
                dwellRows[i].pair = p /\ dwellRows[i].exited = Never}
  BY DEF Rowless, OpenOf
<1>2. DwellInv => SessionsHaveRows
  BY <1>1 DEF DwellInv, Unwritten, SessionsHaveRows
<1> QED
  BY <1>2, DwellInvariant, PTL

(* An event has a second row, and a pair a second open row, only for a fault. *)
THEOREM RowsRepeatForFaults == DwellSpec => []RepeatedRowsAreFaults
<1>1. ASSUME DwellInv PROVE RepeatedRowsAreFaults
  <2>1. ASSUME NEW m \in Messages PROVE zoneRows[m] <= 1 + dwellFaults
    <3>1. zoneRows[m] + Due(m) <= 1 + dwellFaults /\ Due(m) \in Nat
      BY <1>1 DEF DwellInv, EventRows, Due
    <3>2. zoneRows[m] \in Nat /\ dwellFaults \in Nat
      BY <1>1, DwellAssumption DEF DwellInv, DwellTypeOK
    <3> QED
      BY <3>1, <3>2
  <2> QED
    BY <1>1, <2>1 DEF DwellInv, OpenRows, OpenOf, RepeatedRowsAreFaults
<1> QED
  BY <1>1, DwellInvariant, PTL
=============================================================================
