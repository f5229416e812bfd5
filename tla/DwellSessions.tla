--------------------------- MODULE DwellSessions ---------------------------
(***************************************************************************)
(* The zone-event half of TelemetryWorker with its DwellBookkeeper: each   *)
(* event of stream:zone_events becomes a row of zone_events, the first     *)
(* event of a pair (global_id, zone) opens a session in memory and a row   *)
(* in dwell_sessions, and once a minute the sessions older than MaxOpen    *)
(* are taken out of memory and then closed in PostgreSQL, one by one.      *)
(*                                                                         *)
(* The only producer of zone events, the resolver, publishes "enter" and   *)
(* never "exit", so sessions end by age alone.  dwell_sessions has no      *)
(* unique constraint but its serial key: ON CONFLICT DO NOTHING never      *)
(* applies, and an insert always adds a row.                               *)
(*                                                                         *)
(* A handler that raises leaves its message pending and goes on; anything  *)
(* else that raises (consume, ack, force-close) ends the thread.  Pending  *)
(* messages come back through the PEL sweeper, which StreamDelivery models *)
(* in full.  A tick of the clock is a minute.                              *)
(***************************************************************************)
EXTENDS Integers, Sequences, FiniteSets

CONSTANTS
    Pairs,            \* (global_id, zone_id)
    MaxOpen,          \* max_open_seconds
    DwellBatch,       \* count of consume
    MaxZoneLag,       \* bound on the age of an event when it is published
    DwellHorizon,     \* bound on the clock
    MaxZoneEvents,    \* bound on the events published
    MaxDwellFaults    \* bound on failed calls, crashes, and sweeps of a message in hand

ASSUME DwellAssumption ==
    /\ MaxOpen \in Nat /\ DwellBatch \in Nat \ {0} /\ MaxZoneLag \in Nat
    /\ DwellHorizon \in Nat /\ MaxZoneEvents \in Nat /\ MaxDwellFaults \in Nat

VARIABLES
    dwellClock,   \* the clock
    zoneEvents,   \* the events published, in order: [pair, ts]
    mailbox,      \* entries of the stream not yet delivered to the group
    unacked,      \* delivered and not acknowledged
    batch,        \* the messages consume returned, the current one first
    dwellStep,    \* where the thread is
    sessions,     \* DwellBookkeeper._open: entered_at of each open session
    stale,        \* the sessions force_close_stale returned, still to be written
    closeAt,      \* the loop's now
    lastClose,    \* last_force_close
    zoneRows,     \* zoneRows[m]: rows of zone_events written for event m
    dwellRows,    \* the rows of dwell_sessions
    dwellFaults   \* faults so far

dwellVars == <<dwellClock, zoneEvents, mailbox, unacked, batch, dwellStep, sessions,
               stale, closeAt, lastClose, zoneRows, dwellRows, dwellFaults>>
streamVars == <<zoneEvents, mailbox, unacked>>
rowVars == <<zoneRows, dwellRows>>

Never == -1 - MaxZoneLag
Stamps == Never..DwellHorizon
Messages == 1..MaxZoneEvents

DwellTypeOK ==
    /\ dwellClock \in 0..DwellHorizon
    /\ zoneEvents \in Seq([pair : Pairs, ts : Stamps])
    /\ mailbox \in Seq(Messages) /\ unacked \subseteq Messages
    /\ batch \in Seq(Messages)
    /\ dwellStep \in {"top", "close", "read", "insert", "dwell", "ack", "down"}
    /\ sessions \in [Pairs -> Stamps] /\ stale \subseteq Pairs
    /\ closeAt \in Stamps /\ lastClose \in Stamps
    /\ zoneRows \in [Messages -> Nat]
    /\ dwellRows \in Seq([pair : Pairs, entered : Stamps, exited : Stamps])
    /\ dwellFaults \in 0..MaxDwellFaults

DwellInit ==
    /\ dwellClock = 0 /\ zoneEvents = <<>> /\ mailbox = <<>> /\ unacked = {}
    /\ batch = <<>> /\ dwellStep = "top"
    /\ sessions = [p \in Pairs |-> Never] /\ stale = {}
    /\ closeAt = Never /\ lastClose = Never
    /\ zoneRows = [m \in Messages |-> 0] /\ dwellRows = <<>>
    /\ dwellFaults = 0

DwellFault == dwellFaults < MaxDwellFaults /\ dwellFaults' = dwellFaults + 1

-----------------------------------------------------------------------------
(* The environment: the clock, the resolver, the sweeper. *)
Minute ==
    /\ dwellClock < DwellHorizon
    /\ dwellClock' = dwellClock + 1
    /\ UNCHANGED <<streamVars, batch, dwellStep, sessions, stale, closeAt, lastClose,
                   rowVars, dwellFaults>>

(* The resolver publishes "enter" with the time stamp of the tracklet. *)
EnterZone(p, lag) ==
    /\ Len(zoneEvents) < MaxZoneEvents
    /\ zoneEvents' = Append(zoneEvents, [pair |-> p, ts |-> dwellClock - lag])
    /\ mailbox' = Append(mailbox, Len(zoneEvents) + 1)
    /\ UNCHANGED <<dwellClock, unacked, batch, dwellStep, sessions, stale, closeAt,
                   lastClose, rowVars, dwellFaults>>

(* The sweeper claims an idle entry, appends a copy and acknowledges it.  An
   entry the thread still has in its batch is that old only when the thread is
   late; its own acknowledgement then finds the entry gone. *)
Requeue(m) ==
    /\ m \in unacked
    /\ IF \E i \in 1..Len(batch) : batch[i] = m THEN DwellFault ELSE UNCHANGED dwellFaults
    /\ unacked' = unacked \ {m}
    /\ mailbox' = Append(mailbox, m)
    /\ UNCHANGED <<dwellClock, zoneEvents, batch, dwellStep, sessions, stale, closeAt,
                   lastClose, rowVars>>

-----------------------------------------------------------------------------
IsStale(p) == sessions[p] # Never /\ dwellClock - sessions[p] > MaxOpen

(* Mutant: the stale sessions are returned and stay in memory. *)
ForceCloseStale_Keeps ==
    /\ dwellStep = "top" /\ dwellClock > lastClose
    /\ stale' = {p \in Pairs : IsStale(p)}
    /\ closeAt' = dwellClock
    /\ dwellStep' = "close"
    /\ UNCHANGED <<dwellClock, streamVars, batch, sessions, lastClose, rowVars,
                   dwellFaults>>

(* Top of the loop, a minute or more after the last force-close: all stale
   sessions leave memory before the first of them is written. *)
ForceCloseStale ==
    /\ dwellStep = "top" /\ dwellClock > lastClose
    /\ stale' = {p \in Pairs : IsStale(p)}
    /\ sessions' = [p \in Pairs |-> IF IsStale(p) THEN Never ELSE sessions[p]]
    /\ closeAt' = dwellClock
    /\ dwellStep' = "close"
    /\ UNCHANGED <<dwellClock, streamVars, batch, lastClose, rowVars, dwellFaults>>

(* upsert_dwell "exit" updates every open row of the pair, also those of
   sessions an earlier process had opened. *)
CloseRow(p) ==
    /\ dwellStep = "close" /\ p \in stale
    /\ stale' = stale \ {p}
    /\ dwellRows' = [i \in DOMAIN dwellRows |->
                        IF dwellRows[i].pair = p /\ dwellRows[i].exited = Never
                        THEN [dwellRows[i] EXCEPT !.exited = closeAt]
                        ELSE dwellRows[i]]
    /\ UNCHANGED <<dwellClock, streamVars, batch, dwellStep, sessions, closeAt,
                   lastClose, zoneRows, dwellFaults>>

ForceCloseDone ==
    /\ dwellStep = "close" /\ stale = {}
    /\ lastClose' = closeAt
    /\ dwellStep' = "read"
    /\ UNCHANGED <<dwellClock, streamVars, batch, sessions, stale, closeAt, rowVars,
                   dwellFaults>>

(* consume: a batch of undelivered messages, none when the block times out. *)
ReadZoneEvents ==
    LET n == IF Len(mailbox) < DwellBatch THEN Len(mailbox) ELSE DwellBatch
    IN  /\ \/ dwellStep = "read"
           \/ dwellStep = "top" /\ dwellClock <= lastClose /\ n > 0
        /\ batch' = SubSeq(mailbox, 1, n)
        /\ mailbox' = SubSeq(mailbox, n + 1, Len(mailbox))
        /\ unacked' = unacked \union {mailbox[i] : i \in 1..n}
        /\ dwellStep' = IF n = 0 THEN "top" ELSE "insert"
        /\ UNCHANGED <<dwellClock, zoneEvents, sessions, stale, closeAt, lastClose,
                       rowVars, dwellFaults>>

(* On to the next message of the batch. *)
NextMessage ==
    /\ batch' = Tail(batch)
    /\ dwellStep' = IF Len(batch) = 1 THEN "top" ELSE "insert"

InsertZoneEvent ==
    /\ dwellStep = "insert"
    /\ zoneRows' = [zoneRows EXCEPT ![Head(batch)] = @ + 1]
    /\ dwellStep' = "dwell"
    /\ UNCHANGED <<dwellClock, streamVars, batch, sessions, stale, closeAt, lastClose,
                   dwellRows, dwellFaults>>

(* insert_zone_event raises: logged, the message stays pending. *)
InsertFails ==
    /\ dwellStep = "insert" /\ DwellFault
    /\ NextMessage
    /\ UNCHANGED <<dwellClock, streamVars, sessions, stale, closeAt, lastClose, rowVars>>

Event == zoneEvents[Head(batch)]
OpenRow(e) == [pair |-> e.pair, entered |-> e.ts, exited |-> Never]

(* Mutant: every "enter" writes a row. *)
OpenSession_Always ==
    /\ dwellStep = "dwell"
    /\ sessions' = [sessions EXCEPT ![Event.pair] = Event.ts]
    /\ dwellRows' = Append(dwellRows, OpenRow(Event))
    /\ dwellStep' = "ack"
    /\ UNCHANGED <<dwellClock, streamVars, batch, stale, closeAt, lastClose, zoneRows,
                   dwellFaults>>

(* on_event: the first "enter" of a pair opens a session and its row; the
   pair's later ones are ignored. *)
OpenSession ==
    /\ dwellStep = "dwell"
    /\ IF sessions[Event.pair] = Never
       THEN /\ sessions' = [sessions EXCEPT ![Event.pair] = Event.ts]
            /\ dwellRows' = Append(dwellRows, OpenRow(Event))
       ELSE UNCHANGED <<sessions, dwellRows>>
    /\ dwellStep' = "ack"
    /\ UNCHANGED <<dwellClock, streamVars, batch, stale, closeAt, lastClose, zoneRows,
                   dwellFaults>>

(* upsert_dwell raises after the session was opened in memory: the message
   stays pending, and when it comes back the session is open already. *)
OpenSessionFails ==
    /\ dwellStep = "dwell" /\ DwellFault
    /\ sessions[Event.pair] = Never
    /\ sessions' = [sessions EXCEPT ![Event.pair] = Event.ts]
    /\ NextMessage
    /\ UNCHANGED <<dwellClock, streamVars, stale, closeAt, lastClose, rowVars>>

AckZoneEvent ==
    /\ dwellStep = "ack"
    /\ unacked' = unacked \ {Head(batch)}
    /\ NextMessage
    /\ UNCHANGED <<dwellClock, zoneEvents, mailbox, sessions, stale, closeAt, lastClose,
                   rowVars, dwellFaults>>

(* consume, ack or a force-close write raises, or the process dies: the
   thread is gone, with its batch and the stale sessions it was writing. *)
DwellStops ==
    /\ dwellStep # "down" /\ DwellFault
    /\ dwellStep' = "down" /\ batch' = <<>> /\ stale' = {}
    /\ UNCHANGED <<dwellClock, streamVars, sessions, closeAt, lastClose, rowVars>>

(* A new process: no session is known. *)
DwellRestarts ==
    /\ dwellStep = "down"
    /\ dwellStep' = "top"
    /\ sessions' = [p \in Pairs |-> Never] /\ lastClose' = Never
    /\ UNCHANGED <<dwellClock, streamVars, batch, stale, closeAt, rowVars, dwellFaults>>

DwellThread ==
    \/ ForceCloseStale \/ (\E p \in Pairs : CloseRow(p)) \/ ForceCloseDone
    \/ ReadZoneEvents
    \/ InsertZoneEvent \/ OpenSession \/ AckZoneEvent

DwellNext ==
    \/ DwellThread \/ InsertFails \/ OpenSessionFails
    \/ DwellStops \/ DwellRestarts \/ Minute
    \/ \E p \in Pairs, lag \in 0..MaxZoneLag : EnterZone(p, lag)
    \/ \E m \in Messages : Requeue(m)

DwellSpec == DwellInit /\ [][DwellNext]_dwellVars

-----------------------------------------------------------------------------
(* Every session the worker holds in memory has its open row, but for those
   whose upsert failed: their message comes back, finds the session open, and
   is acknowledged without a row.  (on_zone_event, force_close_stale) *)
SessionsHaveRows ==
    Cardinality({p \in Pairs :
        /\ sessions[p] # Never
        /\ ~\E i \in DOMAIN dwellRows :
               dwellRows[i].pair = p /\ dwellRows[i].exited = Never})
        <= dwellFaults

(* A redelivered zone event is inserted again before the bookkeeper can tell
   that it is a repetition, but it opens no second session: an event has one
   row of zone_events, a pair at most one open row of dwell_sessions, and one
   more for each fault (a message left pending, or swept while a late thread
   had it in hand; a process lost with its sessions).  (on_zone_event, DwellBookkeeper.on_event) *)
RepeatedRowsAreFaults ==
    /\ \A m \in Messages : zoneRows[m] <= 1 + dwellFaults
    /\ \A p \in Pairs :
           Cardinality({i \in DOMAIN dwellRows :
                          dwellRows[i].pair = p /\ dwellRows[i].exited = Never})
               <= 1 + dwellFaults
=============================================================================
