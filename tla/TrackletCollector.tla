------------------------- MODULE TrackletCollector -------------------------
(***************************************************************************)
(* TrackletCollector: turns detections into tracklets, closes a tracklet   *)
(* when its track has fallen silent, and hands closed tracklets to         *)
(* PostgreSQL and to stream:tracklets.                                     *)
(*                                                                         *)
(* Four threads call it: the detection consumer (on_detection), the main   *)
(* loop (on_frame), the SAHI bridge (on_sahi_detection) and two            *)
(* finalizers, the auto-finalize thread and the main loop.  Everything     *)
(* that touches the tracklets in flight runs under one lock and is one     *)
(* step here; emit_closed_tracklets runs outside the lock, one store call  *)
(* at a time, on the list its finalizer took away.                         *)
(*                                                                         *)
(* A key stands for a pair (camera, local_track_id).  Time is counted in   *)
(* ticks; a detection carries the time of its frame, up to MaxLag ticks    *)
(* before the time it arrives.  Crops, bounding boxes and embeddings are   *)
(* reduced to whether they are enough for the tracklet to be kept.         *)
(***************************************************************************)
EXTENDS Integers, FiniteSets

CONSTANTS
    Keys,          \* (camera_id, local_track_id) pairs
    MaxAge,        \* MaxAge[f]: silence after which finalizer f closes
    MinFrames,     \* min_track_age_frames
    MaxLag,        \* bound on the age of a detection when it arrives
    Horizon,       \* bound: detections arrive up to this time
    MaxTracklets,  \* bound on tracklets opened
    MaxFaults      \* bound on failed store calls and restarts

Finalizers == {"auto", "main"}

ASSUME GateAssumption == MinFrames \in Nat \ {0}
ASSUME AgeAssumption == MaxAge \in [Finalizers -> Nat \ {0}]
ASSUME BoundsAssumption ==
    MaxLag \in Nat /\ Horizon \in Nat /\ MaxTracklets \in Nat /\ MaxFaults \in Nat

VARIABLES
    now,        \* the clock
    in_flight,  \* in_flight[k]: the open tracklet of key k, or Closed
    opened,     \* tracklets opened so far; they are numbered in that order
    closed,     \* closed[f]: tracklets finalizer f closed and has yet to emit
    rows,       \* tracklets with a row in PostgreSQL
    published,  \* tracklets with a message in stream:tracklets
    short,      \* tracklets discarded by the length gate
    lost,       \* tracklets whose list an exception abandoned
    faults      \* faults so far

vars == <<now, in_flight, opened, closed, rows, published, short, lost, faults>>

LastTick == Horizon + MaxAge["auto"] + MaxAge["main"]
Ids == 1..MaxTracklets
NoTime == -1 - MaxLag        \* end_time is None
Tracklets == [id : Ids, end : NoTime..LastTick, frames : 0..MinFrames,
              rich : BOOLEAN]
Closed == [id |-> 0, end |-> NoTime, frames |-> 0, rich |-> FALSE]

Open == {k \in Keys : in_flight[k] # Closed}
IdsOf(S) == {t.id : t \in S}

TypeOK ==
    /\ now \in 0..LastTick
    /\ in_flight \in [Keys -> Tracklets \union {Closed}]
    /\ opened \in 0..MaxTracklets
    /\ closed \in [Finalizers -> SUBSET Tracklets]
    /\ rows \in SUBSET Ids /\ published \in SUBSET Ids
    /\ short \in SUBSET Ids /\ lost \in SUBSET Ids
    /\ faults \in 0..MaxFaults

Init ==
    /\ now = 0
    /\ in_flight = [k \in Keys |-> Closed] /\ opened = 0
    /\ closed = [f \in Finalizers |-> {}]
    /\ rows = {} /\ published = {} /\ short = {} /\ lost = {}
    /\ faults = 0

Fault == faults < MaxFaults /\ faults' = faults + 1

Tick ==
    /\ now < LastTick
    /\ now' = now + 1
    /\ UNCHANGED <<in_flight, opened, closed, rows, published, short, lost, faults>>

-----------------------------------------------------------------------------
(* The tracklet a detection of key k belongs to: the open one, or a new one. *)
Current(k) ==
    IF k \in Open THEN in_flight[k] ELSE [Closed EXCEPT !.id = opened + 1]

(* The tracklet of key k becomes t. *)
Store(k, t) ==
    /\ now <= Horizon
    /\ in_flight' = [in_flight EXCEPT ![k] = t]
    /\ opened' = IF k \in Open THEN opened ELSE opened + 1
    /\ opened' <= MaxTracklets
    /\ UNCHANGED <<now, closed, rows, published, short, lost, faults>>

Up(n, max) == IF n < max THEN n + 1 ELSE max

(* on_detection, and on_frame with a crop that is good enough and was stored.
   An embedding makes the tracklet rich at once, a crop does when it is the
   min_crops-th. *)
OnDetection(k, t, rich) ==
    LET tl == Current(k)
    IN  Store(k, [tl EXCEPT !.end = t, !.frames = Up(@, MinFrames),
                            !.rich = @ \/ rich])

(* on_frame whose crop is useless or could not be stored: the tracklet is
   opened all the same, with no end_time yet. *)
OnFrameNoCrop(k) == Store(k, Current(k))

(* on_sahi_detection: the key is (camera, frame_id), which may be in use by a
   track of the detector; then only its end_time moves. *)
OnSahiDetection(k, t) ==
    LET tl == Current(k)
    IN  Store(k, [tl EXCEPT !.end = t, !.frames = IF k \in Open THEN @ ELSE 1])

-----------------------------------------------------------------------------
Stale(f) == {k \in Open : in_flight[k].end # NoTime
                          /\ now - in_flight[k].end >= MaxAge[f]}
LongEnough(t) == t.frames >= MinFrames \/ t.rich

(* The keys in K are closed: those long enough are kept, in kept. *)
Close(K, kept) ==
    /\ in_flight' = [k \in Keys |-> IF k \in K THEN Closed ELSE in_flight[k]]
    /\ kept = {in_flight[k] : k \in {j \in K : LongEnough(in_flight[j])}}
    /\ short' = short \union (IdsOf({in_flight[k] : k \in K}) \ IdsOf(kept))
    /\ UNCHANGED <<now, opened, rows, published>>

(* Everything in memory is gone and the process is started again. *)
ProcessLost ==
    /\ in_flight' = [k \in Keys |-> Closed]
    /\ closed' = [f \in Finalizers |-> {}]
    /\ lost' = lost \union {in_flight[k].id : k \in Open}
                    \union IdsOf(closed["auto"] \union closed["main"])

(* Mutant: the closed tracklets are left in flight. *)
FinalizeStale_KeepsOpen(f) ==
    /\ closed[f] = {} /\ Stale(f) # {}
    /\ closed' = [closed EXCEPT ![f] =
            {t \in {in_flight[k] : k \in Stale(f)} : LongEnough(t)}]
    /\ UNCHANGED <<now, in_flight, opened, rows, published, short, lost, faults>>

(* Mutant: a tracklet that is too short is left in flight, not discarded. *)
FinalizeStale_LongOnly(f) ==
    LET K == {k \in Stale(f) : LongEnough(in_flight[k])}
    IN  /\ closed[f] = {} /\ K # {}
        /\ \E kept \in SUBSET {in_flight[k] : k \in K} :
              Close(K, kept) /\ closed' = [closed EXCEPT ![f] = kept]
        /\ UNCHANGED <<lost, faults>>

(* finalize_stale: all silent tracklets, under the lock. *)
FinalizeStale(f) ==
    /\ closed[f] = {} /\ Stale(f) # {}
    /\ \E kept \in SUBSET {in_flight[k] : k \in Stale(f)} :
          Close(Stale(f), kept) /\ closed' = [closed EXCEPT ![f] = kept]
    /\ UNCHANGED <<lost, faults>>

(* clear_buffer raises for tracklet t: the older tracklets of this pass and t
   itself are off the dictionary, and the list dies with the exception.  The
   main loop does not catch it, and the process ends. *)
FinalizeFails(f) ==
    /\ closed[f] = {}
    /\ Fault
    /\ \E t \in {in_flight[k] : k \in Stale(f)} :
          /\ LongEnough(t)
          /\ LET K == {k \in Stale(f) : in_flight[k].id <= t.id}
             IN  IF f = "auto"
                 THEN \E kept \in SUBSET {in_flight[k] : k \in K} :
                         Close(K, kept) /\ lost' = lost \union IdsOf(kept)
                                        /\ UNCHANGED closed
                 ELSE ProcessLost /\ UNCHANGED <<now, opened, rows, published, short>>

(* The tracklet emit_closed_tracklets is at: the loop goes in opening order. *)
IsNext(f, t) == t \in closed[f] /\ \A u \in closed[f] : t.id <= u.id

(* Mutant: all rows of the list are written before the first message. *)
EmitInsert_All(f, t) ==
    /\ IsNext(f, t) /\ t.id \notin rows
    /\ rows' = rows \union IdsOf(closed[f])
    /\ UNCHANGED <<now, in_flight, opened, closed, published, short, lost, faults>>

(* insert_tracklet for the next tracklet of the list. *)
EmitInsert(f, t) ==
    /\ IsNext(f, t) /\ t.id \notin rows
    /\ rows' = rows \union {t.id}
    /\ UNCHANGED <<now, in_flight, opened, closed, published, short, lost, faults>>

(* publish for the tracklet whose row was just written. *)
EmitPublish(f, t) ==
    /\ IsNext(f, t) /\ t.id \in rows
    /\ published' = published \union {t.id}
    /\ closed' = [closed EXCEPT ![f] = @ \ {t}]
    /\ UNCHANGED <<now, in_flight, opened, rows, short, lost, faults>>

(* insert_tracklet or publish raises, before or after the store did its work:
   the rest of the list is abandoned, and in the main loop the process ends. *)
EmitFails(f, t) ==
    /\ IsNext(f, t)
    /\ Fault
    /\ \/ UNCHANGED <<rows, published>>
       \/ t.id \notin rows /\ rows' = rows \union {t.id} /\ UNCHANGED published
       \/ t.id \in rows /\ published' = published \union {t.id} /\ UNCHANGED rows
    /\ IF f = "auto"
       THEN /\ lost' = lost \union (IdsOf(closed[f]) \ published')
            /\ closed' = [closed EXCEPT ![f] = {}]
            /\ UNCHANGED in_flight
       ELSE /\ in_flight' = [k \in Keys |-> Closed]
            /\ closed' = [g \in Finalizers |-> {}]
            /\ lost' = lost \union {in_flight[k].id : k \in Open}
                            \union (IdsOf(closed["auto"] \union closed["main"]) \ published')
    /\ UNCHANGED <<now, opened, short>>

(* The process is killed and started again. *)
Restart ==
    /\ Fault
    /\ ProcessLost
    /\ UNCHANGED <<now, opened, rows, published, short>>

Detect ==
    \E k \in Keys :
        \/ \E t \in (now - MaxLag)..now :
              \/ \E rich \in BOOLEAN : OnDetection(k, t, rich)
              \/ OnSahiDetection(k, t)
        \/ OnFrameNoCrop(k)

Finalizer(f) ==
    \/ FinalizeStale(f)
    \/ \E t \in closed[f] : EmitInsert(f, t) \/ EmitPublish(f, t)

Next ==
    \/ Tick \/ Detect \/ Restart
    \/ \E f \in Finalizers :
          \/ Finalizer(f) \/ FinalizeFails(f)
          \/ \E t \in closed[f] : EmitFails(f, t)

Spec == Init /\ [][Next]_vars

(* The auto-finalize thread catches every exception and comes back after five
   seconds; the main loop is not relied on, it blocks in production. *)
FairSpec == Spec /\ WF_vars(Tick) /\ WF_vars(Finalizer("auto"))
                 /\ WF_vars(\E t \in closed["main"] :
                                EmitInsert("main", t) \/ EmitPublish("main", t))

-----------------------------------------------------------------------------
(* Where a tracklet can be. *)
Places == [flight    |-> {in_flight[k].id : k \in Open},
           auto      |-> IdsOf(closed["auto"]),
           main      |-> IdsOf(closed["main"]),
           published |-> published,
           short     |-> short,
           lost      |-> lost]

(* With two finalizers and four writers, a tracklet is never in two hands, and
   never emitted twice: each one that was opened is in flight, in the list of
   one finalizer, published, discarded as short, or lost to an exception, and
   in exactly one of these. *)
InOnePlace ==
    LET at == Places
    IN  \A i \in 1..opened :
            \E p \in DOMAIN at : \A q \in DOMAIN at : i \in at[q] <=> q = p

(* A tracklet is announced only after its row is there: the consumers of the
   message update that row (tracklets.global_id) and never insert it. *)
RowBeforeMessage == published \subseteq rows

(* A failure leaves at most one row per finalizer that will never be announced,
   however long the abandoned lists were: the row and its message go out
   together, tracklet by tracklet. *)
UnannouncedAreFaults ==
    Cardinality((rows \ published)
                \ IdsOf(closed["auto"] \union closed["main"]))
        <= Cardinality(Finalizers) * faults

(* Once detections stop, a tracklet that has an end_time leaves the collector:
   it is published, discarded as short, or lost to an exception. *)
EventuallyClosed ==
    \A i \in Ids :
        (\E k \in Open : in_flight[k].id = i /\ in_flight[k].end # NoTime)
            ~> (i \in published \union short \union lost)
=============================================================================
