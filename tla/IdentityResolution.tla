------------------------- MODULE IdentityResolution -------------------------
(***************************************************************************)
(* From tracklet to identity: the TransReID sidecar writes a tracklet's    *)
(* embeddings to Qdrant and announces them on stream:embeddings; the       *)
(* global identity resolver searches Qdrant, decides, and records the      *)
(* decision in Postgres, Redis, Qdrant and the decision stream, one store  *)
(* after the other.                                                        *)
(*                                                                         *)
(* Both streams deliver at least once (AtLeastOnce): a message stays owed  *)
(* until its handler is done with it, and a fault may bring it back later. *)
(* A fault also stops a handler between two of its steps, loses one of the *)
(* best-effort writes, or makes one Qdrant sub-query fail.                 *)
(***************************************************************************)
EXTENDS IdentityPolicy, Sequences

CONSTANTS
    Tracklets,
    Scenes,      \* [cam, sim]: where each tracklet was seen, and the cosine of
                 \* each tracklet's mean with each other's best crop
    Crops,       \* embeddings that the sidecar writes for a tracklet
    TopK,        \* hits that a search returns
    MaxTime,     \* bound on the sidecar's clock
    MaxFaults    \* bound on faults

ASSUME SizesAssumption ==
    /\ Crops \in Nat \ {0} /\ TopK \in Nat \ {0}
    /\ MaxTime \in Nat /\ MaxFaults \in Nat
    /\ 0..MaxTime \subseteq DOMAIN Decay
    /\ \A s \in Scenes : /\ s.cam \in [Tracklets -> Cameras]
                         /\ s.sim \in [Tracklets -> [Tracklets -> 0..100]]

NoGid == 0

VARIABLES
    scene,       \* one of Scenes: what the cameras saw
    owed,        \* tracklets that stream:tracklets owes the sidecar
    side,        \* the sidecar: idle, or the tracklet, its stamp, and whether sent
    clock,       \* the last time stamp taken
    point,       \* Qdrant: the payload of the tracklet's points
    sent,        \* embedding messages ever published
    pending,     \* those that stream:embeddings owes the resolver
    task,        \* the resolver: idle, or the decision it is carrying out
    minted,      \* rows of global_identities; their ids are 1..minted
    trackletGid, \* tracklets.global_id
    audit,       \* identity_decisions, per tracklet and in order
    published,   \* stream:identity_decisions: tracklet and audit entry
    seen,        \* cameras with a camera:last_seen key in Redis
    disturbed,   \* tracklets a fault has touched
    faults

sidecarVars == <<owed, side, clock, sent>>
storeVars == <<minted, trackletGid, audit, published, seen>>
vars == <<scene, owed, side, clock, point, sent, pending, task, minted,
          trackletGid, audit, published, seen, disturbed, faults>>

Idle == [step |-> "idle"]
NoPoint == [gid |-> NoGid, ts |-> -1]
Messages == [tracklet : Tracklets, ts : 0..MaxTime]
Cam(t) == scene.cam[t]

Init ==
    /\ scene \in Scenes
    /\ owed = Tracklets
    /\ side = Idle
    /\ clock = 0
    /\ point = [t \in Tracklets |-> NoPoint]
    /\ sent = {}
    /\ pending = {}
    /\ task = Idle
    /\ minted = 0
    /\ trackletGid = [t \in Tracklets |-> NoGid]
    /\ audit = [t \in Tracklets |-> <<>>]
    /\ published = {}
    /\ seen = {}
    /\ disturbed = {}
    /\ faults = 0

(* One of the bounded number of faults, which touches tracklet t. *)
Fault(t) ==
    /\ faults < MaxFaults
    /\ faults' = faults + 1
    /\ disturbed' = disturbed \union {t}

NoFault == UNCHANGED <<faults, disturbed>>

-----------------------------------------------------------------------------
(* The sidecar, process_tracklet. *)

(* All crops of the tracklet are upserted under point ids derived from its
   own id, with no global_id and the sidecar's current time. *)
SidecarUpsert(t) ==
    /\ side = Idle /\ t \in owed
    /\ \E ts \in clock..MaxTime :
          /\ clock' = ts
          /\ point' = [point EXCEPT ![t] = [gid |-> NoGid, ts |-> ts]]
          /\ side' = [step |-> "publish", tracklet |-> t, ts |-> ts]
    /\ UNCHANGED <<scene, owed, sent, pending, task, storeVars>> /\ NoFault

(* The mean embedding is announced and the tracklet acknowledged. *)
SidecarPublish ==
    /\ side # Idle
    /\ LET m == [tracklet |-> side.tracklet, ts |-> side.ts]
       IN  sent' = sent \union {m} /\ pending' = pending \union {m}
    /\ owed' = owed \ {side.tracklet}
    /\ side' = Idle
    /\ UNCHANGED <<scene, clock, point, task, storeVars>> /\ NoFault

(* process_tracklet returns False or raises before the announcement, or the
   container dies: the tracklet is delivered again later. *)
SidecarStops ==
    /\ side # Idle
    /\ Fault(side.tracklet)
    /\ side' = Idle
    /\ UNCHANGED <<scene, owed, clock, point, sent, pending, task, storeVars>>

(* A tracklet that the sidecar had announced comes back: its acknowledgement
   failed, or the sweeper requeued it because the other group of the stream
   had not acknowledged it. *)
RedeliverTracklet(t) ==
    /\ t \notin owed
    /\ Fault(t)
    /\ owed' = owed \union {t}
    /\ UNCHANGED <<scene, side, clock, point, sent, pending, task, storeVars>>

-----------------------------------------------------------------------------
(* Candidate cameras and search. *)

(* The stages of _candidate_cameras: a camera without outgoing links has only
   Stage 3, the cameras seen lately. *)
Stage3Cameras(cam) == (TopologyCameras \union {cam}) \intersect seen
OnlyStage3(cam) == LinkedFrom(cam) = {}
CandidateCameras(cam) ==
    IF OnlyStage3(cam) THEN Stage3Cameras(cam)
    ELSE {cam} \union LinkedFrom(cam) \union Stage3Cameras(cam)

(* Mutant: the window has no lower bound on the travel time. *)
InWindow_NoMin(from, to, age) ==
    from = to \/ \E a \in 0..MaxTime : a >= age /\ WithinTravel(from, to, a)

(* The filter of _search_with_filters on one candidate camera: any age on the
   tracklet's own camera (the bound of a day is out of the model's range), the
   travel window of the enabled link on others. *)
InWindow(from, to, age) == from = to \/ WithinTravel(from, to, age)

(* Points a search for message m is run over; lost are the cameras whose
   sub-query fails, which is logged and skipped.  A crop other than the best
   is a little less similar than the best. *)
Searched(m, lost) ==
    {x \in {u \in Tracklets : point[u] # NoPoint} \X (1..Crops) :
        LET c == Cam(x[1])
        IN  /\ c \in CandidateCameras(Cam(m.tracklet)) \ lost
            /\ InWindow(c, Cam(m.tracklet), m.ts - point[x[1]].ts)}

Score(m, x) == scene.sim[m.tracklet][x[1]] - (x[2] - 1)

(* The best TopK of the searched points. *)
Returned(m, lost) ==
    LET S == Searched(m, lost)
    IN  IF Cardinality(S) <= TopK THEN {S}
        ELSE {R \in SUBSET S : /\ Cardinality(R) = TopK
                               /\ \A x \in R, y \in S \ R : Score(m, x) >= Score(m, y)}

(* Hits the resolver looks at: not the tracklet's own points, which the search
   does return, and only points that already have an identity. *)
Usable(m, x) == x[1] # m.tracklet /\ point[x[1]].gid # NoGid

(* Per camera the best hit, and any that equals it. *)
PerCameraBest(m, H) ==
    {x \in H : \A y \in H : Cam(y[1]) = Cam(x[1]) => Score(m, y) <= Score(m, x)}

Best(m, H) == {x \in H : \A y \in H : Score(m, y) <= Score(m, x)}

(* Other identities in the gallery that look as similar as the one chosen. *)
Rivals(m, x) ==
    {point[y[1]].gid : y \in {z \in Searched(m, {}) :
        /\ Usable(m, z) /\ point[z[1]].gid # point[x[1]].gid
        /\ Score(m, x) - Score(m, z) <= AmbiguousMargin}}

-----------------------------------------------------------------------------
(* The resolver, _handle_one and _resolve_inner. *)

NewDecision(m) ==
    [decision |-> "new", gid |-> NoGid, ts |-> m.ts, from |-> Cam(m.tracklet),
     age |-> 0, reid |-> 0, contested |-> FALSE]

(* What the resolver may decide on the hits H. *)
Decisions(m, H) ==
    LET kept == PerCameraBest(m, H)
        cam == Cam(m.tracklet)
        auto == IF OnlyStage3(cam) THEN Stage3AutoMatch ELSE AutoMatch
    IN  IF kept = {} THEN {NewDecision(m)}
        ELSE {LET from == Cam(x[1])
                  age == IF m.ts >= point[x[1]].ts THEN m.ts - point[x[1]].ts ELSE 0
                  others == {Score(m, y) : y \in Best(m, kept \ {x})}
                  d == Decide(Score(m, x), others, age, from, cam, auto)
              IN  [decision |-> d,
                   gid |-> IF d = "match" THEN point[x[1]].gid ELSE NoGid,
                   ts |-> m.ts, from |-> from, age |-> age,
                   reid |-> Score(m, x), contested |-> Rivals(m, x) # {}]
              : x \in Best(m, kept)}

(* Search and decide: nothing is written yet. *)
ResolverDecides(m) ==
    /\ task = Idle /\ m \in pending
    /\ \E lost \in {{}} \union {{c} : c \in CandidateCameras(Cam(m.tracklet))} :
          /\ IF lost = {} THEN NoFault ELSE Fault(m.tracklet)
          /\ \E R \in Returned(m, lost) :
             \E d \in Decisions(m, {x \in R : Usable(m, x)}) :
                task' = [step |-> CASE d.decision = "new" -> "create"
                                    [] d.decision = "match" -> "link"
                                    [] OTHER -> "audit",
                         msg |-> m, decision |-> d]
    /\ UNCHANGED <<scene, sidecarVars, point, pending, storeVars>>

(* Mutant: the row is created under an id that is minted once more. *)
CreateIdentity_Twice ==
    /\ task.step = "create"
    /\ minted' = minted + 2
    /\ task' = [task EXCEPT !.step = "link", !.decision.gid = minted + 2]
    /\ UNCHANGED <<scene, sidecarVars, point, pending, trackletGid, audit, published, seen>>
    /\ NoFault

(* mint_global_id and create_global_identity. *)
CreateIdentity ==
    /\ task.step = "create"
    /\ minted' = minted + 1
    /\ task' = [task EXCEPT !.step = "link", !.decision.gid = minted + 1]
    /\ UNCHANGED <<scene, sidecarVars, point, pending, trackletGid, audit, published, seen>>
    /\ NoFault

(* update_tracklet_global_id *)
LinkTracklet ==
    /\ task.step = "link"
    /\ trackletGid' = [trackletGid EXCEPT ![task.msg.tracklet] = task.decision.gid]
    /\ task' = [task EXCEPT !.step = "mark"]
    /\ UNCHANGED <<scene, sidecarVars, point, pending, minted, audit, published, seen>>
    /\ NoFault

(* mark_recent and mark_camera_last_seen; then _backfill_qdrant_global_id
   reads the tracklet's points ... *)
MarkSeen ==
    /\ task.step = "mark"
    /\ seen' = seen \union {Cam(task.msg.tracklet)}
    /\ task' = [step |-> "backfill", msg |-> task.msg, decision |-> task.decision,
                copy |-> point[task.msg.tracklet]]
    /\ UNCHANGED <<scene, sidecarVars, point, pending, minted, trackletGid, audit, published>>
    /\ NoFault

AfterBackfill == [step |-> "audit", msg |-> task.msg, decision |-> task.decision]

(* Mutant: the points are written back as they were read. *)
BackfillWrites_Unchanged ==
    /\ task.step = "backfill"
    /\ point' = [point EXCEPT ![task.msg.tracklet] = task.copy]
    /\ task' = AfterBackfill
    /\ UNCHANGED <<scene, sidecarVars, pending, storeVars>> /\ NoFault

(* ... and writes them back with the identity. *)
BackfillWrites ==
    /\ task.step = "backfill"
    /\ point' = [point EXCEPT ![task.msg.tracklet] =
                    [task.copy EXCEPT !.gid = task.decision.gid]]
    /\ task' = AfterBackfill
    /\ UNCHANGED <<scene, sidecarVars, pending, storeVars>> /\ NoFault

(* A failed backfill is logged and the resolver goes on. *)
BackfillFails ==
    /\ task.step = "backfill"
    /\ Fault(task.msg.tracklet)
    /\ task' = AfterBackfill
    /\ UNCHANGED <<scene, sidecarVars, point, pending, storeVars>>

(* insert_identity_decision *)
AuditDecision ==
    /\ task.step = "audit"
    /\ audit' = [audit EXCEPT ![task.msg.tracklet] = Append(@, task.decision)]
    /\ task' = [task EXCEPT !.step = "publish"]
    /\ UNCHANGED <<scene, sidecarVars, point, pending, minted, trackletGid, published, seen>>
    /\ NoFault

(* Mutant: the message is not acknowledged. *)
PublishDecision_NoAck ==
    /\ task.step = "publish"
    /\ published' = published \union
          {[tracklet |-> task.msg.tracklet, gid |-> task.decision.gid]}
    /\ task' = Idle
    /\ UNCHANGED <<scene, sidecarVars, point, pending, minted, trackletGid, audit, seen>>
    /\ NoFault

(* The decision goes to stream:identity_decisions, where a failure is only
   logged, and the message is acknowledged. *)
PublishDecision ==
    /\ task.step = "publish"
    /\ \/ /\ published' = published \union
                {[tracklet |-> task.msg.tracklet, gid |-> task.decision.gid]}
          /\ NoFault
       \/ Fault(task.msg.tracklet) /\ UNCHANGED published
    /\ pending' = pending \ {task.msg}
    /\ task' = Idle
    /\ UNCHANGED <<scene, sidecarVars, point, minted, trackletGid, audit, seen>>

(* Mutant: a message whose handler raised is acknowledged. *)
ResolverStops_Acks ==
    /\ task # Idle
    /\ Fault(task.msg.tracklet)
    /\ task' = Idle
    /\ pending' = pending \ {task.msg}
    /\ UNCHANGED <<scene, sidecarVars, point, storeVars>>

(* A write raises, or the process dies: what was written stays, and the message
   is delivered again later. *)
ResolverStops ==
    /\ task # Idle
    /\ Fault(task.msg.tracklet)
    /\ task' = Idle
    /\ UNCHANGED <<scene, sidecarVars, point, pending, storeVars>>

(* A message the resolver was done with comes back: its acknowledgement failed,
   or the resolver was so slow that the sweeper had requeued it. *)
RedeliverEmbedding(m) ==
    /\ m \notin pending
    /\ Fault(m.tracklet)
    /\ pending' = pending \union {m}
    /\ UNCHANGED <<scene, sidecarVars, point, task, storeVars>>

-----------------------------------------------------------------------------
Sidecar ==
    \/ \E t \in Tracklets : SidecarUpsert(t)
    \/ SidecarPublish

Resolver ==
    \/ \E m \in pending : ResolverDecides(m)
    \/ CreateIdentity \/ LinkTracklet \/ MarkSeen
    \/ BackfillWrites \/ AuditDecision \/ PublishDecision

Faults ==
    \/ SidecarStops \/ ResolverStops \/ BackfillFails
    \/ \E t \in Tracklets : RedeliverTracklet(t)
    \/ \E m \in sent : RedeliverEmbedding(m)

Next == Sidecar \/ Resolver \/ Faults

Spec == Init /\ [][Next]_vars

FairSpec == Spec /\ WF_vars(Sidecar) /\ WF_vars(Resolver)

-----------------------------------------------------------------------------
Decision ==
    [decision : {"match", "new", "candidate", "ambiguous"}, gid : 0..minted,
     ts : 0..MaxTime, from : Cameras, age : 0..MaxTime, reid : 0..100,
     contested : BOOLEAN]

TypeOK ==
    /\ scene \in Scenes
    /\ owed \subseteq Tracklets
    /\ side = Idle \/ side \in [step : {"publish"}, tracklet : Tracklets, ts : 0..MaxTime]
    /\ clock \in 0..MaxTime
    /\ \A t \in Tracklets : point[t] = NoPoint \/ point[t] \in [gid : 0..minted, ts : 0..MaxTime]
    /\ pending \subseteq sent /\ sent \subseteq Messages
    /\ \/ task = Idle
       \/ /\ task.msg \in sent /\ task.decision \in Decision
          /\ task.step \in {"create", "link", "mark", "backfill", "audit", "publish"}
    /\ minted \in Nat
    /\ trackletGid \in [Tracklets -> 0..minted]
    /\ \A t \in Tracklets : \A i \in DOMAIN audit[t] : audit[t][i] \in Decision
    /\ published \subseteq [tracklet : Tracklets, gid : 0..minted]
    /\ seen \subseteq Cameras
    /\ disturbed \subseteq Tracklets
    /\ faults \in 0..MaxFaults

Rows(t) == {audit[t][i] : i \in DOMAIN audit[t]}

(* Nothing of the pipeline is still working on tracklet t. *)
Quiet(t) ==
    /\ t \notin owed
    /\ side = Idle \/ side.tracklet # t
    /\ task = Idle \/ task.msg.tracklet # t
    /\ \A m \in pending : m.tracklet # t

(* An embedding message the resolver no longer owes an answer was decided, and
   the decision was recorded: neither a crash between two of the resolver's
   writes nor a failing store makes a tracklet disappear without a row. *)
SettledIsAudited ==
    \A m \in sent \ pending : \E r \in Rows(m.tracklet) : r.ts = m.ts

(* Consumers of stream:identity_decisions never hear of an assignment that
   Postgres does not explain. *)
PublishedIsAudited ==
    \A p \in published : \E r \in Rows(p.tracklet) : r.gid = p.gid

(* The stores agree on every tracklet that no fault touched, however the
   sidecar and the resolver interleave: one decision, and tracklets.global_id,
   the Qdrant payload and the audit row name the same identity. *)
StoresAgree ==
    \A t \in Tracklets \ disturbed :
        Quiet(t) => /\ Len(audit[t]) = 1
                    /\ trackletGid[t] = audit[t][1].gid
                    /\ point[t].gid = trackletGid[t]

(* Identities without a tracklet are created by faults only, at most one each:
   the resolver mints in its last resort, and links what it minted. *)
Orphans == {g \in 1..minted : \A t \in Tracklets : trackletGid[t] # g}
OrphansAreFaults ==
    Cardinality(Orphans) <= faults + (IF task.step = "link" THEN 1 ELSE 0)

(* A match across cameras follows an enabled link in the direction the person
   walked, after a travel time that the link allows. *)
MatchesAreFeasible ==
    \A t \in Tracklets : \A r \in Rows(t) :
        r.decision = "match" /\ r.from # Cam(t) => WithinTravel(r.from, Cam(t), r.age)

(* A camera without outgoing links has Stage 3 only, whose threshold the
   weighted score of a same-camera candidate cannot reach (no link scores 0.5,
   no zone scores 0.5): there a match rests on the cosine override alone. *)
SinkMatchesByOverride ==
    \A t \in Tracklets : \A r \in Rows(t) :
        r.decision = "match" /\ r.from = Cam(t) /\ OnlyStage3(Cam(t))
            => r.reid >= ReidOverride

(* Without a fault an assigned identity is final: no step changes
   tracklets.global_id of a tracklet that is not being redelivered. *)
IdentityIsFirm ==
    [][\A t \in Tracklets :
         trackletGid[t] # NoGid /\ trackletGid'[t] # trackletGid[t] => t \in disturbed]_vars

(* Every tracklet is decided in the end, whatever the faults. *)
EventuallyDecided == \A t \in Tracklets : <>(audit[t] # <<>>)

(* README.md, hard rule 8: ambiguous candidates are not auto-merged. *)
AmbiguousNotMerged ==
    \A t \in Tracklets : \A r \in Rows(t) : ~ (r.decision = "match" /\ r.contested)

(* README.md: impossible transitions are hard-blocked.  No link is crossed in
   no time, so nobody is on two cameras at the same time. *)
NobodyInTwoPlaces ==
    \A t, u \in Tracklets :
        /\ Cam(t) # Cam(u) /\ trackletGid[t] = trackletGid[u] /\ trackletGid[t] # NoGid
        /\ Quiet(t) /\ Quiet(u)
        => point[t].ts # point[u].ts

(* resolver.py: tracklets.global_id matches the audit. *)
JoinableMatchesAudit ==
    \A t \in Tracklets :
        Quiet(t) /\ audit[t] # <<>> => trackletGid[t] = audit[t][Len(audit[t])].gid
=============================================================================
